SPECIFICATION Spec
CONSTANTS
  None = None
  Callers = {c1, c2}
  Patient = {}
  Models = {m1, m2}
  Slots = {s1, s2}
  Targets = {None, s1, s2}
  JumpCaps = {0, 1}
  CanRestart = TRUE
  c1 = c1
  c2 = c2
  c3 = c3
  c4 = c4
  m1 = m1
  m2 = m2
  s1 = s1
  s2 = s2
SYMMETRY Symmetry
INVARIANTS
  TypeOK
  OneLoader
  
  

  
