SPECIFICATION FairSpec
CONSTANTS
  None = None
  Callers = {c1, c2, c3}
  Patient = {c1}
  Models = {m1}
  Slots = {s1}
  Targets = {None}
  JumpCaps = {1}
  CanRestart = FALSE
  c1 = c1
  c2 = c2
  c3 = c3
  c4 = c4
  m1 = m1
  m2 = m2
  s1 = s1
  s2 = s2
INVARIANTS
  TicketsMatchCalls
  JumpBound
  JumpsDecrease
PROPERTIES
  OrderIsStable
  
  PatientReachesHead
  CallsReturn
