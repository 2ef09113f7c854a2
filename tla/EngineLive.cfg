SPECIFICATION Spec
CONSTANTS
  a1 = a1
  a2 = a2
  unloaded = unloaded
  solo = solo
  duo = duo
  other = other
  None = None
  Slots = {a1, a2}
  Modes = {unloaded, solo, other, duo}
  Kinds = {"load", "unload", "switch", "restart"}
  Home <- MCHome
  Lagging = FALSE
  CanCrash = TRUE
  CanReboot = FALSE
INVARIANTS
  TypeOK
  
  

  
