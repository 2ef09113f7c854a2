SPECIFICATION FairSpec
CONSTANTS
  a1 = a1
  a2 = a2
  unloaded = unloaded
  solo = solo
  duo = duo
  other = other
  None = None
  Slots = {a1, a2}
  Modes = {duo}
  Kinds = {"load", "unloadAll", "switch"}
  Home <- MCHome
  Lagging = TRUE
  CanCrash = TRUE
  CanReboot = TRUE
INVARIANT
  NoStartOverStopping
PROPERTY
  OperationsEnd
