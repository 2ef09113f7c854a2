SPECIFICATION Spec
CONSTANTS
  None = None
  Callers = {o1}
  Sweepers = {loop, hook}
  Hook = hook
  Review = review
  Checks = {k1}
  Fixable = {k1}
  Codes = {storm}
  Calls = {"approve", "checkNow", "recheck", "procedurize", "reject", "resolve", "propose"}
  MaxActs = 2
  MaxInvs = 2
  MaxRows = 3
  Named = {0}
  MaxOpen = 2
  MaxAuto = 1
  CanRestart = TRUE
  o1 = o1
  loop = loop
  hook = hook
  review = review
  k1 = k1
  k2 = k2
  storm = storm
INVARIANTS
  TypeOK
  RunsOnce
  OnePendingPerKey
  
  
