SPECIFICATION FairSpec
CONSTANTS
  a1 = a1
  a2 = a2
  w1 = w1
  w2 = w2
  l1 = l1
  l2 = l2
  l3 = l3
  l4 = l4
  l5 = l5
  None = None
  NoWindow = NoWindow
  NoLease = NoLease
  Leases = {l1, l2, l3}
  Actions = {a1}
  Workers = {w1, w2}
  Last = 4
  Checkpoints = {3}
  Judged = {1}
  NeedsWindow = {2}
  HasPreconditions = TRUE
  MaxStarts = 2
INVARIANTS
  TypeOK
  OneRunner
  
  
  NoStepSkipped
PROPERTY
  RunsEnd
CHECK_DEADLOCK FALSE
