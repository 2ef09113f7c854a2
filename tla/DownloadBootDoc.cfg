SPECIFICATION Spec
CONSTANTS
  j1 = j1
  f1 = f1
  f2 = f2
  w1 = w1
  w2 = w2
  c1 = c1
  None = None
  Jobs = {j1}
  Files = {f1, f2}
  FilesOf <- MCFilesOf
  Clients = {c1}
  Workers = {w1, w2}
  MaxAttempts = 2
  Tray = TRUE
  CanCrash = TRUE
INVARIANT
  ActiveHasWorker
