SPECIFICATION Spec
CONSTANTS
  Files = {f1}
  Workers = {w1}
  Threads = {t1}
  Watch = watch
  Ensurers = {}
  Tools = {}
  Nobody = nobody
  MaxVersion = 2
  MaxGen = 3
  CanFail = FALSE
  CanCancel = TRUE
  QuietStart = FALSE
INVARIANTS
  InProgressOnlyWhileReindexing
CHECK_DEADLOCK FALSE
