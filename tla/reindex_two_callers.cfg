SPECIFICATION Spec
CONSTANTS
  Files = {f1}
  Workers = {w1, w2}
  Threads = {t1}
  Watch = watch
  Ensurers = {e1}
  Tools = {}
  Nobody = nobody
  MaxVersion = 2
  MaxGen = 3
  CanFail = FALSE
  CanCancel = FALSE
  QuietStart = FALSE
INVARIANTS
  StaleWhileReindexing
CHECK_DEADLOCK FALSE
