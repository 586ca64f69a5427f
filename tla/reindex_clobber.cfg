SPECIFICATION Spec
CONSTANTS
  Files = {f1}
  Workers = {w1, w2}
  Threads = {t1}
  Watch = watch
  Ensurers = {}
  Tools = {i1}
  Nobody = nobody
  MaxVersion = 3
  MaxGen = 3
  CanFail = FALSE
  CanCancel = FALSE
  QuietStart = FALSE
INVARIANTS
  NoStaleOverwrite
CHECK_DEADLOCK FALSE
