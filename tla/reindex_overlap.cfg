SPECIFICATION Spec
CONSTANTS
  Files = {f1}
  Workers = {w1, w2}
  Threads = {t1}
  Watch = watch
  Ensurers = {e1}
  Tools = {i1}
  Nobody = nobody
  MaxVersion = 2
  MaxGen = 3
  CanFail = TRUE
  CanCancel = TRUE
  QuietStart = FALSE
INVARIANTS
  GenerationFixedWhileSaving
CHECK_DEADLOCK FALSE
