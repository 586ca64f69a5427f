SPECIFICATION Spec
CONSTANTS
  Files = {f1, f2}
  Workers = {w1}
  Threads = {t1}
  Watch = watch
  Ensurers = {}
  Tools = {}
  Nobody = nobody
  MaxVersion = 2
  MaxGen = 5
  CanFail = TRUE
  CanCancel = FALSE
  QuietStart = TRUE
INVARIANTS
  FreshWhenReportedFresh
CHECK_DEADLOCK FALSE
