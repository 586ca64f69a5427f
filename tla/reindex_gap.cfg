SPECIFICATION Spec
CONSTANTS
  Files = {f1}
  Workers = {w1}
  Threads = {t1}
  Watch = watch
  Ensurers = {}
  Tools = {}
  Nobody = nobody
  MaxVersion = 2
  MaxGen = 3
  CanFail = FALSE
  CanCancel = FALSE
  QuietStart = FALSE
INVARIANTS
  FreshWhenReportedFresh
CHECK_DEADLOCK FALSE
