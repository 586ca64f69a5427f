SPECIFICATION FairSpec
CONSTANTS
  Files = {f1, f2}
  Workers = {w1}
  Threads = {t1}
  Watch = watch
  Ensurers = {}
  Tools = {}
  Nobody = nobody
  MaxVersion = 3
  MaxGen = 6
  CanFail = FALSE
  CanCancel = FALSE
  QuietStart = TRUE
INVARIANTS
  FreshWhenReportedFresh
PROPERTIES
  Converges
CHECK_DEADLOCK FALSE
