SPECIFICATION FairSpec
CONSTANTS
  Files = {f1, f2}
  Workers = {w1}
  Threads = {t1, t2}
  Watch = watch
  Ensurers = {}
  Tools = {}
  Nobody = nobody
  MaxVersion = 3
  MaxGen = 4
  CanFail = TRUE
  CanCancel = FALSE
  QuietStart = FALSE
INVARIANTS
  TypeOK
  NoStaleOverwrite
  StaleWhileReindexing
  SkippedOnlyIfCurrent
PROPERTIES
  ReindexEnds
CHECK_DEADLOCK FALSE
