SPECIFICATION Spec
CONSTANTS
  Calls = {c1, c2}
  Queries = {q1, q2}
  MaxVersion = 2
  CacheMax = 1
  Threshold = 1
  Silent = TRUE
  StripMeta = {TRUE, FALSE}
  Servers = {s1, s2}
  Files = {f1, f2}
  Repos = {r1}
  MaxReads = 2
  MaxIndexed = 2
  JournalMax = 1
  SavedMax = 1
  Procs = {s1, s2}
  MaxSaved = 3
  FlushInterval = 2
  QueueMax = 2
  Overlap = FALSE
  CanFail = FALSE
  Paths = {f1, f2}
  Indexers = {i1}
  MaxBlob = 2
  CallsOverlap = FALSE
  FetchesFail = FALSE
  Reverts = FALSE
  Threads = {c1, c2}
  Languages = {q1, q2}
  GlobalAdaptive = TRUE
SYMMETRY Symmetry
INVARIANTS
  ServerTypeOK
  AnswersCurrent
  RestoredRight
  EveryTokenCounted
  MeterNotAhead
  UnchangedIsCurrent
  NoOthersConfig
CHECK_DEADLOCK FALSE
