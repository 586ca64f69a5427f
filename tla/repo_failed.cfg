SPECIFICATION RepoSpec
CONSTANTS
  Paths = {f1, f2}
  Indexers = {i1}
  MaxBlob = 2
  CallsOverlap = FALSE
  FetchesFail = TRUE
  Reverts = FALSE
INVARIANTS
  FailedAreRetried
CHECK_DEADLOCK FALSE
