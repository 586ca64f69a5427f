SPECIFICATION FairSpec
CONSTANTS
  Procs = {p1, p2, p3}
  Inodes = {i1, i2, i3}
  NoFile = noFile
  Empty = empty
INVARIANTS
  TypeOK
  LockFileOwned
PROPERTIES
  StaleRecovered
CHECK_DEADLOCK FALSE
