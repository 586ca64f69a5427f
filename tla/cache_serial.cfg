SPECIFICATION Spec
CONSTANTS
  Procs = {p1, p2}
  Files = {f1, f2}
  Loads = {l1}
  Saves = {s1}
  MaxSaves = 3
  MaxStamp = 4
  Overlap = FALSE
  CanLose = FALSE
SYMMETRY Symmetry
INVARIANTS
  TypeOK
  CacheCoherent
  LoadsLatest
CHECK_DEADLOCK FALSE
