SPECIFICATION Spec
CONSTANTS
  Procs = {p1, p2}
  Files = {f1}
  Loads = {l1}
  Saves = {s1}
  MaxSaves = 2
  MaxStamp = 3
  Overlap = TRUE
  CanLose = FALSE
SYMMETRY Symmetry
INVARIANTS
  CoherentAtRest
CHECK_DEADLOCK FALSE
