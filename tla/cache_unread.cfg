SPECIFICATION Spec
CONSTANTS
  Procs = {p1}
  Files = {f1}
  Loads = {}
  Saves = {s1}
  MaxSaves = 3
  MaxStamp = 3
  Overlap = FALSE
  CanLose = TRUE
SYMMETRY Symmetry
INVARIANTS
  CoherentAtRest
CHECK_DEADLOCK FALSE
