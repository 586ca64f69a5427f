SPECIFICATION Spec
CONSTANTS
  Procs = {p1}
  Files = {f1, f2}
  Loads = {}
  Saves = {s1, s2}
  MaxSaves = 3
  MaxStamp = 3
  Overlap = TRUE
  CanLose = FALSE
SYMMETRY Symmetry
INVARIANTS
  CoherentAtRest
CHECK_DEADLOCK FALSE
