SPECIFICATION Spec
CONSTANTS
  Nodes = {n1, n2, n3, n4}
  MaxDepth = 3
  MaxEdges = 12
  Modules = {n1, n2, n3, n4}
  MaxImports = 12
  Barrels = {b1, b2, b3}
  Names = {e1, e2}
  Renames = TRUE
  MaxReExports = 4
SYMMETRY Symmetry
INVARIANTS
  QueryTypeOK
  LevelsAreDistances
  CyclesAreComponents
  LeavesRight
CHECK_DEADLOCK FALSE
