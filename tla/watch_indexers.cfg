SPECIFICATION Spec
CONSTANTS
  Managers = {m1, m2}
  Nobody = nobody
  MaxRestarts = 2
  CanFail = FALSE
  CanDie = FALSE
INVARIANTS
  OneIndexer
CHECK_DEADLOCK FALSE
