SPECIFICATION FairSpec
CONSTANTS
  Managers = {m1, m2}
  Nobody = nobody
  MaxRestarts = 2
  CanFail = TRUE
  CanDie = TRUE
INVARIANTS
  TypeOK
  OneWatcher
  NoLockLeak
  OnlyWantedWatched
PROPERTIES
  Failover
CHECK_DEADLOCK FALSE
