SPECIFICATION FairSpec
CONSTANTS
  Callers = {c1, c2}
  Folders = {f1}
  Nowhere = nowhere
  MaxFlights = 2
  CanAbort = TRUE
PROPERTIES
  EveryCallReturns
CHECK_DEADLOCK FALSE
