SPECIFICATION FairSpec
CONSTANTS
  Callers = {c1, c2, c3}
  Folders = {f1, f2}
  Nowhere = nowhere
  MaxFlights = 3
  CanAbort = TRUE
INVARIANTS
  OneReindexPerFolder
PROPERTIES
  OneFlightAnswersAll
  ReturnsUnlessFailed
CHECK_DEADLOCK FALSE
