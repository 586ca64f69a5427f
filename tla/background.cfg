SPECIFICATION Spec
CONSTANTS
  Batches = {b1, b2, b3, b4}
  Workers = 2
  MaxFailures = 2
  Languages = {l1, l2}
  OwnIds = {1}
  Folders = {w1, w2}
  Polled = {w1, w2}
  Hooked = {w1}
  MaxEvents = 4
INVARIANTS
  BackgroundTypeOK
  FewSentAfterTrip
  OnlyAcceptedSurvive
PROPERTIES
  SummariesEnd
  BridgeEnds
  WorktreesWatched
  SignalEnds
CHECK_DEADLOCK FALSE
