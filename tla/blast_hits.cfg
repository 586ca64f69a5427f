SPECIFICATION ToolSpec
CONSTANTS
  Calls = {c1, c2}
  Queries = {q1}
  MaxVersion = 2
  CacheMax = 1
  Threshold = 1
  Silent = FALSE
  StripMeta = {TRUE}
INVARIANTS
  HitAnswers
CHECK_DEADLOCK FALSE
