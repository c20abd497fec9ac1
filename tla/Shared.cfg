SPECIFICATION MCSpec
CONSTANTS
  Caller = {c1, c2}
  MinGap = 2
  MaxRetryAfter = 6
  MaxThrottleRetries = 2
  Backoff = 2
  Hint = {0, 3, 9}
  None = None
  Publisher = {p1, p2, p3}
  Cost = 2
  Burst = 5
  Horizon = 7
  MaxSaves = 4
  SyncsDir = TRUE
  Torn = Torn
CHECK_DEADLOCK FALSE
INVARIANTS
  TotalRateHolds
  WaitIsFair
  PromisedSurvives
PROPERTIES
  GapKept
  ServerIsHeard
  GetReturns
  ImplementsAtomicFile
