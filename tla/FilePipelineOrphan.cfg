SPECIFICATION FairSpec
CONSTANTS
  Records = 6
  Skipped = {2, 5}
  QueueSize = 2
  BatchQueue = 1
  BatchSize = 2
  MaxFaults = 2
CHECK_DEADLOCK FALSE
INVARIANT ReleasedOnReturn
