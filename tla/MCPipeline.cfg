SPECIFICATION FairSpec

CONSTANTS
  cup = cup
  ball = ball
  Ids <- MCIds
  None = None
  MaxTime = 3
  MaxAge = 1
  WatchdogTimeout = 1
  MaxEpoch = 1
  MaxDepth = 2

INVARIANT StillUnlessExecuting
PROPERTIES ExecutionIsSafe EpochsSeparateTime WatchdogStops
