SPECIFICATION FairSpec

CONSTANTS
  MaxTime = 2
  MaxAge = 0
  WatchdogTimeout = 1
  SkewTolerance = 2
  MaxEpoch = 1
  QueueDepth = 2
  PermissionTimeout = 0
  MaxDelay = 1
  MaxRollbacks = 1

INVARIANTS TrueIsCovered LatchedDenies PermissionExpires
PROPERTY ExpiryDenies

