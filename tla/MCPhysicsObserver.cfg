SPECIFICATION Spec
CONSTANTS
  fixed = fixed
  moving = moving
  None = None
  Pads = {fixed, moving}
  Freshness = 1
  Retention = 3
  BaselineCount = 1
  MinLift = 1
  MinClearance = 1
  Samples <- MCSamples
  MaxPending = 2
VIEW Ages
INVARIANTS VerifiedIsEarned NoFalseFault
CHECK_DEADLOCK FALSE
