CONSTANTS
  arm = arm
  a1 = a1
  l1 = l1
  None = None
  Controllers = {arm}
  Commands = {a1}
  Legacy = {l1}
  CtlOf <- ForArm
  MaxAttempts = 1
  MaxAsking = 1
  MaxResets = 1
  ResetGap = FALSE
  Failures = {"send", "request", "result", "cancel"}
SPECIFICATION Spec
INVARIANT MotionIsOwned
PROPERTY ResetIsQuiet
CHECK_DEADLOCK FALSE
