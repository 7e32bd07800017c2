CONSTANTS
  arm = arm
  a1 = a1
  l1 = l1
  None = None
  Controllers = {arm}
  Commands = {a1}
  Legacy = {}
  CtlOf <- ForArm
  MaxAttempts = 1
  MaxAsking = 1
  MaxResets = 1
  ResetGap = TRUE
  Failures = {}
SPECIFICATION Spec
PROPERTY ResetIsQuiet
CHECK_DEADLOCK FALSE
