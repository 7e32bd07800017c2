CONSTANTS
  arm = arm
  a1 = a1
  l1 = l1
  None = None
  Controllers = {arm}
  Commands = {a1}
  Legacy = {}
  CtlOf <- ForArm
  MaxAttempts = 2
  MaxAsking = 1
  MaxResets = 1
  ResetGap = FALSE
  Failures = {"send", "response", "request", "result", "unknown", "cancel", "execute"}
SPECIFICATION FairSpec
INVARIANTS ReportIsProven ConfirmedIsOver
PROPERTIES TombstoneStays AnswerStands CommandEnds LossStops
CHECK_DEADLOCK FALSE
