SPECIFICATION FairSpec
CONSTANTS
  None = None
  t1 = t1
  TaskIds = {t1}
  MaxResets = 1
  Ready <- AlwaysReady
  Failures <- EveryFailure
INVARIANTS MovingIsHeld ConfirmedIsOver SuccessIsTrue
PROPERTIES Staging SequenceEnds StopReachesGoal
CHECK_DEADLOCK FALSE
