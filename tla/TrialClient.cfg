SPECIFICATION Spec
CONSTANTS
  MaxRestarts = 2
  Targets = {t1, t2}
  None = None
INVARIANTS BaselineBeforeMotion ExitIsTrue
CHECK_DEADLOCK FALSE
