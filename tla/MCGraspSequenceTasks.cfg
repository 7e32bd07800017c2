SPECIFICATION Spec
CONSTANTS
  t1 = t1
  t2 = t2
  g1 = g1
  g2 = g2
  None = None
  TaskIds = {t1, t2}
  Targets <- MCTargets
  MaxTime = 1
  MaxEpoch = 1
  SourceTimeout = 0
  SignalTimeout <- MCSignalTimeout
  CommandTimeout = 1
  Healths <- MCHealths
  TaskInputs <- MCTaskInputs
SYMMETRY Symmetry
PROPERTIES NoOverlap FreshBinding Staging
