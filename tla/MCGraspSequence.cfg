SPECIFICATION FairSpec
CONSTANTS
  t1 = t1
  t2 = t2
  g1 = g1
  g2 = g2
  None = None
  TaskIds = {t1}
  Targets <- MCTargets
  MaxTime = 2
  MaxEpoch = 1
  SourceTimeout = 1
  SignalTimeout <- MCSignalTimeout
  CommandTimeout = 1
  Healths <- MCHealths
  TaskInputs <- MCTaskInputs
INVARIANT RecoveredIsStill
PROPERTIES CommandResolves LateProofUnlocks
