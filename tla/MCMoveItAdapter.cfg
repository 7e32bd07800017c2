SPECIFICATION FairSpec
CONSTANTS
  r1 = r1
  r2 = r2
  c1 = c1
  c2 = c2
  None = None
  Goals = {r1, r2}
  Carries <- MCCarries
  MaxEpoch = 1
INVARIANTS EvidenceIsTrue NoneForgotten
PROPERTIES OneMotion DispatchedOnce LateGoalsEnd RequestsEnd
CHECK_DEADLOCK FALSE
