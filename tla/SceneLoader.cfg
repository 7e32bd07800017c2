SPECIFICATION FairLoaderSpec
CONSTANTS
  Nothing = Nothing
  Bad = Bad
  Depth = 2
  Budget = 5
INVARIANT SettledIsTrue
PROPERTY ReadyAgain
