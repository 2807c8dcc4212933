CONSTANTS
  Searches <- MCSearches
  Unscored = Unscored
  None = None
SPECIFICATION FairSpec
INVARIANTS
  BracketSound
  BestOfTrials
  StopsAtOptimum
  BisectionSuffices
  RepeatsOnlyCollapsed
PROPERTIES
  Terminates
CHECK_DEADLOCK FALSE
