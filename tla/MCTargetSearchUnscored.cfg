CONSTANTS
  Searches <- MCRough
  Unscored = Unscored
  None = None
SPECIFICATION Spec
INVARIANTS
  UnscoredNeverWins
CHECK_DEADLOCK FALSE
