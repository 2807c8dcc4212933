CONSTANTS
  Searches <- MCBisect
  Unscored = Unscored
  None = None
SPECIFICATION Spec
INVARIANTS
  NeverReencodes
CHECK_DEADLOCK FALSE
