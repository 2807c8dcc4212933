CONSTANTS
  Walks <- MCWalks
  None = None
SPECIFICATION FairSpec
INVARIANTS
  BoundedThreads
  NoThreadOutlives
PROPERTIES
  ImplementsOrderedWalk
CHECK_DEADLOCK FALSE
