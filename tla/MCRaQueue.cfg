CONSTANTS
  GopConfigs <- MCGopConfigs
  MaxPics = 11
  MayFail = TRUE
  None = None
SPECIFICATION FairSpec
INVARIANTS
  TypeOK
  Conserved
  KeyFrameLeads
  Latency
  HeldKeyHasFollowers
PROPERTIES
  Lookahead
  NeverOutOfOrder
  ImplementsPromise
  FlushDrains
  CallsReturn
CHECK_DEADLOCK FALSE
