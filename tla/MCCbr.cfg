CONSTANTS
  LdConfigs <- MCCbrConfigs
  PacketBits = {0, 5}
  None = None
  Empty = Empty
SPECIFICATION CbrSpec
INVARIANTS
  RateCountersFollowGop
  BandsTurn
  BucketFollowsChannel
CHECK_DEADLOCK FALSE
