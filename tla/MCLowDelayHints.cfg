CONSTANTS
  LdConfigs <- MCLdLong
  None = None
  Empty = Empty
SPECIFICATION Spec
INVARIANTS
  SignBiasZeroUnderLowDelay
CHECK_DEADLOCK FALSE
