CONSTANTS
  LdConfigs <- MCLdRetry
  None = None
  Empty = Empty
SPECIFICATION Spec
INVARIANTS
  RetryKeepsSync
CHECK_DEADLOCK FALSE
