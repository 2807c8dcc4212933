CONSTANTS
  LdConfigs <- MCLdConfigs
  None = None
  Empty = Empty
SPECIFICATION Spec
INVARIANTS
  LdReferencesInSync
  LdRefsWithinGop
  LongTermRenewed
  TwoBuffersSuffice
  CbrLayersNest
  CbrServesTwoLevels
  DamageIsLocal
CHECK_DEADLOCK FALSE
