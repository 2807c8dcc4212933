CONSTANTS
  GopConfigs <- MCAll
  MaxPics = 72
  MayFail = TRUE
  None = None
  Empty = Empty
SPECIFICATION Spec
INVARIANTS
  NeverRejects
  ShownInOrder
  EmitsEachOnce
  ReferencesInSync
  RefsBracket
  UnitsWellFramed
  CountersInStep
  NoRefAcrossKey
  DamageEndsAtKey
CHECK_DEADLOCK FALSE
