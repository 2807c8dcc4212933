CONSTANTS
  GopConfigs <- MCGopConfigs
  MaxPics = 11
  MayFail = FALSE
  None = None
SPECIFICATION Spec
INVARIANTS
  KeyFrameCodesItself
CHECK_DEADLOCK FALSE
