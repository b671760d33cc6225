SPECIFICATION Spec
CONSTANTS
  None = None
  Windows <- MixedRecomputeWindows
  MaxWindows = 1
  MayFail = FALSE
CHECK_DEADLOCK FALSE
PROPERTIES WindowCloses
