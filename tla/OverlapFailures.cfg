SPECIFICATION Spec
CONSTANTS
  None = None
  Windows <- AnyWindows
  MaxWindows = 1
  MayFail = TRUE
CHECK_DEADLOCK FALSE
INVARIANTS CommFirst FailureSurfaces
PROPERTIES WindowCloses
