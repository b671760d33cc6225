SPECIFICATION Spec
CONSTANTS
  None = None
  Windows <- PairedWindows
  MaxWindows = 2
  MayFail = FALSE
CHECK_DEADLOCK FALSE
INVARIANTS FreshEvent NoMutualWait StrictPairs EveryOpLaunched
PROPERTIES ImplementsProtocol
