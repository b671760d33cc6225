SPECIFICATION FairSpec
CONSTANTS
  None = None
  Torn = Torn
  Required = 2
  MaxBuffer = 3
  MaxInflight = 2
  Lag = 1
  MaxDiscards = 0
  MaxUpdates = 3
  Cadences = {2}
  SaveFinal = FALSE
  MaxCrashes = 1
  MaxRefills = 1
  Handoff = TRUE
  MaxRejections = 1
PROPERTIES ImplementsLedger TrainingFinishes
CHECK_DEADLOCK FALSE
