SPECIFICATION FairSpec
CONSTANTS
  None = None
  Torn = Torn
  Required = 1
  MaxBuffer = 2
  MaxInflight = 2
  Lag = 1
  MaxDiscards = 1
  MaxUpdates = 4
  PublishEvery = 3
  Cadences = {3}
  SaveFinal = TRUE
  MaxCrashes = 1
INVARIANTS WithinLag CreditsBalance NothingRaises
PROPERTIES ImplementsLedger TrainingFinishes
CHECK_DEADLOCK FALSE
