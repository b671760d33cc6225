SPECIFICATION FairSpec
CONSTANTS
  Ranks = {0, 1}
  MaxStep = 2
  Cadence = {1, 2}
  Limit = 1
  MaxJobs = 2
INVARIANTS
  PointerIsAccounted
  SavesNeverOverlap
  DeletesOnlyOld
  FutureTruthful
PROPERTIES
  ImplementsStore
  JobEnds
