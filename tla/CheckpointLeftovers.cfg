SPECIFICATION Spec
CONSTANTS
  Ranks = {0, 1}
  MaxStep = 1
  Cadence = {1}
  Limit = 0
  MaxJobs = 2
INVARIANTS
  PointerIsWhole
