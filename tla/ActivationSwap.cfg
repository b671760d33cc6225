SPECIFICATION Spec
CONSTANTS
  Jobs <- SwapJobs
  Runs = 2
  FailingRuns = 1
  Addresses = {1, 2, 3, 4, 5, 6}
  Blocks = {b1, b2, b3}
  MaxHostBytes = 3
  None = None
  Host = Host
INVARIANTS
  SavedTensorsSurvive
  StepsInOrder
  HostBuffersQuiet
  BuffersReturned
  GradientsReducedLast
SYMMETRY Symmetry
