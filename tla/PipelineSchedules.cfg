SPECIFICATION Spec
CONSTANTS
  Shapes <- AllShapes
  Turns <- TwiceIfRepeated
  Faults <- AnyIfFaulty
INVARIANTS TransfersMatch HeadsComplement NothingRaises PeakActivations
PROPERTIES CleanRuns KeepsDataflow ErrorsSurface
