SPECIFICATION Spec
CONSTANTS
  Shapes <- BoundaryShapes
  Turns <- Once
  Faults <- NoFaults
CHECK_DEADLOCK FALSE
INVARIANTS HeadsComplement
