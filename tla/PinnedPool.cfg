SPECIFICATION Spec
CONSTANTS
  Threads = {t1, t2}
  Blocks = {b1, b2, b3, b4}
  Sizes = {1, 3, 6}
  MinBucket = 2
  AlignLimit = 4
  MaxHostBytes = 8
  Events = {e1, e2}
  None = None
INVARIANTS
  QuietWhenLent
  NothingLost
  Accounted
SYMMETRY Symmetry
