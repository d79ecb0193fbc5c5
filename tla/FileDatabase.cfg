SPECIFICATION Spec
CONSTANTS
  c1 = c1
  c2 = c2
  k1 = k1
  k2 = k2
  None = None
  Names = {c1, c2}
  Keys = {k1, k2}
  MaxLog = 4
  MaxHandles = 2
  MaxCrashes = 1
SYMMETRY MCSymmetry
INVARIANTS OffsetsLive AloneAgrees ListedHasDir
CHECK_DEADLOCK FALSE
