SPECIFICATION Spec
CONSTANTS
  k1 = k1
  k2 = k2
  v1 = v1
  v2 = v2
  Keys <- MCKeys
  Vals <- MCVals
  Absent = Absent
  MaxLog = 4
INVARIANTS OffsetsSound LossOnlyBehindTear
PROPERTY ImplementsStore
