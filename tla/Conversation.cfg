SPECIFICATION Spec
CONSTANTS
  r1 = r1
  r2 = r2
  r3 = r3
  r4 = r4
  Requests <- MCRequests
  Mixes <- MCMixes
  Missing = Missing
  None = None
SYMMETRY Symmetry
INVARIANTS SequencesUnique WritesKept StaysDeleted
