SPECIFICATION FairSpec
CONSTANTS
  a = a
  b = b
  p = p
  q = q
  Symbols = {a, b}
  Passes = {p, q}
  Permits = 1
  Reach = 2
  MaxDay = 2
  Scenarios <- MCScenarios
INVARIANTS HistoryHealed IndicatorsBacked SentimentsKept
PROPERTIES DuplicatesOnlyBlind DateNeverBack PassEnds
CHECK_DEADLOCK FALSE
