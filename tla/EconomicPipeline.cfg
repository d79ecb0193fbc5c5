SPECIFICATION SpecEconomic
CONSTANTS
  full = full
  again = again
  Absent = Absent
  Old = Old
  Runs = {full, again}
  Configs <- MCTogether
  Series <- MCSeries
  Tables <- MCTables
  Regionals <- MCRegionals
  Released <- MCReleased
  Counties <- MCCounties
  CurrentYear = 2025
  Span = 2
  MaxFaults = 1
INVARIANTS FailureContained YearWhole AnswersFit
CHECK_DEADLOCK FALSE
