SPECIFICATION SpecScreening
CONSTANTS
  Period <- MCPeriod
  Bars <- MCBars
  LastDay = 3
  Tickers <- MCTickers
  Watched <- MCWatched
  Filters <- MCFilters
  Scores = {0, 50}
  Near <- MCNear
  CapRange <- MCCapRange
  SearchTop = 1
  DefaultLimit = 2
  None = None
INVARIANTS NoContradiction AnswersFitFilter
PROPERTY CrossesMatchStates
