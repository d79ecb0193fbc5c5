SPECIFICATION FairSpec
CONSTANTS
  Agents <- MCAgents
  MaxIterations = 3
  Cap = 1
  MaxCalls = 2
  MaxChunks = 2
  Usages <- MCUsages
INVARIANTS TypeOK OneOutcome FinalAccounts RequestsAnswerable
PROPERTIES ImplementsStream TaskEnds
