SPECIFICATION FairSpec
CONSTANTS
  MaxIterations = 3
  Permits = 2
  MaxStages = 3
  MaxAgents = 3
INVARIANTS StageUsage EndsTold
PROPERTIES ImplementsStream ParallelEnds
