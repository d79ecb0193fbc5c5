SPECIFICATION Spec
CONSTANTS
  q1 = q1
  q2 = q2
  None = None
  Requests = {q1, q2}
  AgentFiles <- MCAgentFiles
  ProviderFile <- MCProviderFile
  ServerFile <- MCServerFile
  Environments <- MCEnvironments
  Hosted = {"openai", "groq"}
  LocalTools <- MCLocalTools
  Inputs <- MCInputs
  ToolsOf <- MCToolsOf
  Stateless <- MCStateless
  EndsWith <- MCEndsWith
  Deliveries <- MCDeliveries
  MaxRestarts = 1
  MaxRegistrations = 1
INVARIANTS OneClient BuiltWhole UnknownExplained CallsReach
CHECK_DEADLOCK FALSE
