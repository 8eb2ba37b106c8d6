SPECIFICATION Spec
CONSTANTS
  MaxInt = 7
  Second = 2
  DefaultStreamTimeout = 6
  Requests <- MCRequests
  Tokens <- MCTokens
  Environments <- MCEnvironments
INVARIANTS PromptIsLastTurn HistoryIsIgnored RefusalsAreNoOracle UsageAddsUp ConfigurationIsSound
CHECK_DEADLOCK FALSE
