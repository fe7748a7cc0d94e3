CONSTANTS
  Rounds = 3
  Dynamic = TRUE
  Capitals = {1, 3}
  RiskLimit = 3
  NotionalLimit = 3
  MaxQuotes = 2
  MaxQueries = 1
  Products <- MCProducts
  Marks <- MCOneMark
  HedgeMoves = {1}
  Payoffs = {3}
  Topics = {"capital"}
  MaxSteps = 3
  MaxRetries = 1
SPECIFICATION FairEnvSpec
INVARIANTS
  RewardTelescopes
  OfferedActionsAreServed
  AliasesMatchQuotes
PROPERTIES
  KeepsFairProtocol
  EpisodeEnds
CHECK_DEADLOCK FALSE
