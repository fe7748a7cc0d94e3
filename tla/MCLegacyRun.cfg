CONSTANTS
  Rounds = 2
  Dynamic = TRUE
  Capitals = {3}
  RiskLimit = 3
  NotionalLimit = 2
  MaxQuotes = 2
  MaxQueries = 1
  Products <- MCProducts
  Marks <- MCMarks
  HedgeMoves = {0}
  Payoffs = {0, 2}
  Policies <- MCPolicies
  Markets <- MCMarketsWithFailure
  Lattice <- MCLattice
  MaxActions = 3
  MaxConsults = 1
  Roles = {"trading_desk", "risk_control", "client"}
  MaxRetries = 0
SPECIFICATION RunSpec
INVARIANTS
  QuotesStayFresh
  AttainmentAtMostOne
  TracesTellSettlement
  ForcedIsLastChance
  FailuresCountedOnce
CHECK_DEADLOCK FALSE
