CONSTANTS
  Rounds = 3
  Dynamic = FALSE
  Capitals <- MCCapitals
  RiskLimit = 3
  NotionalLimit = 3
  MaxQuotes = 2
  MaxQueries = 1
  Products <- MCProducts
  Marks <- MCMarks
  HedgeMoves = {0}
  Payoffs = {0}
  MaxRetries = 0
SPECIFICATION Spec
INVARIANTS
  StaticRoundsStartFresh
CHECK_DEADLOCK FALSE
