CONSTANTS
  Rounds = 3
  Dynamic = TRUE
  Capitals <- MCCapitals
  RiskLimit = 3
  NotionalLimit = 3
  MaxQuotes = 1
  MaxQueries = 1
  Products <- MCProducts
  Marks <- MCMarks
  HedgeMoves <- MCHedgeMoves
  Payoffs <- MCPayoffs
  MaxRetries = 2
SPECIFICATION Spec
CHECK_DEADLOCK FALSE
INVARIANTS
  TypeOK
  BooksBalance
  LockedBacksActive
  LedgerExplainsAccounts
  SettledOnce
PROPERTIES
  TradesFitRiskCapital
  OwedBeforeInvestable
