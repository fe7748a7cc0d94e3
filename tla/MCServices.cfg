CONSTANTS
  RetryDelays = 3
  TruncationRetries = 2
  Ceiling = 16
  Budgets <- MCBudgets
  Specs = 3
  Optional = {2}
  Retries = 1
  MaxAnswers = 5
  Cap = 6
  Levels = 2
  Tolerance = 1
  MaxIterations = 5
  Refinements = 3
  CacheSize = 3
  Quotes = 2
SPECIFICATION ServicesSpec
INVARIANTS
  ChatKeepsItsBudgets
  ConvergedIsFixedPoint
  CacheKeepsRecent
PROPERTIES
  CompletedEntriesStay
CHECK_DEADLOCK FALSE
