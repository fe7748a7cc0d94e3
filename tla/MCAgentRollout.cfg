CONSTANTS
  Rounds = 3
  MaxQuotes = 1
  MaxQueries = 1
  MaxSteps = 2
SPECIFICATION RolloutSpec
INVARIANTS
  TrajectoryCanBeSaved
  FileIsWhole
CHECK_DEADLOCK FALSE
