CONSTANTS
  Jobs = 2
  Fingerprints = {1, 2}
  Judges <- MCJudges
  Author <- MCAuthor
  SampleSize = 1
  JudgeRetries = 1
  MaxRollouts = 3
  MaxCommands = 4
SPECIFICATION BatchSpec
INVARIANTS
  NoResultLost
  CleanRunIsComplete
  PooledGradingsAreWhole
CHECK_DEADLOCK FALSE
