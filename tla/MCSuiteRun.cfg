CONSTANTS
  Jobs = 2
  Settings <- MCChanging
  MaxRollouts = 4
  MaxInterruptions = 1
SPECIFICATION FairSuiteSpec
INVARIANTS
  CollectedIsCurrent
  ManifestTellsTheDisk
  InterruptionsCostOneRollout
PROPERTIES
  SuiteFinishes
CHECK_DEADLOCK FALSE
