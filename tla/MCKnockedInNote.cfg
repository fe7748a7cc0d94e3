CONSTANTS
  Domain <- MCDomain
  Drafts <- MCDrafts
  Spots <- MCSpots
  Prices <- MCPrices
  Hurdles <- MCHurdles
SPECIFICATION LifeSpec
INVARIANTS
  NotesSettleAsTabled
CHECK_DEADLOCK FALSE
