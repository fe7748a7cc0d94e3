CONSTANTS
  Domain <- MCDomain
  Drafts <- MCDrafts
  Spots <- MCSpots
  Prices <- MCPrices
  Hurdles <- MCHurdles
SPECIFICATION LifeSpec
INVARIANTS
  PricedAsSettled
  PrincipalIsProtected
  FormulasTellThePaths
  FormulasReflect
  FrontierIsReachable
  AnnouncedAsPaid
CHECK_DEADLOCK FALSE
