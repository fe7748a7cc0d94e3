CONSTANTS
  capital = capital
  risk = risk
  yes = yes
  no = no
  Script <- MCRounds
  Scopes = {"round", "episode"}
  Contents = {capital, risk}
  Good = {yes, no}
  DiskMayFail = TRUE
  MaxJobs = 2
SPECIFICATION EnvAgentsSpec
SYMMETRY MCSymmetry
INVARIANTS
  FoundNeedsNoModel
  ReplaysUntilRepair
  OneFrozenReply
CHECK_DEADLOCK FALSE
