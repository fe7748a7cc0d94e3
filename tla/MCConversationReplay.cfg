CONSTANTS
  capital = capital
  risk = risk
  yes = yes
  no = no
  Script <- MCRound
  Scopes = {"episode"}
  Contents = {capital}
  Good = {yes, no}
  DiskMayFail = FALSE
  MaxJobs = 2
SPECIFICATION EnvAgentsSpec
INVARIANTS
  ConversationReplay
CHECK_DEADLOCK FALSE
