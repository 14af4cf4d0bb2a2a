SPECIFICATION FairSpec
CONSTANTS
  Keys = {"k1", "k2", "k3", "k4"}
  Authorized = {"k1", "k2", "k3"}
  Command <- Commands
  NoKey = "nokey"
  NoCommand = "nocommand"
  Lost = "lost"
  Blank = FALSE
  PermitEmpty = TRUE
  MaxAuthTries = 2
  AttemptLimit = 4
  Configs <- Configurations
INVARIANTS
  LoginEarned
  ForcedCommandKept
  SameVerdict
  NeverRefused
  TriesAgree
PROPERTIES
  RequestAnswered
CHECK_DEADLOCK FALSE
