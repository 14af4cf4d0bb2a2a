SPECIFICATION FairSpec
CONSTANTS
  Source = {a, b}
  NoSource = nosource
  Exempt = {}
  MaxStartups = 2
  MaxPerSource = 1
  PenaltySecs <- Secs
  PenaltyMin = 1
  PenaltyMax = 2
  MaxSources = 1
  Overflow = "permissive"
  MaxStartupsBegin = 1
  MaxStartupsRate = 30
  MaxProcs = 2
  ExitStatus <- Ends
  ForkSupported = TRUE
INVARIANTS
  TypeOK
  SlotsExact
  SourcesExact
  PenaltiesExact
  HealthyNotKilled
PROPERTIES
  TrackedUntilExit
  SlotsComeBack
  HupRestarts
CHECK_DEADLOCK FALSE
