SPECIFICATION FairSpec
CONSTANTS
  MaxChannels = 1
  Window = 2
  MaxPacket = 1
  MaxData = 3
  MaxErr = 0
  MaxAlive = 0
  Timeouts = {}
  Openers <- Direct
INVARIANTS
  CreditConserved
  CloseAndEofAreLast
  EofDeliversAll
PROPERTIES
  WindowReopens
  DroppedIsGivenBack
  ClosedIsFreed
