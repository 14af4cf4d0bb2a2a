SPECIFICATION FairSpec
CONSTANTS
  MaxChannels = 1
  Window = 2
  MaxPacket = 2
  MaxData = 0
  MaxErr = 2
  MaxAlive = 0
  Timeouts = {}
  Openers <- Session
PROPERTIES
  WindowReopens
