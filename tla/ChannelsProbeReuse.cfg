SPECIFICATION Spec
CONSTANTS
  MaxChannels = 2
  Window = 2
  MaxPacket = 1
  MaxData = 0
  MaxErr = 0
  MaxAlive = 1
  Timeouts = {}
  Openers <- Direct
INVARIANTS
  NoFatal
