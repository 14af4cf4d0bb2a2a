SPECIFICATION Spec
CONSTANTS
  MaxChannels = 2
  Window = 2
  MaxPacket = 1
  MaxData = 0
  MaxErr = 0
  MaxAlive = 0
  Timeouts = {"server"}
  Openers <- DirectAndForwarded
INVARIANTS
  NoDisconnect
  CloseOnlyWhenShut
  ReachesItsChannel
