SPECIFICATION SessionSpec
CONSTANTS
  MaxChannels = 1
  Window = 1
  MaxPacket = 1
  MaxData = 1
  MaxErr = 1
  MaxAlive = 1
  Timeouts = {"server"}
  Openers <- Session
INVARIANTS
  CreditConserved
  SessionAttached
PROPERTIES
  StatusSent
  ClosedIsFreed
