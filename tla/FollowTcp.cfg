SPECIFICATION TriggeredSpec
CONSTANTS
  QueueCap = 5
  MaxSince = 3
  Uart = FALSE
  Lossless = TRUE
INVARIANTS
  CountsExact
PROPERTIES
  StartsOnPacket
  StopsUnacked
  CloseStops
