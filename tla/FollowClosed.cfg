SPECIFICATION Spec
CONSTANTS
  QueueCap = 5
  MaxSince = 3
  Uart = FALSE
  Lossless = TRUE
PROPERTIES
  CloseStops
