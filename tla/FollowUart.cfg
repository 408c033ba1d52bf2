SPECIFICATION Spec
CONSTANTS
  QueueCap = 3
  MaxSince = 3
  Uart = TRUE
  Lossless = FALSE
PROPERTIES
  KeepsUp
