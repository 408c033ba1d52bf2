SPECIFICATION Spec
CONSTANTS
  QueueCap = 3
  MaxSince = 3
  Uart = FALSE
  Lossless = FALSE
INVARIANTS
  CountsExact
