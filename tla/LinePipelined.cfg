SPECIFICATION ReaderSpec
CONSTANTS
  Letters = {a, b}
  MaxLine = 3
  Capacity = 8
  MaxAhead = 2
  Prompted = FALSE
INVARIANTS
  RunsWhatWasSent
CHECK_DEADLOCK FALSE
