SPECIFICATION ReaderSpec
CONSTANTS
  Letters = {a, b}
  MaxLine = 3
  Capacity = 5
  MaxAhead = 2
  Prompted = TRUE
INVARIANTS
  RunsWhatWasSent
PROPERTIES
  EveryLineRuns
  MakesRoom
CHECK_DEADLOCK FALSE
