SPECIFICATION Spec
CONSTANTS
  Names = {"hold_ns", "state"}
  Numerals = {"0", "1"}
  Number <- MCNumber
  Values = {0, 1, 2, 6}
  Queries <- MCQueries
  Shaped = TRUE
  MaxDepth = 3
  MaxItems = 2
  Mhz = 3
  Milli = 2
  SlotMax = 4
  DividerMax = 6
  NotesMax = 16
  Quad = 3
  FieldMax = 3
  RamSize = 3
  FtwSize = 32
  Grain = 4
  Parking = 6
  Short = 2
  LoadMax = 3
  Freqs = {0, 7}
  Offsets = {0}
  Durations = {0, 3, 6, 12, 18, 24}
  Rises <- MCRises
  Intervals = {0, 1, 2, 4}
  Steps = {0, 3, 6, 12}
  MaxData = 3
  MaxEntries = 1
  Slips = {}
INVARIANT SoundsOnTime
CHECK_DEADLOCK FALSE
