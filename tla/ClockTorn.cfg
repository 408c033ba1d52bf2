SPECIFICATION ClockSpec
CONSTANTS
  Period = 3
  MaxTime = 9
INVARIANTS ReadsTrue
CHECK_DEADLOCK FALSE
