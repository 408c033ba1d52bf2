SPECIFICATION ClockSpec
CONSTANTS
  Period = 3
  MaxTime = 9
INVARIANTS ClockExact
PROPERTIES StampSound
CHECK_DEADLOCK FALSE
