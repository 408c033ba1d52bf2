SPECIFICATION ClockSpec
CONSTANTS
  Period = 3
  MaxTime = 9
PROPERTIES StampsOrdered
CHECK_DEADLOCK FALSE
