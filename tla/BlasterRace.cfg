SPECIFICATION Spec
CONSTANTS
  MaxOn = 6
  Prompt = FALSE
PROPERTIES
  Continues
CHECK_DEADLOCK FALSE
