SPECIFICATION Spec
CONSTANTS
  MaxOn = 6
  Prompt = TRUE
PROPERTIES
  EmittedAlways
