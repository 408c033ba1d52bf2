SPECIFICATION Spec
CONSTANTS
  MaxOn = 6
  Prompt = TRUE
INVARIANTS
  OnlyTriggered
