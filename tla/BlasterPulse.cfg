SPECIFICATION Spec
CONSTANTS
  MaxOn = 6
  Prompt = TRUE
INVARIANTS
  DmaInert
  OneCallPerPulse
PROPERTIES
  EmittedInFull
  Continues
