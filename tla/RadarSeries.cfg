SPECIFICATION EmulatorSpec
CONSTANTS
  Limits = {0, 1, 2, 3, 5}
  MaxCount = 7
INVARIANTS
  ExactlyAsAsked
PROPERTIES
  GivenInFull
