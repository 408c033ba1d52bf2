SPECIFICATION Spec
CONSTANTS
  Size = 8
  Chars = {a, b}
  Keyboard = TRUE
  TypeAhead = TRUE
  Short = TRUE
  Early = FALSE
INVARIANTS
  LineAsTyped
  OnlyFaultsHang
  StableWhileParsing
  InBounds
PROPERTIES
  PromptReturns
CHECK_DEADLOCK FALSE
