SPECIFICATION Spec
CONSTANTS
  Size = 8
  Chars = {a, b}
  Keyboard = TRUE
  TypeAhead = TRUE
  Short = TRUE
  Early = FALSE
INVARIANTS
  NoAssertionFails
CHECK_DEADLOCK FALSE
