SPECIFICATION Spec
CONSTANTS
  Size = 8
  Chars = {a, b}
  Keyboard = TRUE
  TypeAhead = FALSE
  Short = TRUE
  Early = TRUE
INVARIANT NoAssertionFails
CHECK_DEADLOCK FALSE
