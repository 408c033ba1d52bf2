SPECIFICATION Spec
CONSTANTS
  Size = 8
  Chars = {a, b}
  Keyboard = FALSE
  TypeAhead = FALSE
  Short = FALSE
  Early = FALSE
INVARIANTS
  StableWhileParsing
CHECK_DEADLOCK FALSE
