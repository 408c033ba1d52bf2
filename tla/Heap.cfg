SPECIFICATION Spec
CONSTANTS
  Tasks = {t1, t2}
  End = 12
  MaxSize = 5
INVARIANTS
  Tiled
  Joined
PROPERTIES
  Refines
