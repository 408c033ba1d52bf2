CONSTANTS
  Entries = {plain, sweep, image, both}
  Sweeps = {sweep, both}
  Images = {image, both}
  Anytime = TRUE
SPECIFICATION Spec
INVARIANTS
  EmitsAsProgrammed
