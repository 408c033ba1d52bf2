CONSTANTS
  Entries = {plain, sweep, image, both}
  Sweeps = {sweep, both}
  Images = {image, both}
  Anytime = FALSE
SPECIFICATION Spec
INVARIANTS
  EmitsAsProgrammed
  SilentUnlessAsked
  ToneSounds
