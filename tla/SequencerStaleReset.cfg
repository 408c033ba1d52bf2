SPECIFICATION Spec
CONSTANTS
  InitTask = daemon
  daemon = daemon
  client = client
  e1 = e1
  e2 = e2
  Clients <- NoClients
  Entries <- TwoEntries
  RamEntries <- WithRam
  Verbs = {"reset", "basic"}
  MaxLen = 2
  IndexWrap = 2
  QueueCap = 4
  MaxCmds = 3
  Gated = FALSE
INVARIANTS
  BurstsStart
CHECK_DEADLOCK FALSE
