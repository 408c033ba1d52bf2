SPECIFICATION Spec
CONSTANTS
  InitTask = daemon
  daemon = daemon
  client = client
  e1 = e1
  e2 = e2
  Clients <- OneClient
  Entries <- TwoEntries
  RamEntries <- WithRam
  Verbs = {"run", "basic"}
  MaxLen = 2
  IndexWrap = 2
  QueueCap = 4
  MaxCmds = 3
  Gated = FALSE
INVARIANTS
  HandlesReady
CHECK_DEADLOCK FALSE
