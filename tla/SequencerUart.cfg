SPECIFICATION Spec
CONSTANTS
  InitTask = daemon
  daemon = daemon
  client = client
  e1 = e1
  e2 = e2
  Clients <- NoClients
  Entries <- TwoEntries
  RamEntries <- WithRam
  Verbs = {"stop", "reset", "run", "tone", "pulse", "basic"}
  MaxLen = 2
  IndexWrap = 2
  QueueCap = 4
  MaxCmds = 6
  Gated = FALSE
INVARIANTS
  HandlesReady
  Coherent
  KilledStaysSilent
PROPERTIES
  Rearms
CHECK_DEADLOCK FALSE
