SPECIFICATION Spec
CONSTANTS
  Gates = {"build", "ship", "log", "echo"}
  Channels = {"status", "backend", "notes", "team"}
  Tasks = {"t1", "t2"}
  NoTask = "none"
  Watch <- MCWatch
  Target <- MCTarget
  Deps <- MCDeps
  Carries <- MCCarries
  MaxWrites = 3
  MaxPosts = 2
INVARIANTS TypeOK NoGateAsleep
PROPERTY KeepsPromise
CHECK_DEADLOCK FALSE
