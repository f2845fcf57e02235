CONSTANTS
  Client = {c1}
  Failing = {c1}
  Chatty = {c1}
  Http = {h1, h2}
  NoClient = NoClient
  MaxErrors = 1
  QueueCap = 1
  MainCap = 1
  SplitMayFail = FALSE
SPECIFICATION Spec
INVARIANTS KnownDeadlocks
SYMMETRY Symm
\* The threads of the server do deadlock: that is what KnownDeadlocks is about.
CHECK_DEADLOCK FALSE
