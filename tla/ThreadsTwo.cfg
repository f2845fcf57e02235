CONSTANTS
  Client = {c1, c2}
  Failing = {c1}
  Chatty = {}
  Http = {}
  NoClient = NoClient
  MaxErrors = 0
  QueueCap = 1
  MainCap = 1
  SplitMayFail = TRUE
SPECIFICATION Spec
INVARIANTS KnownDeadlocks ClientsListed
\* The threads of the server do deadlock: that is what KnownDeadlocks is about.
CHECK_DEADLOCK FALSE
