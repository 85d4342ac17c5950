SPECIFICATION Spec
CONSTANTS
  Clients = {c1, c2}
INVARIANT BroadcastRuns
CHECK_DEADLOCK FALSE
