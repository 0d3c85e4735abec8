SPECIFICATION Spec
CONSTANTS
  Conns = {c1}
  L = L
  Acceptors = {i1}
  NULL = NULL
  backlog = 1
  MaxIncoming = 2
  MaxOverflow = 1
  MaxDisconnect = 1
INVARIANT OverflowDrained
CHECK_DEADLOCK FALSE
