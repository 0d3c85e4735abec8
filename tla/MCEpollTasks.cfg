SPECIFICATION FairSpec
CONSTANTS
  Conns = {c1}
  L = L
  Acceptors = {i1}
  NULL = NULL
  backlog = 1
  MaxIncoming = 2
  MaxOverflow = 1
  MaxDisconnect = 1
INVARIANTS FreedIsGone CountsExact NeverDeaf
PROPERTIES CloseIsLastEvent CloseCompletes
CHECK_DEADLOCK FALSE
