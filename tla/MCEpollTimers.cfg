SPECIFICATION FairSpec
CONSTANTS
  Conns = {c1}
  LocalIdle = {0, 2}
  RemoteIdle = {2}
  Timeouts = {0, 2}
  NULL = NULL
  MaxTime = 6
  MaxWork = 2
  MaxSlow = 1
INVARIANTS TimersSafe Armed IdleTimeoutsKept
PROPERTIES DeadOnlyIfSilent EventsCome
CHECK_DEADLOCK FALSE
