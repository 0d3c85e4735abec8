SPECIFICATION FairSpec
CONSTANTS
  Tasks = {t1, t2}
  Threads = {h1, h2}
  Getters = {h2}
  Staying = {h1}
  Finishing = {t1}
  NULL = NULL
  PLACEHOLDER = PLACEHOLDER
  thread_capacity = 8
  runnables_capacity = 16
  MaxWork = 2
  MayInterrupt = FALSE
 
PROPERTIES Implements Served
CHECK_DEADLOCK FALSE
