SPECIFICATION FairSpec
CONSTANTS
  read_buffer_count = 2
  write_buffer_count = 2
  MayWriteEarly = FALSE
  MayCloseEarly = FALSE
  MayResetDraining = FALSE
INVARIANTS  BuffersAccounted
PROPERTIES ClosingEvents EventuallyDisconnected
