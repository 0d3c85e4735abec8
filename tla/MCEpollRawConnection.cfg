SPECIFICATION EpollSpec
CONSTANTS
  read_buffer_count = 1
  write_buffer_count = 1
  MaxAddresses = 2
  MayWriteEarly = FALSE
  MayCloseEarly = FALSE
  MayResetDraining = FALSE
  LookupMayFail = TRUE
  MayFailUnseen = TRUE
  MayRearmLate = FALSE
  MayStopEarly = FALSE
INVARIANTS WakeNotLost  SocketAttended
CHECK_DEADLOCK FALSE
