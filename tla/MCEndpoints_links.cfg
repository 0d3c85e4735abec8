SPECIFICATION Spec
CONSTANTS
  MaxSsn = 1
  MaxLink = 1
  OwnSsn <- ClientOwns1
  OwnLink <- ClientOwns1
  MaxNet = 2
  MaxQueue = 1
  Names = {n}
  local_channel_max <- Wide
  local_handle_max = 1
  U16 = 65536
  Directions = {TRUE}
  Closable = {"session", "link"}
  Established = FALSE
  MayBindLate = FALSE
  MayOpenOutOfOrder = FALSE
  MayCloseEarly = FALSE
  MayFreeEarly = FALSE
  MayOpenAfterClose = FALSE
  MayReuseName = FALSE
INVARIANT LinksKept
PROPERTY DrainedBeforeLeaving
CHECK_DEADLOCK FALSE
