SPECIFICATION FairSpec
CONSTANTS
  MaxSsn = 2
  MaxLink = 0
  OwnSsn <- ClientOwns2
  OwnLink <- Nobody
  MaxNet = 2
  MaxQueue = 1
  Names = {n}
  local_channel_max <- Wide
  local_handle_max = 1
  U16 = 65536
  Directions = {TRUE}
  Closable = {"connection", "session", "link"}
  Established = FALSE
  MayBindLate = TRUE
  MayOpenOutOfOrder = FALSE
  MayCloseEarly = FALSE
  MayFreeEarly = FALSE
  MayOpenAfterClose = FALSE
  MayReuseName = FALSE
INVARIANTS NoProtocolError Paired RefcountExact NotForgotten
PROPERTY CloseCompletes
CHECK_DEADLOCK FALSE
