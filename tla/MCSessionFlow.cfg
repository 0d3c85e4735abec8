CONSTANTS
  MaxFrame = 2
  Payloads = {1, 2}
  Capacities = {3, 5}
  Windows = {2}
  Lwms = {0, 1}
  MayShrink = FALSE
  MayRepeatEarlyFlow = FALSE
  AMQP_MAX_WINDOW_SIZE = 3
  U32 = 64
  MaxTransfers = 4
  MaxChannel = 3
SPECIFICATION FairSpec
INVARIANTS BufferBound NoWindowViolation RemoteViewSound
PROPERTIES WindowNeverRevoked WindowReopens
