CONSTANTS
  MaxDeliveries = 2
  MaxBytes = 2
  MaxCredit = 2
  max_buffered_delivery_bytes = 3
  MaxWindow = 2
  MaxChannel = 3
  U32 = 64
  MayDrain = FALSE
  WindowMayClose = TRUE
  MayDrainBusy = FALSE
  MayInterruptDrain = FALSE
  MayAbortQueued = FALSE
  MayDropPartial = FALSE
SPECIFICATION Spec
INVARIANTS QueuedCount BytesMatch DeliveredIntact
CHECK_DEADLOCK FALSE
