CONSTANTS
  MaxDeliveries = 1
  MaxBytes = 1
  MaxCredit = 2
  max_buffered_delivery_bytes = 0
  MaxWindow = 1
  MaxChannel = 2
  U32 = 64
  MayDrain = TRUE
  WindowMayClose = TRUE
  MayDrainBusy = FALSE
  MayInterruptDrain = FALSE
  MayAbortQueued = FALSE
  MayDropPartial = FALSE
SPECIFICATION FairSpec
INVARIANTS CreditLimit Agreement
PROPERTY DrainCompletes
