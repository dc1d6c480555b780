SPECIFICATION LiveSpec
CONSTANTS
  TOA = 2
  TXBUF_SIZE = 2
  READ_MAX = 2
  MAX_PKT_DATA = 1
  SLOT_MS = 6
  GUARD_MS = 1
  TX_WAIT_MS = 3
  RETRY_MS = 1
  IN_CAP = 2
  OUT_CAP = 2
  Prompt = TRUE
  Tcp = FALSE
  AirFaults = 0
  GndFaults = 1
  AirBytes = 2
  GndBytes = 1
  MaxLosses = 0
  Aligned = TRUE
INVARIANT OverlapsNever
PROPERTIES EverySlotAnswered AllDelivered DownInOrder UpInOrder
CHECK_DEADLOCK FALSE
