SPECIFICATION LiveSpec
CONSTANTS
  TOA = 1
  TXBUF_SIZE = 1
  READ_MAX = 1
  MAX_PKT_DATA = 1
  SLOT_MS = 4
  GUARD_MS = 1
  TX_WAIT_MS = 2
  RETRY_MS = 1
  IN_CAP = 1
  OUT_CAP = 1
  Prompt = TRUE
  Tcp = FALSE
  AirFaults = 1
  GndFaults = 1
  AirBytes = 0
  GndBytes = 0
  MaxLosses = 1
  Aligned = FALSE
PROPERTIES OverlapEnds FallsInStep
CHECK_DEADLOCK FALSE
