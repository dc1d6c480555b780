SPECIFICATION Spec
CONSTANTS
  TOA = 1
  TXBUF_SIZE = 1
  READ_MAX = 2
  MAX_PKT_DATA = 1
  SLOT_MS = 3
  GUARD_MS = 1
  TX_WAIT_MS = 2
  RETRY_MS = 1
  IN_CAP = 1
  OUT_CAP = 1
  MaxBytes = 0
  MaxFaults = 0
  HeardData <- MCHeardData
  Noise = {}
  MayStop = FALSE
  Prompt = TRUE
INVARIANT RxAfterTxDone
CHECK_DEADLOCK FALSE
