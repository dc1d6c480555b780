SPECIFICATION Spec
CONSTANTS
  TOA = 1
  TXBUF_SIZE = 1
  READ_MAX = 2
  MAX_PKT_DATA = 1
  SLOT_MS = 1
  GUARD_MS = 2
  TX_WAIT_MS = 1
  RETRY_MS = 1
  IN_CAP = 1
  OUT_CAP = 1
  MaxBytes = 1
  MaxFaults = 0
  HeardData <- MCHeardData
  Noise <- Quiet
  MayStop = FALSE
  Prompt = TRUE
  Tcp = FALSE
PROPERTY GuardWaited
CHECK_DEADLOCK FALSE
