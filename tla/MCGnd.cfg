SPECIFICATION Spec
CONSTANTS
  TOA = 1
  TXBUF_SIZE = 1
  READ_MAX = 1
  MAX_PKT_DATA = 1
  SLOT_MS = 1
  GUARD_MS = 1
  TX_WAIT_MS = 1
  RETRY_MS = 1
  IN_CAP = 2
  OUT_CAP = 1
  MaxBytes = 2
  MaxFaults = 2
  HeardData <- MCHeardData
  Noise <- DamagedFrames
  MayStop = FALSE
  Prompt = FALSE
  Tcp = TRUE
INVARIANTS TypeOK CountedWasAired NoFrameTwice NoStaleSession
CHECK_DEADLOCK FALSE
