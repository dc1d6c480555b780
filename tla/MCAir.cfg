SPECIFICATION LiveSpec
CONSTANTS
  TOA = 1
  TXBUF_SIZE = 1
  READ_MAX = 2
  MAX_PKT_DATA = 1
  SLOT_MS = 1
  GUARD_MS = 1
  TX_WAIT_MS = 1
  RETRY_MS = 1
  IN_CAP = 1
  OUT_CAP = 1
  MaxBytes = 2
  MaxFaults = 1
  HeardData <- MCHeardData
  Noise <- Headers
  MayStop = TRUE
  Prompt = FALSE
INVARIANTS TypeOK CountedWasAired NoFrameTwice
PROPERTIES OneFramePerSlot KeepsSending KeepsListening StopEnds
CHECK_DEADLOCK FALSE
