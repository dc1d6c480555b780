SPECIFICATION LiveSpec
CONSTANTS
  TOA = 1
  MaxFaults = 2
  MayStop = TRUE
  COUNT = 2
  INTERVAL_MS = 1
  TX_WAIT_MS = 1
  RX_WAIT_MS = 1
  RX_PAUSE_MS = 1
  N_CH = 2
  CAD_WAIT_MS = 2
  MaxPasses = 2
INVARIANTS TypeOK CountKept HitsAreDetections QuietAtEnd
PROPERTIES StopEnds TxReturnsAtLast
CHECK_DEADLOCK FALSE
