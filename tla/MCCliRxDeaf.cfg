SPECIFICATION LiveSpec
CONSTANTS
  TOA = 1
  MaxFaults = 0
  MayStop = FALSE
  COUNT = 2
  INTERVAL_MS = 1
  TX_WAIT_MS = 1
  RX_WAIT_MS = 1
  RX_PAUSE_MS = 1
  N_CH = 2
  CAD_WAIT_MS = 2
  MaxPasses = 2
PROPERTY PacketsTaken
CHECK_DEADLOCK FALSE
