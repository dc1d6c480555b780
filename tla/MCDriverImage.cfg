SPECIFICATION DriverSpec
CONSTANTS
  Calls <- MCReceivers
  Programs <- MCReceiverPrograms
  After <- MCNone
  POLLS = 2
  FLASH_WORDS = 2
  FW_IMAGE_WORDS = 2
  ALMANAC_BLOCKS = 2
  ALMANAC_BURSTS = 3
  N_RESULTS_MAX_PER_CHUNK = 32
  MaxCalls = 1
INVARIANT ImageCalibrated
CHECK_DEADLOCK FALSE
