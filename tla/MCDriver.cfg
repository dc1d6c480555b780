SPECIFICATION DriverLiveSpec
CONSTANTS
  Calls <- MCCalls
  Programs <- MCPrograms
  After <- MCAfter
  POLLS = 2
  FLASH_WORDS = 2
  FW_IMAGE_WORDS = 2
  ALMANAC_BLOCKS = 2
  ALMANAC_BURSTS = 3
  N_RESULTS_MAX_PER_CHUNK = 32
  MaxCalls = 2
INVARIANTS TypeOK OwnAnswers PiecesOnce CommandLengths TimeOnAir SettingsFit AnswersDecoded PeersAgree
PROPERTIES IsCommandChannel CallsReturn
CHECK_DEADLOCK FALSE
