SPECIFICATION Spec
CONSTANTS
  Blocks = 2
  BlockWords = 2
  MAX_SD_READ_RETRY = 4
  Delays = 3
  MAX_count = 2
INVARIANT GoodReadIsWhole
PROPERTIES AllCombinationsBeforeOneAgain ReadEnds
CHECK_DEADLOCK FALSE
