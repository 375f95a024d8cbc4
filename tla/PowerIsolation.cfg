SPECIFICATION MCSpec
CONSTANTS
  Boards <- MCBoards
  MaxFaults = 0
  PollLimit = 2
  MaxPackages = 0
  Retries = 1
  Step = 2
  FlashSize = 99
  NorImages <- MCNorImages
INVARIANT OffIsIsolated
CHECK_DEADLOCK FALSE
