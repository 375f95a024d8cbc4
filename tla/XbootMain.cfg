SPECIFICATION MCSpec
CONSTANTS
  Boards <- MCBoards
  MaxFaults = 2
  PollLimit = 2
  MaxPackages = 2
  Retries = 2
  Step = 2
  FlashSize = 99
  NorImages <- MCNorImages
INVARIANTS OnlyVoltageWritten AckMeansBurned CheckedBeforeEntry PinsNotShared
PROPERTIES ReleasedTogether KeepsPromise XbootSettles
CHECK_DEADLOCK FALSE
