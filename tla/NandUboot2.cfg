SPECIFICATION Spec
CONSTANTS
  LastBlk = 7
  PagesPerBlk = 2
  SectSz = 2
  AppBlk = 0
  FipBlk = 5
  SearchCnt = 2
  SignSize = 1
  Chips <- MCChips
  MaxFaults = 0
INVARIANT Uboot2StartsBehindUboot1
