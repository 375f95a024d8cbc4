SPECIFICATION Spec
CONSTANTS
  Trbs = 6
  MaxTd = 4
INVARIANT ChainIsUnbroken
PROPERTIES NoTrbIsOverwritten TdsAreExecutedOnceInOrder
