SPECIFICATION Spec
CONSTANTS
  MaxToc = 2
INVARIANTS VectorBeforeSwitch Bl31FindsAllInPlace
PROPERTY AllCoresReachBl31
CHECK_DEADLOCK FALSE
