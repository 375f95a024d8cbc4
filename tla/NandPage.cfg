SPECIFICATION PageSpec
CONSTANTS
    LastPage = 2
    MaxLength = 2
    MaxReads = 2
    MaxFailures = 2
INVARIANT GoodReadIsWhole
PROPERTY ReadReturns
CHECK_DEADLOCK FALSE
