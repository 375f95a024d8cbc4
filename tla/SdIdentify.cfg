CONSTANTS
    Identify = 2
    OpCondLoops = 3
    StatusTries = 3
    MaxFaults = 3
SPECIFICATION Spec
INVARIANTS IdentifiedRight WidthsAgree
PROPERTY IdentificationEnds
CHECK_DEADLOCK FALSE
