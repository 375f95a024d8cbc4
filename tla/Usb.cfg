SPECIFICATION UsbSpec
CONSTANTS
    Sectors = {8}
    MaxReads = 2
    MaxFaults = 2
    Roots <- MCRoots
    EventLimit = 3
    PortEvents = 1
    EventSlots = 4
    TestTries = 2
INVARIANTS ReadIsWhole EventIsFound RequestsArrive CommandsInStep
PROPERTY UsbReturns
CHECK_DEADLOCK FALSE
