SPECIFICATION FairSpec
CONSTANTS
    Last = 3
    Homed = {2, 3}
    MaxBreaks = 1
CHECK_DEADLOCK FALSE
INVARIANTS
    DriversNeverStuck
PROPERTIES
    ImplementsLife
    StarComesUp
