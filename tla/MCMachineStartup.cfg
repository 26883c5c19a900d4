SPECIFICATION FairSpec
CONSTANTS
    Stars = {1, 2}
    Connectors = {1}
    Frail = {1}
    MaxBreaks = 1
CHECK_DEADLOCK FALSE
INVARIANTS
    WranglingWaitsForAll
PROPERTIES
    MachineComesUp
    FailureIsShown
