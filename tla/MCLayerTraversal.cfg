SPECIFICATION FairSpec
CONSTANTS
    Systems <- MCSystems
    MaxEarly = 1
INVARIANTS
    ToldWhatIsSo
    CoreOnlyThroughField
    UnexpectedOnlyIfLate
PROPERTIES
    EverythingEnds
CHECK_DEADLOCK FALSE
