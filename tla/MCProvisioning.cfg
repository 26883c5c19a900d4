SPECIFICATION FairSpec
CONSTANTS
    Points <- MCPoints
    Root = "root"
    Parent <- MCParent
    Kind <- MCKind
    Stars <- MCStars
    Central = "c"
    Wrangles <- MCWrangles
    External <- MCExternal
    Drivers <- MCDrivers
    Tasks = {"t1", "t2", "t3"}
    Plans <- MCPlans
CHECK_DEADLOCK FALSE
INVARIANTS
    CommitIsExclusive
    LocatedHasShell
    AnswerIsServed
    RoundRobinIsFair
PROPERTY
    EveryJobEnds
