SPECIFICATION FairSpec
CONSTANTS
    Exchanging = FALSE
    Requests = {}
    FirstWaves = {"greet", "fatal"}
    MaxConns = 2
    MaxOut = 2
    MaxCommands = 1
    MaxIn = 0
    StatusCap = 1
    RunnerCap = 2
    ClientCap = 1
INVARIANTS
    UpInOrder
    UpAccounted
PROPERTIES
    NoNewLinkOnceOver
    CutLinkIsReplaced
    CloseIsShown
CHECK_DEADLOCK FALSE
