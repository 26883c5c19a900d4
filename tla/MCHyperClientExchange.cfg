SPECIFICATION FairSpec
CONSTANTS
    Exchanging = TRUE
    Requests = {1}
    FirstWaves = {"greet", "fatal", "panic"}
    MaxConns = 2
    MaxOut = 1
    MaxCommands = 0
    MaxIn = 1
    StatusCap = 1
    RunnerCap = 1
    ClientCap = 1
INVARIANTS
    GreetedFirst
PROPERTIES
    RefusalIsShown
CHECK_DEADLOCK FALSE
