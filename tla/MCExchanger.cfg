SPECIFICATION FairSpec
CONSTANTS
    ping = ping
    count = count
    timed = timed
    p1 = p1
    c1 = c1
    c2 = c2
    c3 = c3
    t1 = t1
    t2 = t2
    Requests = {ping, count, timed}
    Replies = {p1, c1, c2, c3, t1, t2}
    ReflectionOf <- MCReflectionOf
    Kind <- MCKind
    Cap <- MCCap
    Shard <- OneShard
INVARIANTS
    AnswersFit
    RefusedOnlyIfAnswered
    AcceptedIsAnswered
PROPERTIES
    NothingLeaks
    ImplementsContract
CHECK_DEADLOCK FALSE
