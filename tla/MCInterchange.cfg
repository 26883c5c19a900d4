SPECIFICATION FairSpec
CONSTANTS
    Conns = {1, 2}
    Surfaces = {"peer"}
    SurfaceOf <- Reconnecting
    MaxWaves = 3
    MaxUp = 1
    CallCap = 1
    MailCap = 2
    QueueCap = 1
INVARIANTS
    LiveIsRouted
    MountFindsHyperway
    HeardInOrder
PROPERTIES
    KeepsServing
CHECK_DEADLOCK FALSE
