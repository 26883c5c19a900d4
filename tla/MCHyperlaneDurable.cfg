SPECIFICATION FairSpec
CONSTANTS
    MaxWaves = 2
    Listeners = {1, 2}
    Transforms <- NoTransform
    MailboxCap = 3
    QueueCap = 2
    ChanCap = 1
    RelayCap = 1
PROPERTIES
    DurableDelivery
CHECK_DEADLOCK FALSE
