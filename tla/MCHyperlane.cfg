SPECIFICATION FairSpec
CONSTANTS
    MaxWaves = 3
    Listeners = {1, 2}
    Transforms <- OneTransform
    MailboxCap = 2
    QueueCap = 1
    ChanCap = 1
    RelayCap = 1
INVARIANTS
    OnePlace
    InOrderUnlessRequeued
    GreetingFirst
PROPERTIES
    DeliveredUnlessHungUp
    DeliveredToWhoStays
CHECK_DEADLOCK FALSE
