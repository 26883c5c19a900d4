SPECIFICATION FabricFairSpec
CONSTANTS
    Nets <- MCNets
    MaxHops = 3
CHECK_DEADLOCK FALSE
INVARIANTS
    StoppedHasFoundAll
    HubLosesNothing
PROPERTIES
    LanesComeToRest
    SearchEnds
