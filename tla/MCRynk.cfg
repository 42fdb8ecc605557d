SPECIFICATION FairSpec
CONSTANTS
    MaxSlots = 2
    MaxSeq = 4
    Buffer = 3
    DownCap = 2
    UpCap = 2
    TopicCap = 2
    Scenarios <- MCScenarios
INVARIANTS NothingInherited TopicsCatchUp
PROPERTIES RequestsSucceed GatedNeedsPresence
CHECK_DEADLOCK FALSE
