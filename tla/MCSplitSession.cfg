SPECIFICATION FairSpec
CONSTANTS
    Size = 2
    Offset = 1
    KeyCap = 2
    Scenarios <- MCScenarios
INVARIANTS SidesAgree
PROPERTIES SessionWorks
CHECK_DEADLOCK FALSE
