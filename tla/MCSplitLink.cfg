SPECIFICATION FairSpec
CONSTANTS
    N = 2
    Scenarios <- MCScenarios
INVARIANTS SlotsFollowSessions
PROPERTIES EveryoneConnects
CHECK_DEADLOCK FALSE
