\* One dongle, two keyboards, at most three requests.
SPECIFICATION FairSpec
CONSTANTS
    k1 = k1
    k2 = k2
    Keyboards = {k1, k2}
    MaxKeys = 3
    KbCap = 1
    HostCap = 3
    MaxRequests = 3
    Scenarios <- MCScenarios
INVARIANTS FramesStayWhole
PROPERTIES RequestsSettle RelayIsSound Reconnects
CHECK_DEADLOCK FALSE
