SPECIFICATION FairSpec
CONSTANTS
    Chunks = 3
    PerPage = 2
    PerBlock = 2
    Retries = 2
    Attempts = 2
    Scenarios <- MCScenarios
INVARIANTS OnlyWholeImagesBoot
PROPERTIES FinishedIsTrue OneFaultIsRepaired WaitsEnd
CHECK_DEADLOCK FALSE
