SPECIFICATION Spec
CONSTANTS
    Chunks = 3
    PerPage = 2
    PerBlock = 2
    Retries = 2
    Attempts = 2
    Scenarios <- UnlockScenarios
PROPERTY UnlockLasts
CHECK_DEADLOCK FALSE
