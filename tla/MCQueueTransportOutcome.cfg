CONSTANTS
    d1 = d1
    d2 = d2
    None = None
    Doc <- MCOneDoc
    MarkAttempts = 3
    DrainAttempts = 3
    MaxFaults = 0
    MaxOverruns = 0
SPECIFICATION Spec
INVARIANTS
    FailedIsNotProcessed
CHECK_DEADLOCK FALSE
