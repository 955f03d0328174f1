CONSTANTS
    d1 = d1
    d2 = d2
    None = None
    Doc <- MCOneDoc
    MarkAttempts = 3
    DrainAttempts = 3
    MaxFaults = 1
    MaxOverruns = 1
SPECIFICATION Spec
INVARIANTS
    NoChangeMissed
CHECK_DEADLOCK FALSE
