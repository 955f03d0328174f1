CONSTANTS
    d1 = d1
    d2 = d2
    None = None
    Doc <- MCDoc
    MarkAttempts = 3
    DrainAttempts = 3
    MaxFaults = 1
    MaxOverruns = 1
SPECIFICATION Spec
INVARIANTS
    TypeOK
    CompleteIsApplied
    OnlyFaultsStrand
    FailedKeepsJob
PROPERTIES
    SettledStaysSettled
    Resolves
    ProcessingEnds
CHECK_DEADLOCK FALSE
