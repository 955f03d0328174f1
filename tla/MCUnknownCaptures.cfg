CONSTANTS
    daemon = daemon
    cli = cli
    b1 = b1
    b2 = b2
    j1 = j1
    j2 = j2
    e1 = e1
    e2 = e2
    None = None
    Bad = Bad
    Proc <- MCProc
    Base <- MCBase
    Job <- MCJob
    Parts <- MCParts
    Unkeyed <- MCUnkeyed
    Recording = j1
    Authored <- MCAuthored
    EventFile <- MCEventFile
    MaxRetries = 1
    MaxAttempts = 3
    MaxPuts = 3
    MaxCrashes = 1
SPECIFICATION UnknownSpec
INVARIANTS
    UnknownTypeOK
    AppliedAtMostOnce
    RecordedIsApplied
    NoJobLost
    ResolvedIsServed
    AttemptsLimited
PROPERTIES
    ArchiveKept
    SpoolDrains
    AuthoredOnce
CHECK_DEADLOCK FALSE
