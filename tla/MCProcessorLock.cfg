CONSTANTS
    p1 = p1
    p2 = p2
    p3 = p3
    None = None
    Proc <- MCProc
    MaxPasses = 2
SPECIFICATION Spec
INVARIANTS
    TypeOK
    UncontendedExclusion
PROPERTIES
    NoKnowingTheft
    AcquireTerminates
CHECK_DEADLOCK FALSE
