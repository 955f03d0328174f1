CONSTANTS
    p1 = p1
    p2 = p2
    p3 = p3
    None = None
    Proc <- MCTwoProc
    MaxPasses = 2
SPECIFICATION Spec
INVARIANTS
    MutualExclusion
CHECK_DEADLOCK FALSE
