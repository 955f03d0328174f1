CONSTANTS
    daemon = daemon
    cli = cli
    b1 = b1
    b2 = b2
    j1 = j1
    j2 = j2
    None = None
    Bad = Bad
    Proc <- MCProc
    Base <- MCTwoBase
    Job <- MCJob
    Parts <- MCTwoParts
    Unkeyed <- MCNoUnkeyed
    MaxPuts = 3
    MaxCrashes = 1
SPECIFICATION Spec
INVARIANTS
    NoJobLost
CHECK_DEADLOCK FALSE
