CONSTANTS
    w1 = w1
    w2 = w2
    w3 = w3
    note = note
    hours = hours
    gap = gap
    location = location
    Writer <- MCWriter
    Job <- MCJob
    Doc <- MCDoc
    JobOf <- MCJobOf
    Targets <- MCTargets
    Creatable <- MCCreatable
    MaxEdits = 1
    MaxRuns = 2
SPECIFICATION Spec
SYMMETRY MCSymmetry
INVARIANTS
    TypeOK
    AppliedAtMostOnce
    MarkerMatchesContent
    NoLostEdit
    DoneIsComplete
PROPERTIES
    ConflictNeedsTwoWrites
    ImplementsLedger
CHECK_DEADLOCK FALSE
