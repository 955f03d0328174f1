SPECIFICATION Spec
CONSTANTS
  Media = {m1, m2}
  Conns = {c1, c2}
  None = None
  Watcher = watcher
  Truncated = {{m1}}
  MaxFaults = 1
  MaxDrops = 1
  MaxOfPage = 1
  MaxOfCut = 0
  MaxBeside = 1
INVARIANTS TypeOK EvidenceKept DoneIsStored CompleteIsImported
PROPERTIES IntakeKept Settles
CHECK_DEADLOCK FALSE
