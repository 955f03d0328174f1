--------------------------- MODULE MCProcessorLock ---------------------------
(***************************************************************************)
(* Model values for checking ProcessorLock: three pids, two passes each.    *)
(***************************************************************************)
EXTENDS ProcessorLock, TLC

CONSTANTS p1, p2, p3

MCProc == {p1, p2, p3}
MCTwoProc == {p1, p2}
=============================================================================
