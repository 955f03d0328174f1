---------------------------- MODULE MCQueueSpool -----------------------------
(***************************************************************************)
(* Model values for checking QueueSpool.                                    *)
(***************************************************************************)
EXTENDS QueueSpool, TLC

CONSTANTS daemon, cli, b1, b2, j1, j2

MCProc == {daemon}
MCTwoProc == {daemon, cli}
MCBase == {b1}
MCTwoBase == {b1, b2}
MCJob == {j1, j2}
MCSingle == (j1 :> 1) @@ (j2 :> 1)
MCTwoParts == (j1 :> 2) @@ (j2 :> 1)
MCNoUnkeyed == {}
MCUnkeyed == {j2}
=============================================================================
