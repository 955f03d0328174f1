-------------------------- MODULE MCUnknownCaptures --------------------------
(***************************************************************************)
(* Model values for checking UnknownCaptures with the spool it works in:    *)
(* names and jobs of other producers, two events with files of their own.   *)
(***************************************************************************)
EXTENDS UnknownCaptures, TLC

CONSTANTS daemon, cli, b1, b2, j1, j2, e1, e2

MCProc == {daemon, cli}
MCBase == {b1, b2}
MCJob == {j1, j2, e1, e2}
MCParts == [j \in MCJob |-> 1]
MCUnkeyed == {j2}
MCAuthored == {e1, e2}
MCEventFile == [j \in MCAuthored |-> <<b1, j>>]
=============================================================================
