-------------------------- MODULE MCQueueTransport ---------------------------
(***************************************************************************)
(* Model values for checking QueueTransport: two documents.                 *)
(***************************************************************************)
EXTENDS QueueTransport, TLC

CONSTANTS d1, d2

MCDoc == {d1, d2}
MCOneDoc == {d1}
=============================================================================
