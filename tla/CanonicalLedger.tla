--------------------------- MODULE CanonicalLedger ---------------------------
(***************************************************************************)
(* What the canonical store promises the queue: each canonical document is  *)
(* a ledger of the job mutations and of the other programs' edits it has    *)
(* absorbed.  A job is entered in a document's ledger at most once, and     *)
(* nothing entered is ever lost.                                            *)
(*                                                                          *)
(* This is the abstract specification CanonicalRMW implements.              *)
(***************************************************************************)
EXTENDS Naturals

CONSTANTS
    Job,    \* job ids (the sha256 of a job's type and payload)
    Doc     \* canonical document ids of btq_vault

VARIABLES
    entered,    \* entered[d]: the jobs whose mutation document d has absorbed
    absorbed    \* absorbed[d]: how many edits of other programs d has absorbed

ledgerVars == <<entered, absorbed>>

LedgerInit ==
    /\ entered = [d \in Doc |-> {}]
    /\ absorbed = [d \in Doc |-> 0]

\* A job's mutation enters one document, for the first time.
Enter(d, j) ==
    /\ j \notin entered[d]
    /\ entered' = [entered EXCEPT ![d] = @ \cup {j}]
    /\ UNCHANGED absorbed

\* Another program edits one document.
Absorb(d) ==
    /\ absorbed' = [absorbed EXCEPT ![d] = @ + 1]
    /\ UNCHANGED entered

LedgerNext == \E d \in Doc : Absorb(d) \/ \E j \in Job : Enter(d, j)

LedgerSpec == LedgerInit /\ [][LedgerNext]_ledgerVars
=============================================================================
