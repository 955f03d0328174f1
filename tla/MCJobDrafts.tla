----------------------------- MODULE MCJobDrafts -----------------------------
(* A small instance of JobDrafts for TLC.                                    *)
EXTENDS JobDrafts, TLC

CONSTANTS d1, d2, supply, issue

\* d1 is an ordinary draft; d2, when there, is a supply-levels draft, born approved.
MCDraftType == [d \in Drafts |-> IF d = d2 THEN supply ELSE issue]
MCAutoApproved == Drafts \cap {d2}

Symmetry == Permutations(Reviewers) \cup Permutations(Watchers) \cup Permutations(Emitters)
=============================================================================
