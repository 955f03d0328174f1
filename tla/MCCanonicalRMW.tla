--------------------------- MODULE MCCanonicalRMW ----------------------------
(***************************************************************************)
(* Model values for checking CanonicalRMW: three writers, two of which      *)
(* carry the same job; that job writes a visit-gap document it may create   *)
(* and then the location document it requires (append_to_note), the other   *)
(* one only the location.                                                   *)
(***************************************************************************)
EXTENDS CanonicalRMW, TLC

CONSTANTS w1, w2, w3, note, hours, gap, location

MCWriter == {w1, w2, w3}
MCJob == {note, hours}
MCDoc == {gap, location}
MCJobOf == (w1 :> note) @@ (w2 :> note) @@ (w3 :> hours)
MCTargets == (note :> <<gap, location>>) @@ (hours :> <<location>>)
MCCreatable == {gap}

\* The two writers of the same job are interchangeable.
MCSymmetry == Permutations({w1, w2})
=============================================================================
