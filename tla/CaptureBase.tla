------------------------------ MODULE CaptureBase ------------------------------
(***************************************************************************)
(* What the phone and the capture server share: one capture_id with its    *)
(* media, and the requests that carry it.  Captures of different ids meet  *)
(* in no document, file or row of either side.                             *)
(***************************************************************************)
EXTENDS Naturals, FiniteSets

CONSTANTS
  Media,   \* the photos and voice memos of the capture
  Conns,   \* requests that can be in progress at once, each with its handler thread
  None     \* no connection, no intake file

ASSUME MediaAssumption == IsFiniteSet(Media)

ASSUME NoneAssumption == None \notin Conns \cup [media : SUBSET Media, noted : BOOLEAN]

(***************************************************************************)
(* What a request comes to: the server's 2xx with the media it counts, a   *)
(* refusal that isPermanent calls final, a 401, or anything that is tried  *)
(* again (a 5xx, a dropped connection).  A cancelled task ends like a      *)
(* refusal.                                                                *)
(***************************************************************************)
Answers == [kind : {"stored", "refused", "unauthorized", "again"}, media : SUBSET Media]
Stored(M) == [kind |-> "stored", media |-> M]
Refused == [kind |-> "refused", media |-> {}]
AuthLost == [kind |-> "unauthorized", media |-> {}]
Again == [kind |-> "again", media |-> {}]
=============================================================================
