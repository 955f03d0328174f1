------------------------------ MODULE CaptureWeb ------------------------------
(***************************************************************************)
(* The upload queue of the web page (unified_capture), for one saved       *)
(* capture: a row of IndexedDB that holds the media itself, drained by the *)
(* page and by its service worker, neither of which knows what the other   *)
(* is doing.  A drainQueue is a sequence of listings, each followed by a   *)
(* patch or a deletion in a transaction of its own, which looks at nothing *)
(* but whether the row exists; a listing that does not find the row leaves *)
(* no trace and is no step here.                                           *)
(* Time is left out: an upload may be slow enough to be taken for an       *)
(* orphan, and any row may be past the retry window or due for the sweep.  *)
(***************************************************************************)
EXTENDS CaptureBase

CONSTANT MaxBeside  \* bound: how many loops over the row are under way beside the page's drain

ASSUME BesideAssumption == MaxBeside \in Nat

VARIABLES
  item,  \* the row's status; "none" for a capture that was not saved on the page
  token, \* the page has a token
  agent  \* what the page, its retry of failed captures and the service worker are doing

webVars == <<item, token, agent>>

\* Who drains; and a retry, which the page's own isDraining does not hold back.
Drains == {"page", "worker"}
Agents == Drains \cup {"retry"}
NoAgent == [phase |-> "idle", conn |-> None]

WebType ==
  /\ item \in {"none", "pending", "uploading", "failed", "done", "gone"}
  /\ token \in BOOLEAN
  /\ agent \in [Agents -> [phase : {"idle", "orphan", "expire", "requeue", "mark", "waiting", "delete"},
                           conn : Conns \cup {None}]]

\* saveCapture has put the row, or the capture is not the page's.
WebInit(status) ==
  /\ item = status /\ token = TRUE
  /\ agent = [d \in Agents |-> NoAgent]

\* The connections a fetch waits on.
Fetching == {agent[d].conn : d \in Agents} \ {None}

Become(d, phase, c) == agent' = [agent EXCEPT ![d] = [phase |-> phase, conn |-> c]]

\* updateCapture: a blind patch; on a deleted row it rejects, and the drain ends.
Patch(status) == item' = IF item = "gone" THEN item ELSE status

Orphan == item = "uploading"

\* The page's own drain is never held back by the bound.
Room == Cardinality({d \in Agents \ {"page"} : agent[d].phase # "idle"}) < MaxBeside

\* A listing finds the row: left uploading, pending (and too old, or to be uploaded), or done
\* for five minutes.  The page drains with a token only.
List(d) ==
  /\ agent[d].phase = "idle" /\ IF d = "page" THEN token ELSE Room
  /\ \/ Orphan /\ Become(d, "orphan", None)
     \/ item = "pending" /\ \E p \in {"mark", "expire"} : Become(d, p, None)
     \/ item = "done" /\ Become(d, "delete", None)
  /\ UNCHANGED <<item, token>>

\* requeueFailedCaptures, when the page loads or the user asks, a drain under way or not: a failed
\* row is listed.
RequeueList ==
  /\ agent["retry"].phase = "idle" /\ Room /\ item = "failed"
  /\ Become("retry", "requeue", None)
  /\ UNCHANGED <<item, token>>

\* The orphan and the failed row go back to pending, the row that is too old fails.
PatchListed(d) ==
  /\ \/ agent[d].phase \in {"orphan", "requeue"} /\ Patch("pending")
     \/ agent[d].phase = "expire" /\ Patch("failed")
  /\ Become(d, "idle", None)
  /\ UNCHANGED token

\* The listed row is marked uploading and sent, as it was listed.
Upload(d, c) ==
  /\ agent[d].phase = "mark" /\ item # "gone" /\ c \notin Fetching
  /\ Patch("uploading")
  /\ Become(d, "waiting", c)
  /\ UNCHANGED token

UploadRejected(d) ==
  /\ agent[d].phase = "mark" /\ item = "gone"
  /\ Become(d, "idle", None)
  /\ UNCHANGED <<item, token>>

\* What is recorded of an answer; a 401 is final, like any refusal.
Outcome(a) == CASE a.kind = "stored" -> "done"
                [] a.kind \in {"refused", "unauthorized"} -> "failed"
                [] OTHER -> "pending"

\* The response, or the error, of the fetch on a connection is recorded.
Record(c, a) ==
  /\ \E d \in Agents : agent[d].conn = c /\ Become(d, "idle", None)
  /\ Patch(Outcome(a))
  /\ UNCHANGED token

\* The server goes down, and every fetch with it.
FetchesBreak ==
  /\ agent' = [d \in Agents |-> IF agent[d].conn = None THEN agent[d] ELSE NoAgent]
  /\ IF Fetching = {} THEN UNCHANGED item ELSE Patch("pending")
  /\ UNCHANGED token

\* The sweep deletes the row, with the media.
DeleteDone(d) ==
  /\ agent[d].phase = "delete"
  /\ item' = "gone"
  /\ Become(d, "idle", None)
  /\ UNCHANGED token

AgentStep(d) == List(d) \/ PatchListed(d) \/ UploadRejected(d) \/ DeleteDone(d)

\* What ends together: the page and its retry, or the worker.
Process(d) == IF d = "page" THEN {"page", "retry"} ELSE {d}

\* The page is closed, or the browser terminates the service worker, with the fetch it waits for.
AgentDies(d) ==
  /\ \E x \in Process(d) : agent[x].phase # "idle"
  /\ agent' = [x \in Agents |-> IF x \in Process(d) THEN NoAgent ELSE agent[x]]
  /\ UNCHANGED <<item, token>>

\* loadSession: the token is not accepted, and the page forgets it.
TokenCleared ==
  /\ item # "none" /\ token
  /\ token' = FALSE
  /\ UNCHANGED <<item, agent>>

\* The user pastes a token the server accepts.
PasteToken ==
  /\ ~token
  /\ token' = TRUE
  /\ UNCHANGED <<item, agent>>
=============================================================================
