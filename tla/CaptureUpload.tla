----------------------------- MODULE CaptureUpload -----------------------------
(***************************************************************************)
(* The field app's upload queue, for one saved capture: FieldCaptureModel  *)
(* (the rows, the drain, reconciliation, the user's commands),             *)
(* CaptureAPIClient.submit and the background URLSession.  The row lives   *)
(* in memory and in SQLite; the media files are the only copy of the       *)
(* evidence until a server confirmed it; a task of the background session, *)
(* and the receipt its delegate stores, outlive the process.  The drain,   *)
(* a reconciliation and the user's commands interleave at every await of   *)
(* the main actor.                                                         *)
(***************************************************************************)
EXTENDS CaptureBase

VARIABLES
  row,       \* the capture's row in memory
  saved,     \* the row as last persisted
  evidence,  \* media files on the phone
  lost,      \* history: media files the phone lost by itself
  live,      \* tasks of the background session still transferring
  body,      \* what each task sends
  receipts,  \* stored successful completions, by the media the answer counted
  connected, \* canSubmitCaptures holds and the keychain has a token
  drain,     \* drainPendingSync
  rec        \* reconcileBackgroundUploads

phoneVars == <<row, saved, evidence, lost, live, body, receipts, connected, drain, rec>>

Row == [status : {"pending", "uploading", "failed", "done", "gone"}, media : SUBSET Media]
NoDrain == [phase |-> "idle", media |-> {}, conn |-> None, answer |-> Again]
NoRec == [phase |-> "idle", alive |-> FALSE, receipt |-> {}, media |-> {}]

PhoneType ==
  /\ row \in Row /\ saved \in Row
  /\ evidence \subseteq Media /\ lost \subseteq Media
  /\ live \subseteq Conns /\ body \in [Conns -> SUBSET Media]
  /\ receipts \subseteq SUBSET Media /\ connected \in BOOLEAN
  /\ drain \in [phase : {"idle", "listed", "preparing", "waiting", "answered", "releasing",
                          "closing", "stopping"},
                media : SUBSET Media, conn : Conns \cup {None}, answer : Answers]
  /\ rec \in [phase : {"idle", "seen", "releasing"}, alive : BOOLEAN,
              receipt : SUBSET SUBSET Media, media : SUBSET Media]

\* saveQuickObservation has just returned: the row is pending, in memory and on disk.  A capture
\* that was not saved in the app has no row.
PhoneInit(inApp) ==
  /\ row = (IF inApp THEN [status |-> "pending", media |-> Media]
                     ELSE [status |-> "gone", media |-> {}])
  /\ saved = row /\ evidence = row.media /\ lost = {}
  /\ live = {} /\ body = [c \in Conns |-> {}] /\ receipts = {}
  /\ connected = TRUE /\ drain = NoDrain /\ rec = NoRec

\* A new status, and a persist that succeeds; the store runs saves in the order they are asked.
Persist(r) == row' = r /\ saved' = r
Status(s) == [row EXCEPT !.status = s]

-----------------------------------------------------------------------------
(***************************************************************************)
(* The drain.  One runs at a time (pendingSyncTask).                       *)
(***************************************************************************)

\* The guards of drainPendingSync, then the rows of a round: with no token, or one that has been
\* refused, nothing is drained until the user reconnects.
DrainList ==
  /\ drain.phase = "idle" /\ connected /\ row.status = "pending"
  /\ drain' = [NoDrain EXCEPT !.phase = "listed"]
  /\ UNCHANGED <<row, saved, evidence, lost, live, body, receipts, connected, rec>>

\* While the rows before it are uploaded the listed row may be deleted.
DrainSkip ==
  /\ drain.phase = "listed" /\ row.status # "pending"
  /\ drain' = [NoDrain EXCEPT !.phase = "closing"]
  /\ UNCHANGED <<row, saved, evidence, lost, live, body, receipts, connected, rec>>

\* A listed row is marked uploading and persisted before any task exists; one whose files are
\* gone fails.
DrainBegin ==
  /\ drain.phase = "listed" /\ row.status = "pending"
  /\ IF row.media \subseteq evidence
       THEN /\ Persist(Status("uploading"))
            /\ drain' = [NoDrain EXCEPT !.phase = "preparing", !.media = row.media]
       ELSE /\ row' = Status("failed")
            /\ drain' = [NoDrain EXCEPT !.phase = "closing"]
            /\ UNCHANGED saved
  /\ UNCHANGED <<evidence, lost, live, body, receipts, connected, rec>>

\* The row cannot be persisted as uploading: it stays pending and the drain stops.
BeginUnsaved ==
  /\ drain.phase = "listed" /\ row.status = "pending" /\ row.media \subseteq evidence
  /\ drain' = [NoDrain EXCEPT !.phase = "stopping"]
  /\ UNCHANGED <<row, saved, evidence, lost, live, body, receipts, connected, rec>>

\* capturePreparedForUpload or writeBody finds a file missing: the row fails or goes back to the
\* queue, and finishBackgroundUpload drops the stored receipts.
PrepareFails ==
  /\ drain.phase = "preparing" /\ ~(drain.media \subseteq evidence)
  /\ \/ row.status # "gone" /\ row' \in {Status("failed"), Status("pending")}
     \/ row.status = "gone" /\ UNCHANGED row
  /\ receipts' = {}
  /\ drain' = [NoDrain EXCEPT !.phase = "closing"]
  /\ UNCHANGED <<saved, evidence, lost, live, body, connected, rec>>

\* submit: reserve the body, write it, start the task.
Send(c) ==
  /\ drain.phase = "preparing" /\ drain.media \subseteq evidence
  /\ c \notin live
  /\ live' = live \cup {c}
  /\ body' = [body EXCEPT ![c] = drain.media]
  /\ drain' = [drain EXCEPT !.phase = "waiting", !.conn = c]
  /\ UNCHANGED <<row, saved, evidence, lost, receipts, connected, rec>>

\* The reservation submit holds from writing the body until the answer is back.
Reserved == drain.phase = "waiting"

\* didCompleteWithError: a successful completion is stored (a stored failure is only ever
\* discarded), then the continuation resumes, if the process that waits for it is alive.
TaskEnds(c, a) ==
  /\ c \in live
  /\ live' = live \ {c}
  /\ body' = [body EXCEPT ![c] = {}]
  /\ receipts' = IF a.kind = "stored" THEN receipts \cup {a.media} ELSE receipts
  /\ drain' = IF drain.phase = "waiting" /\ drain.conn = c
                THEN [drain EXCEPT !.phase = "answered", !.conn = None, !.answer = a]
                ELSE drain
  /\ UNCHANGED <<row, saved, evidence, lost, connected, rec>>

\* validateSubmitResponse: the server counted what the capture holds.
Counted(M, listed) == Cardinality(M) = Cardinality(listed)

Accepted == drain.answer.kind = "stored" /\ Counted(drain.answer.media, drain.media)

\* The confirmation is persisted before the evidence is released.
Confirm ==
  /\ drain.phase = "answered" /\ Accepted /\ row.status # "gone"
  /\ Persist(Status("done"))
  /\ drain' = [NoDrain EXCEPT !.phase = "releasing", !.media = row.media]
  /\ UNCHANGED <<evidence, lost, live, body, receipts, connected, rec>>

\* The confirmation could not be persisted: the row is put back and the drain stops; the receipt
\* stays for reconciliation.
ConfirmUnsaved ==
  /\ drain.phase = "answered" /\ Accepted /\ row.status # "gone"
  /\ drain' = [NoDrain EXCEPT !.phase = "stopping"]
  /\ UNCHANGED <<row, saved, evidence, lost, live, body, receipts, connected, rec>>

\* deleteMedia, then finishBackgroundUpload.
Release ==
  /\ drain.phase = "releasing"
  /\ evidence' = evidence \ drain.media
  /\ receipts' = {}
  /\ drain' = [NoDrain EXCEPT !.phase = "closing"]
  /\ UNCHANGED <<row, saved, lost, live, body, connected, rec>>

\* A 401: the row stays pending, the token is deleted (requireReconnect) and the drain stops.
TokenRejected ==
  /\ drain.phase = "answered" /\ drain.answer.kind = "unauthorized" /\ row.status # "gone"
  /\ Persist(Status("pending"))
  /\ connected' = FALSE
  /\ receipts' = {}
  /\ drain' = [NoDrain EXCEPT !.phase = "stopping"]
  /\ UNCHANGED <<evidence, lost, live, body, rec>>

\* Any other answer, or a row that is no longer there.
Unconfirmed ==
  /\ drain.phase = "answered"
  /\ \/ row.status = "gone" /\ UNCHANGED row
     \/ /\ row.status # "gone" /\ ~Accepted /\ drain.answer.kind # "unauthorized"
        /\ row' = Status(IF drain.answer.kind = "again" THEN "pending" ELSE "failed")
  /\ receipts' = {}
  /\ drain' = [NoDrain EXCEPT !.phase = "closing"]
  /\ UNCHANGED <<saved, evidence, lost, live, body, connected, rec>>

\* After the round the drain ends, or begins another that was asked for meanwhile, its guards
\* untested.
EndRound ==
  /\ drain.phase \in {"closing", "stopping"}
  /\ \/ drain' = NoDrain
     \/ drain.phase = "closing" /\ row.status = "pending"
        /\ drain' = [NoDrain EXCEPT !.phase = "listed"]
  /\ UNCHANGED <<row, evidence, lost, live, body, receipts, connected, rec>>

\* The round ends with a persist.
DrainEnd == EndRound /\ saved' = row

\* That persist fails.
EndUnsaved == EndRound /\ UNCHANGED saved

-----------------------------------------------------------------------------
(***************************************************************************)
(* Reconciliation, at launch and whenever the app becomes active: what the *)
(* session answered and what is done about it are apart.                   *)
(***************************************************************************)
\* The rows uploading are asked about.  A successful completion takes precedence over liveness;
\* tasks and reservations are live.
RecSnapshot ==
  /\ rec.phase = "idle" /\ row.status = "uploading"
  /\ \E R \in IF receipts = {} THEN {{}} ELSE {{r} : r \in receipts} :
       rec' = [NoRec EXCEPT !.phase = "seen", !.alive = live # {} \/ Reserved, !.receipt = R]
  /\ UNCHANGED <<row, saved, evidence, lost, live, body, receipts, connected, drain>>

\* Mutant of Abandoned: the branch that puts a row without a task back in the queue is missing.
AbandonedIgnored == FALSE

\* No completion, no task, no reservation: the upload was interrupted.
Abandoned == row.status = "uploading" /\ rec.receipt = {} /\ ~rec.alive

\* Only a row that is (again or still) uploading is touched: confirmed, failed, left to its task
\* or put back in the queue.
RecApply ==
  /\ rec.phase = "seen"
  /\ \/ /\ row.status # "uploading" \/ (rec.receipt = {} /\ ~Abandoned)
        /\ rec' = NoRec
        /\ UNCHANGED <<row, saved>>
     \/ /\ row.status = "uploading" /\ rec.receipt # {}
        /\ IF \A r \in rec.receipt : Counted(r, row.media)
             THEN /\ Persist(Status("done"))
                  /\ rec' = [NoRec EXCEPT !.phase = "releasing", !.media = row.media]
             ELSE /\ Persist(Status("failed"))
                  /\ rec' = [NoRec EXCEPT !.phase = "releasing"]
     \/ /\ Abandoned
        /\ Persist(Status("pending"))
        /\ rec' = NoRec
  /\ UNCHANGED <<evidence, lost, live, body, receipts, connected, drain>>

\* What was decided cannot be persisted: the rows are what they were, and the receipts stay for
\* the next reconciliation.
RecUnsaved ==
  /\ rec.phase = "seen" /\ row.status = "uploading" /\ (rec.receipt # {} \/ Abandoned)
  /\ rec' = NoRec
  /\ UNCHANGED <<row, saved, evidence, lost, live, body, receipts, connected, drain>>

\* The media of a confirmed row is deleted; either way its receipts are consumed.
RecRelease ==
  /\ rec.phase = "releasing"
  /\ evidence' = evidence \ rec.media
  /\ receipts' = {}
  /\ rec' = NoRec
  /\ UNCHANGED <<row, saved, lost, live, body, connected, drain>>

-----------------------------------------------------------------------------
(***************************************************************************)
(* The user and the phone.                                                 *)
(***************************************************************************)
Retry ==
  /\ row.status = "failed" /\ drain.phase = "idle"
  /\ Persist(Status("pending"))
  /\ UNCHANGED <<evidence, lost, live, body, receipts, connected, drain, rec>>

\* uploadSurvivingMedia: the operator confirms to send what is left, with a loss note.
UploadSurviving ==
  /\ row.status = "failed" /\ drain.phase = "idle"
  /\ ~(row.media \subseteq evidence)
  /\ Persist([status |-> "pending", media |-> row.media \cap evidence])
  /\ UNCHANGED <<evidence, lost, live, body, receipts, connected, drain, rec>>

\* deleteCapture, refused while the row says uploading.
DeleteCapture ==
  /\ row.status \notin {"uploading", "gone"}
  /\ Persist([status |-> "gone", media |-> {}])
  /\ evidence' = evidence \ row.media
  /\ UNCHANGED <<lost, live, body, receipts, connected, drain, rec>>

\* A request of another screen (session, inbox, history) learns that the token is not accepted.
TokenRefused ==
  /\ connected
  /\ connected' = FALSE /\ saved' = row
  /\ UNCHANGED <<row, evidence, lost, live, body, receipts, drain, rec>>

\* connect: the user gives the app a token it can use.
Reconnect ==
  /\ ~connected
  /\ connected' = TRUE /\ saved' = row
  /\ UNCHANGED <<row, evidence, lost, live, body, receipts, drain, rec>>

\* The process ends and starts again: what was in memory is read back from the store.
Relaunch ==
  /\ row' = saved
  /\ drain' = NoDrain /\ rec' = NoRec
  /\ UNCHANGED <<saved, evidence, lost, live, body, receipts, connected>>

\* A file disappears from the app's container.
LoseMedia(m) ==
  /\ m \in evidence
  /\ evidence' = evidence \ {m}
  /\ lost' = lost \cup {m}
  /\ UNCHANGED <<row, saved, live, body, receipts, connected, drain, rec>>
=============================================================================
