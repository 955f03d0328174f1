--------------------------- MODULE QueueTransport ----------------------------
(***************************************************************************)
(* The transport of queue jobs: documents of the CouchDB database btq_queue *)
(* and the daemon that takes them through                                   *)
(*                                                                          *)
(*     pending -> claimed -> processing -> complete | failed                *)
(*                                                                          *)
(* (event_pipeline/couchdb_listener.py, event_pipeline/couchdb_worker.py,   *)
(* queue_processor/couchdb_queue_watcher.py).  The daemon's change loop     *)
(* claims a document, materializes it as a file of the spool, drains the    *)
(* spool and writes the outcome back; its periodic thread sweeps documents  *)
(* stuck in processing back to pending and drains the spool too; the        *)
(* command line may drain it from another process.                          *)
(*                                                                          *)
(* Each document carries its own job.  What a drain does to one file is     *)
(* modelled in QueueSpool; here it ends in processed/, in failed/ or, if    *)
(* failed/ has a file of its name already, in the queue.                    *)
(***************************************************************************)
EXTENDS Naturals, FiniteSets

CONSTANTS
    Doc,            \* documents of btq_queue
    None,           \* no document
    MarkAttempts,   \* tries of mark_processing (3 in the code)
    DrainAttempts,  \* processing passes of process_one (3 in the code)
    MaxFaults,      \* bound: failed requests, failed file writes and crashes
    MaxOverruns     \* bound: documents processed for longer than the sweep's TTL

ASSUME NoneAssumption == None \notin Doc
ASSUME AttemptsAssumption == MarkAttempts \in Nat \ {0} /\ DrainAttempts \in Nat \ {0}
ASSUME BoundsAssumption == MaxFaults \in Nat /\ MaxOverruns \in Nat

VARIABLES
    state,     \* state[d]: the document's btq_state
    unseen,    \* documents with a pending change the feed has not delivered
    pc,        \* where the change loop is; "down": no daemon is running
    cur,       \* the document it works on
    fresh,     \* whether the _rev it carries is still the stored one
    tries,     \* iterations of the retry loop it is in
    outcome,   \* what process_one concluded
    found,     \* found[d]: the sweep's copy of d: none, current or stale
    queue, failed, processed,   \* documents whose job has a file there
    applied,   \* documents whose job's mutation is in the vault
    draining,  \* who is inside process_all (at most one)
    todo,      \* todo[a]: files of a's drain not yet processed
    handling,  \* handling[a]: the file whose mutation a has just applied
    faults, overruns,           \* counters of the bounds
    skipped    \* history: documents this daemon's feed passed by, unclaimed

couch == <<state, unseen, found>>
loop == <<pc, cur, fresh, tries, outcome>>
spool == <<queue, failed, processed, applied>>
drains == <<draining, todo, handling>>
bounds == <<faults, overruns, skipped>>
vars == <<couch, loop, spool, drains, bounds>>

\* Who drains: the change loop, the periodic thread, the command line.
Actor == {"worker", "maint", "cli"}
Threads == {"worker", "maint"}

State == {"absent", "pending", "claimed", "processing", "complete", "failed"}
Settled == {"complete", "failed"}
Busy == {"mark", "materialize", "drain", "lookup", "exists", "settle"}

CouchType ==
    /\ state \in [Doc -> State]
    /\ unseen \subseteq Doc
    /\ found \in [Doc -> {"none", "current", "stale"}]

LoopType ==
    /\ pc \in {"down", "startup", "listen", "claim"} \cup Busy
    /\ cur \in Doc \cup {None}
    /\ pc \in {"claim"} \cup Busy <=> cur # None
    /\ fresh \in BOOLEAN
    /\ tries \in 0 .. MarkAttempts \cup 0 .. DrainAttempts
    /\ outcome \in {"none", "processed", "failed"}

SpoolType ==
    /\ queue \subseteq Doc /\ failed \subseteq Doc
    /\ processed \subseteq Doc /\ applied \subseteq Doc
    /\ draining \subseteq Actor
    /\ todo \in [Actor -> SUBSET Doc]
    /\ handling \in [Actor -> Doc \cup {None}]

BoundType ==
    /\ faults \in 0 .. MaxFaults /\ overruns \in 0 .. MaxOverruns
    /\ skipped \subseteq Doc

TypeOK == CouchType /\ LoopType /\ SpoolType /\ BoundType

Init ==
    /\ state = [d \in Doc |-> "absent"]
    /\ unseen = {}
    /\ found = [d \in Doc |-> "none"]
    /\ pc = "down" /\ cur = None /\ fresh = FALSE /\ tries = 0 /\ outcome = "none"
    /\ queue = {} /\ failed = {} /\ processed = {} /\ applied = {}
    /\ draining = {}
    /\ todo = [a \in Actor |-> {}]
    /\ handling = [a \in Actor |-> None]
    /\ faults = 0 /\ overruns = 0 /\ skipped = {}

-----------------------------------------------------------------------------
\* A write moves d to a state under a new _rev: whoever holds another copy of
\* d holds a stale one.
Write(d, s) ==
    /\ state' = [state EXCEPT ![d] = s]
    /\ unseen' = IF s = "pending" THEN unseen \cup {d} ELSE unseen \ {d}
    /\ found' = [found EXCEPT ![d] = IF @ = "none" THEN "none" ELSE "stale"]

FaultSkipping(ds) ==
    /\ faults < MaxFaults
    /\ faults' = faults + 1
    /\ skipped' = skipped \cup ds
    /\ UNCHANGED overruns

Fault == FaultSkipping({})

\* The change loop turns to its next document.
Listen == pc' = "listen" /\ cur' = None /\ fresh' = FALSE /\ tries' = 0 /\ outcome' = "none"

\* The daemon's process ends, and both its threads with it.
Exit ==
    /\ pc' = "down" /\ cur' = None /\ fresh' = FALSE /\ tries' = 0 /\ outcome' = "none"
    /\ draining' = draining \ Threads
    /\ todo' = [a \in Actor |-> IF a \in Threads THEN {} ELSE todo[a]]
    /\ handling' = [a \in Actor |-> IF a \in Threads THEN None ELSE handling[a]]

(***************************************************************************)
(* Producers                                                                *)
(***************************************************************************)
\* btq_client.enqueue(); a second PUT of the same id is a duplicate (409).
Enqueue(d) ==
    /\ state[d] = "absent"
    /\ Write(d, "pending")
    /\ UNCHANGED <<loop, spool, drains, bounds>>

(***************************************************************************)
(* listen(): the changes feed and the claim                                 *)
(***************************************************************************)
\* A line of the feed: _last_seq moves past it before the claim is tried.
Deliver(d) ==
    /\ pc = "listen" /\ d \in unseen
    /\ unseen' = unseen \ {d}
    /\ pc' = "claim" /\ cur' = d
    /\ UNCHANGED <<state, found, fresh, tries, outcome, spool, drains, bounds>>

\* _claim_if_pending(): GET, then PUT with the _rev just read.
Claim ==
    /\ pc = "claim"
    /\ IF state[cur] = "pending"
       THEN /\ Write(cur, "claimed")
            /\ pc' = "mark" /\ fresh' = TRUE /\ tries' = 1
            /\ UNCHANGED <<cur, outcome>>
       ELSE Listen /\ UNCHANGED couch
    /\ UNCHANGED <<spool, drains, bounds>>

\* The claim's PUT is stored, or not; the daemon sees an error.
ClaimStored == UNCHANGED couch \/ (state[cur] = "pending" /\ Write(cur, "claimed"))

\* An HTTP 5xx leaves _claim_if_pending as an HTTPError, which listen() takes
\* for a broken feed: it reconnects from _last_seq.
ClaimServerError ==
    /\ pc = "claim"
    /\ FaultSkipping({cur})
    /\ ClaimStored
    /\ Listen
    /\ UNCHANGED <<spool, drains>>

\* No connection, or HTTP 401, 403, 404: CouchDBListenerError ends the daemon.
ClaimError ==
    /\ pc = "claim"
    /\ Fault
    /\ ClaimStored
    /\ Exit
    /\ UNCHANGED spool

(***************************************************************************)
(* _run_change_loop(): mark_processing                                      *)
(***************************************************************************)
MarkProcessing ==
    /\ pc = "mark" /\ fresh
    /\ Write(cur, "processing")
    /\ pc' = "materialize" /\ tries' = 0
    /\ UNCHANGED <<cur, fresh, outcome, spool, drains, bounds>>

\* After the last try the document is given up, in the state it is in.
NextMarkAttempt ==
    IF tries < MarkAttempts
    THEN tries' = tries + 1 /\ UNCHANGED <<pc, cur, outcome>>
    ELSE pc' = "listen" /\ cur' = None /\ tries' = 0 /\ UNCHANGED outcome

\* The request fails; the document is stored as processing all the same, or not.
MarkError ==
    /\ pc = "mark"
    /\ Fault
    /\ \/ UNCHANGED couch /\ fresh' = (fresh /\ tries < MarkAttempts)
       \/ fresh /\ Write(cur, "processing") /\ fresh' = FALSE
    /\ NextMarkAttempt
    /\ UNCHANGED <<spool, drains>>

MarkConflict ==
    /\ pc = "mark" /\ ~ fresh
    /\ NextMarkAttempt
    /\ UNCHANGED <<couch, fresh, spool, drains, bounds>>

(***************************************************************************)
(* process_one()                                                            *)
(***************************************************************************)
\* Mutant of Materialize: only the path is computed (dry_run).
MaterializeDry ==
    /\ pc = "materialize"
    /\ pc' = "drain" /\ tries' = 1
    /\ UNCHANGED <<couch, cur, fresh, outcome, spool, drains, bounds>>

\* materialize_queue_job(); an existing file is left as it is.
Materialize ==
    /\ pc = "materialize"
    /\ queue' = queue \cup {cur}
    /\ pc' = "drain" /\ tries' = 1
    /\ UNCHANGED <<couch, cur, fresh, outcome, failed, processed, applied, drains, bounds>>

\* Writing or renaming the temporary file raises OSError.
MaterializeFails ==
    /\ pc = "materialize" /\ cur \notin queue
    /\ Fault
    /\ pc' = "settle" /\ outcome' = "failed"
    /\ UNCHANGED <<couch, cur, fresh, tries, spool, drains>>

\* run_processing_pass() returns None: another process holds processor.lock.
DrainRefused ==
    /\ "cli" \in draining
    /\ pc \in {"drain", "startup"}
    /\ pc' = IF pc = "drain" THEN "lookup" ELSE "listen"
    /\ UNCHANGED <<couch, cur, fresh, tries, outcome, spool, drains, bounds>>

\* Mutant of Lookup: a file that left the queue counts as processed.
LookupByAbsence ==
    /\ pc = "lookup"
    /\ IF cur \notin queue
       THEN pc' = "settle" /\ outcome' = "processed"
       ELSE pc' = "exists" /\ UNCHANGED outcome
    /\ UNCHANGED <<couch, cur, fresh, tries, spool, drains, bounds>>

\* _materialized_job_outcome() looks the job up in the index and processed/ ...
Lookup ==
    /\ pc = "lookup"
    /\ IF cur \in processed
       THEN pc' = "settle" /\ outcome' = "processed"
       ELSE pc' = "exists" /\ UNCHANGED outcome
    /\ UNCHANGED <<couch, cur, fresh, tries, spool, drains, bounds>>

\* Mutant of Exists: passes are repeated as long as the file is there.
ExistsForEver ==
    /\ pc = "exists"
    /\ IF cur \in queue
       THEN pc' = "drain" /\ tries' = tries + 1 /\ UNCHANGED outcome
       ELSE pc' = "settle" /\ outcome' = "failed" /\ UNCHANGED tries
    /\ UNCHANGED <<couch, cur, fresh, spool, drains, bounds>>

\* ... and then its file in queue/: still there is PENDING, gone is FAILED.
Exists ==
    /\ pc = "exists"
    /\ IF cur \in queue /\ tries < DrainAttempts
       THEN pc' = "drain" /\ tries' = tries + 1 /\ UNCHANGED outcome
       ELSE pc' = "settle" /\ outcome' = "failed" /\ UNCHANGED tries
    /\ UNCHANGED <<couch, cur, fresh, spool, drains, bounds>>

(***************************************************************************)
(* _run_change_loop(): mark_complete, mark_failed                           *)
(***************************************************************************)
Verdict == IF outcome = "processed" THEN "complete" ELSE "failed"

Settle ==
    /\ pc = "settle" /\ fresh
    /\ Write(cur, Verdict)
    /\ Listen
    /\ UNCHANGED <<spool, drains, bounds>>

\* A conflict is raised again: the daemon ends.
SettleConflict ==
    /\ pc = "settle" /\ ~ fresh
    /\ Exit
    /\ UNCHANGED <<couch, spool, bounds>>

SettleError ==
    /\ pc = "settle"
    /\ Fault
    /\ UNCHANGED couch \/ (fresh /\ Write(cur, Verdict))
    /\ Exit
    /\ UNCHANGED spool

(***************************************************************************)
(* The sweep of documents stuck in processing                               *)
(***************************************************************************)
\* Mutant of SweepFind: the selector asks for claimed documents.
SweepFindsClaimed(d) ==
    /\ pc # "down"
    /\ state[d] = "claimed" /\ d # cur /\ found[d] = "none"
    /\ found' = [found EXCEPT ![d] = "current"]
    /\ UNCHANGED <<state, unseen, loop, spool, drains, bounds>>

\* find_stale_processing_docs(): processing for longer than the TTL, because
\* its daemon is gone or because it takes that long.
SweepFind(d) ==
    /\ pc # "down"
    /\ state[d] = "processing" /\ found[d] = "none"
    /\ IF d = cur
       THEN overruns < MaxOverruns /\ overruns' = overruns + 1
       ELSE UNCHANGED overruns
    /\ found' = [found EXCEPT ![d] = "current"]
    /\ UNCHANGED <<state, unseen, loop, spool, drains, faults, skipped>>

\* Mutant of SweepReset: the PUT is not conditional on the _rev found.
SweepOverwrites(d) ==
    /\ pc # "down"
    /\ found[d] # "none"
    /\ state' = [state EXCEPT ![d] = "pending"]
    /\ unseen' = unseen \cup {d}
    /\ fresh' = (fresh /\ d # cur)
    /\ found' = [found EXCEPT ![d] = "none"]
    /\ UNCHANGED <<pc, cur, tries, outcome, spool, drains, bounds>>

\* Mutant of SweepReset: the document goes back to claimed.
SweepToClaimed(d) ==
    /\ pc # "down"
    /\ found[d] = "current"
    /\ state' = [state EXCEPT ![d] = "claimed"]
    /\ fresh' = (fresh /\ d # cur)
    /\ found' = [found EXCEPT ![d] = "none"]
    /\ UNCHANGED <<pc, cur, tries, outcome, unseen, spool, drains, bounds>>

\* reset_stale_processing_doc(): a PUT with the _rev of the copy found; a
\* conflict leaves the document alone.
SweepReset(d) ==
    /\ pc # "down"
    /\ found[d] # "none"
    /\ IF found[d] = "current"
       THEN /\ state' = [state EXCEPT ![d] = "pending"]
            /\ unseen' = unseen \cup {d}
            /\ fresh' = (fresh /\ d # cur)
       ELSE UNCHANGED <<state, unseen, fresh>>
    /\ found' = [found EXCEPT ![d] = "none"]
    /\ UNCHANGED <<pc, cur, tries, outcome, spool, drains, bounds>>

(***************************************************************************)
(* Drains (process_all under processor.lock)                                *)
(***************************************************************************)
\* _PROCESS_PASS_LOCK and processor.lock keep the drains apart.
BeginDrain(a) ==
    /\ draining = {}
    /\ a = "worker" => pc \in {"drain", "startup"}
    /\ a = "maint" => pc \notin {"down", "startup"}
    /\ draining' = {a}
    /\ todo' = [todo EXCEPT ![a] = queue]
    /\ UNCHANGED <<couch, loop, spool, handling, bounds>>

\* A handler applies the job, or finds its marker.
Apply(a) ==
    /\ handling[a] = None
    /\ \E d \in todo[a] :
          /\ todo' = [todo EXCEPT ![a] = @ \ {d}]
          /\ applied' = applied \cup {d}
          /\ handling' = [handling EXCEPT ![a] = d]
    /\ UNCHANGED <<couch, loop, queue, failed, processed, draining, bounds>>

Archive(a) ==
    /\ handling[a] # None
    /\ queue' = queue \ {handling[a]}
    /\ processed' = processed \cup {handling[a]}
    /\ handling' = [handling EXCEPT ![a] = None]
    /\ UNCHANGED <<couch, loop, failed, applied, draining, todo, bounds>>

\* The file of a failing job goes to failed/.  If that name is taken it stays
\* in queue/, or is removed when the job's marker is seen.
FailFile(d) ==
    \/ d \notin failed /\ failed' = failed \cup {d} /\ queue' = queue \ {d}
    \/ d \in failed /\ UNCHANGED <<failed, queue>>
    \/ d \in failed \cap applied /\ queue' = queue \ {d} /\ UNCHANGED failed

\* A job fails before it is applied, or after (its evidence is not written).
Reject(a) ==
    /\ \/ /\ handling[a] = None
          /\ \E d \in todo[a] : todo' = [todo EXCEPT ![a] = @ \ {d}] /\ FailFile(d)
          /\ UNCHANGED handling
       \/ /\ handling[a] # None
          /\ FailFile(handling[a])
          /\ handling' = [handling EXCEPT ![a] = None]
          /\ UNCHANGED todo
    /\ UNCHANGED <<couch, loop, processed, applied, draining, bounds>>

EndDrain(a) ==
    /\ a \in draining /\ todo[a] = {} /\ handling[a] = None
    /\ draining' = draining \ {a}
    /\ pc' = IF a # "worker" THEN pc ELSE IF pc = "drain" THEN "lookup" ELSE "listen"
    /\ UNCHANGED <<couch, cur, fresh, tries, outcome, spool, todo, handling, bounds>>

DrainStep(a) == Apply(a) \/ Archive(a) \/ Reject(a) \/ EndDrain(a)

(***************************************************************************)
(* The daemon's process                                                     *)
(***************************************************************************)
Crash ==
    /\ pc # "down"
    /\ Fault
    /\ Exit
    /\ UNCHANGED <<couch, spool>>

\* Mutant of Restart: the feed resumes where the dead daemon left it.
RestartFromLastSeq ==
    /\ pc = "down"
    /\ pc' = "startup"
    /\ found' = [d \in Doc |-> "none"]
    /\ skipped' = {}
    /\ UNCHANGED <<state, unseen, cur, fresh, tries, outcome, spool, drains, faults, overruns>>

\* launchd starts it again; the feed is read from sequence 0.
Restart ==
    /\ pc = "down"
    /\ pc' = "startup"
    /\ unseen' = {d \in Doc : state[d] = "pending"}
    /\ found' = [d \in Doc |-> "none"]
    /\ skipped' = {}
    /\ UNCHANGED <<state, cur, fresh, tries, outcome, spool, drains, faults, overruns>>

-----------------------------------------------------------------------------
WorkerDrain == BeginDrain("worker") \/ DrainRefused

\* The change loop's own steps, when nothing fails.
ChangeLoop ==
    \/ \E d \in Doc : Deliver(d)
    \/ Claim \/ MarkProcessing \/ MarkConflict \/ Materialize
    \/ Lookup \/ Exists \/ Settle \/ SettleConflict

Failure ==
    \/ ClaimServerError \/ ClaimError \/ MarkError \/ MaterializeFails
    \/ SettleError \/ Crash

Next ==
    \/ \E d \in Doc : Enqueue(d) \/ SweepFind(d) \/ SweepReset(d)
    \/ ChangeLoop \/ DrainRefused \/ Failure \/ Restart
    \/ \E a \in Actor : BeginDrain(a) \/ DrainStep(a)

\* launchd restarts the daemon, its threads are scheduled and a drain ends.  The
\* periodic thread sleeps between two drains, so the change loop, waiting for
\* _PROCESS_PASS_LOCK, gets it in the end (strong fairness).
Fairness ==
    /\ WF_vars(ChangeLoop) /\ SF_vars(WorkerDrain) /\ WF_vars(Restart)
    /\ \A a \in Actor : WF_vars(DrainStep(a))
    /\ \A d \in Doc : WF_vars(SweepFind(d) /\ d # cur) /\ WF_vars(SweepReset(d))

Spec == Init /\ [][Next]_vars /\ Fairness

-----------------------------------------------------------------------------
\* A document is marked complete only when its job's mutation is in the vault,
\* whoever drained it and whatever was retried.
CompleteIsApplied == \A d \in Doc : state[d] = "complete" => d \in applied

\* complete and failed are final: neither a sweep that found the document
\* earlier, nor a daemon whose document was swept meanwhile, nor a repeated
\* request changes a document that has its outcome.
SettledStaysSettled ==
    [][\A d \in Doc : state[d] \in Settled => state'[d] = state[d]]_vars

\* A document in "claimed" that nobody works on: no sweep ever finds it.
Stranded(d) == state[d] = "claimed" /\ cur # d

\* Without a failed request or a crash no document is stranded, also when the
\* sweep overtakes a slow daemon and the daemon ends on the conflict.
OnlyFaultsStrand == \A d \in Doc : Stranded(d) => faults > 0

\* Without a failure of the daemon's own, a document marked failed leaves its
\* job's file in queue/ or failed/ for the operator, or was applied after all.
FailedKeepsJob ==
    \A d \in Doc : state[d] = "failed" => d \in queue \cup failed \cup applied \/ faults > 0

\* Pending, but behind the position of the running daemon's feed.
Missed(d) == state[d] = "pending" /\ pc # "down" /\ d \notin unseen /\ cur # d

\* What the docstring of listen() promises of reconnecting from the last
\* sequence: a pending document is ahead in the feed, or being claimed.
NoChangeMissed == \A d \in Doc : ~ Missed(d)

\* What a comment of process_one says of the state it reports: a document
\* marked failed is one whose job was not processed, by this drain or by the
\* command line's, which makes the daemon's own be refused.
FailedIsNotProcessed == \A d \in Doc : state[d] = "failed" => d \notin processed

\* Every document that is enqueued, or swept back, gets its outcome, across
\* crashes, conflicts and refused drains, unless a failed claim strands it or
\* lets the feed of this daemon pass it by.
Resolves ==
    \A d \in Doc :
        state[d] = "pending" ~> state[d] \in Settled \/ Stranded(d) \/ d \in skipped

\* No document stays in processing, also when the daemon that put it there died.
ProcessingEnds == \A d \in Doc : state[d] = "processing" ~> state[d] # "processing"
=============================================================================
