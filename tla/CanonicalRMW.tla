---------------------------- MODULE CanonicalRMW -----------------------------
(***************************************************************************)
(* The canonical read-modify-write protocol: queue handlers that apply a    *)
(* job's mutation to documents of btq_vault through apply_canonical_rmw     *)
(* (queue_processor/canonical_rmw.py) and CouchDBEntityStore.update_doc     *)
(* (btq_vault/couch_store.py).                                              *)
(*                                                                          *)
(* A PUT replaces the whole document with the body the writer computed from *)
(* the document it read; CouchDB accepts it only if the _rev it carries is  *)
(* still the current one.  Each request is one action, so the writers       *)
(* interleave between a read and the write that depends on it.  Writers may *)
(* carry the same job: a replay, a retry after a crash, or the second       *)
(* processor that ProcessorLock shows is possible.                          *)
(***************************************************************************)
EXTENDS Naturals, Sequences

CONSTANTS
    Writer,      \* processes applying jobs
    Job,         \* job ids
    Doc,         \* canonical document ids
    JobOf,       \* JobOf[w]: the job writer w processes
    Targets,     \* Targets[j]: the documents job j's handler writes, in order
    Creatable,   \* documents whose target has allow_create (and not require_existing)
    MaxEdits,    \* bound: edits of a document by other programs
    MaxRuns      \* bound: times one writer starts its job over

ASSUME JobOfAssumption == JobOf \in [Writer -> Job]
ASSUME TargetsAssumption ==
    Targets \in [Job -> Seq(Doc)] /\ \A j \in Job : Len(Targets[j]) > 0
ASSUME CreatableAssumption == Creatable \subseteq Doc
ASSUME BoundsAssumption == MaxEdits \in Nat /\ MaxRuns \in Nat

VARIABLES
    docs,      \* docs[d]: document d as CouchDB stores it
    pc,        \* pc[w]: the next request of writer w
    target,    \* target[w]: the position of w's current document in Targets
    snap,      \* snap[w]: the document body w last read
    attempt,   \* attempt[w]: the iteration of update_doc's retry loop
    base,      \* history: the rev of the document when w's update_doc began
    runs,      \* runs[w]: how often w started its job
    acked      \* history: acked[d]: edits of d acknowledged to other programs

vars == <<docs, pc, target, snap, attempt, base, runs, acked>>

\* rev 0 is a missing document.  `ids` is btq_job_ids; `content` counts how
\* often each job's mutation is present in the body, `edits` how many edits
\* of other programs are.
Body == [rev : Nat, ids : SUBSET Job, content : [Job -> Nat], edits : Nat]

Missing == [rev |-> 0, ids |-> {}, content |-> [j \in Job |-> 0], edits |-> 0]

Stopped == {"idle", "done", "failed"}

TypeOK ==
    /\ docs \in [Doc -> Body]
    /\ pc \in [Writer -> Stopped \cup {"check", "fetch", "put"}]
    /\ target \in [Writer -> Nat]
    /\ \A w \in Writer : target[w] \in 1 .. Len(Targets[JobOf[w]])
    /\ snap \in [Writer -> Body]
    /\ attempt \in [Writer -> {0, 1}]
    /\ base \in [Writer -> Nat]
    /\ runs \in [Writer -> Nat]
    /\ acked \in [Doc -> Nat]

\* Documents that handlers may not create were created by earlier jobs.
Init ==
    /\ docs = [d \in Doc |->
                  IF d \in Creatable THEN Missing ELSE [Missing EXCEPT !.rev = 1]]
    /\ pc = [w \in Writer |-> "idle"]
    /\ target = [w \in Writer |-> 1]
    /\ snap = [w \in Writer |-> Missing]
    /\ attempt = [w \in Writer |-> 0]
    /\ base = [w \in Writer |-> 0]
    /\ runs = [w \in Writer |-> 0]
    /\ acked = [d \in Doc |-> 0]

-----------------------------------------------------------------------------
Current(w) == Targets[JobOf[w]][target[w]]

Stored(w) == docs[Current(w)]

\* Mutant of AlreadyApplied: the marker is never looked at.
NeverApplied(doc, j) == FALSE

\* canonical_job_already_applied()
AlreadyApplied(doc, j) == j \in doc.ids

\* get_optional() found nothing where the target requires a document.
RequiredMissing(w) == Stored(w).rev = 0 /\ Current(w) \notin Creatable

\* The locals of update_doc end with the call.
DropLocals(w) ==
    /\ snap' = [snap EXCEPT ![w] = Missing]
    /\ attempt' = [attempt EXCEPT ![w] = 0]
    /\ base' = [base EXCEPT ![w] = 0]

\* An exception leaves the handler.
Fail(w) ==
    /\ pc' = [pc EXCEPT ![w] = "failed"]
    /\ target' = [target EXCEPT ![w] = 1]
    /\ DropLocals(w)

\* Mutant of Return: a handler ends after its first target.
ReturnAtOnce(w) ==
    /\ target' = [target EXCEPT ![w] = 1]
    /\ pc' = [pc EXCEPT ![w] = "done"]
    /\ DropLocals(w)

\* apply_canonical_rmw returns: the handler goes on to its next target, or
\* ends the job.
Return(w) ==
    /\ IF target[w] < Len(Targets[JobOf[w]])
       THEN /\ target' = [target EXCEPT ![w] = @ + 1]
            /\ pc' = [pc EXCEPT ![w] = "check"]
       ELSE /\ target' = [target EXCEPT ![w] = 1]
            /\ pc' = [pc EXCEPT ![w] = "done"]
    /\ DropLocals(w)

\* The processor hands the job to its handler: a first run, a retry after an
\* error, or the re-run that follows a crash.
StartJob(w) ==
    /\ pc[w] \in Stopped
    /\ runs[w] < MaxRuns
    /\ runs' = [runs EXCEPT ![w] = @ + 1]
    /\ pc' = [pc EXCEPT ![w] = "check"]
    /\ UNCHANGED <<docs, target, snap, attempt, base, acked>>

\* apply_canonical_rmw's own get_optional().
Check(w) ==
    /\ pc[w] = "check"
    /\ \/ RequiredMissing(w) /\ Fail(w)
       \/ ~ RequiredMissing(w) /\ AlreadyApplied(Stored(w), JobOf[w]) /\ Return(w)
       \/ /\ ~ RequiredMissing(w) /\ ~ AlreadyApplied(Stored(w), JobOf[w])
          /\ pc' = [pc EXCEPT ![w] = "fetch"]
          /\ base' = [base EXCEPT ![w] = Stored(w).rev]
          /\ UNCHANGED <<target, snap, attempt>>
    /\ UNCHANGED <<docs, runs, acked>>

\* update_doc's get_optional(): the document it returns feeds the transform,
\* after the marker is tested again on it (_CanonicalSkip).
Fetch(w) ==
    /\ pc[w] = "fetch"
    /\ \/ RequiredMissing(w) /\ Fail(w)
       \/ ~ RequiredMissing(w) /\ AlreadyApplied(Stored(w), JobOf[w]) /\ Return(w)
       \/ /\ ~ RequiredMissing(w) /\ ~ AlreadyApplied(Stored(w), JobOf[w])
          /\ pc' = [pc EXCEPT ![w] = "put"]
          /\ snap' = [snap EXCEPT ![w] = Stored(w)]
          /\ UNCHANGED <<target, attempt, base>>
    /\ UNCHANGED <<docs, runs, acked>>

\* Mutant of Outgoing: append_job_id() is forgotten.
OutgoingUnmarked(w) ==
    [snap[w] EXCEPT !.rev = @ + 1, !.content[JobOf[w]] = @ + 1]

\* The body the transform returns: the document read, with the mutation, and
\* append_job_id()'s marker.
Outgoing(w) ==
    LET j == JobOf[w] IN
    [rev |-> snap[w].rev + 1,
     ids |-> snap[w].ids \cup {j},
     content |-> [snap[w].content EXCEPT ![j] = @ + 1],
     edits |-> snap[w].edits]

\* Mutant of RevIsCurrent: the PUT carries no _rev condition.
RevIgnored(w) == TRUE

RevIsCurrent(w) == snap[w].rev = Stored(w).rev

\* put_with_rev() is accepted.  If the response is lost on its way back, the
\* handler sees an error although the document changed.
Put(w) ==
    /\ pc[w] = "put"
    /\ RevIsCurrent(w)
    /\ docs' = [docs EXCEPT ![Current(w)] = Outgoing(w)]
    /\ Return(w) \/ Fail(w)
    /\ UNCHANGED <<runs, acked>>

\* Mutant of PutConflict: the loop has no bound.
ConflictKeepsTrying(w) ==
    /\ pc[w] = "put"
    /\ ~ RevIsCurrent(w)
    /\ attempt' = [attempt EXCEPT ![w] = @ + 1]
    /\ pc' = [pc EXCEPT ![w] = "fetch"]
    /\ snap' = [snap EXCEPT ![w] = Missing]
    /\ UNCHANGED <<docs, target, base, runs, acked>>

\* Mutant of PutConflict: the retry sends the same body again, without a refetch.
ConflictResends(w) ==
    /\ pc[w] = "put"
    /\ ~ RevIsCurrent(w)
    /\ IF attempt[w] = 0
       THEN /\ attempt' = [attempt EXCEPT ![w] = 1]
            /\ UNCHANGED <<pc, snap, target, base>>
       ELSE Fail(w)
    /\ UNCHANGED <<docs, runs, acked>>

\* HTTP 409: one refetch, then CouchDBEntityStoreError.
PutConflict(w) ==
    /\ pc[w] = "put"
    /\ ~ RevIsCurrent(w)
    /\ IF attempt[w] = 0
       THEN /\ attempt' = [attempt EXCEPT ![w] = 1]
            /\ pc' = [pc EXCEPT ![w] = "fetch"]
            /\ snap' = [snap EXCEPT ![w] = Missing]
            /\ UNCHANGED <<target, base>>
       ELSE Fail(w)
    /\ UNCHANGED <<docs, runs, acked>>

\* A request fails before CouchDB acts on it, the handler's transform rejects
\* the document it was given, or the process dies: in each case nothing more
\* is written in this run.
StopsShort(w) ==
    /\ pc[w] \in {"check", "fetch", "put"}
    /\ Fail(w)
    /\ UNCHANGED <<docs, runs, acked>>

\* The body another program's edit leaves behind.
Edited(doc) == [doc EXCEPT !.rev = @ + 1, !.edits = @ + 1]

\* Another program of the system (site supply budgets, the employee backfill)
\* commits an update_doc or put_with_rev of its own.
ForeignEdit(d) ==
    /\ acked[d] < MaxEdits
    /\ docs' = [docs EXCEPT ![d] = Edited(docs[d])]
    /\ acked' = [acked EXCEPT ![d] = @ + 1]
    /\ UNCHANGED <<pc, target, snap, attempt, base, runs>>

WriterStep(w) ==
    \/ StartJob(w) \/ Check(w) \/ Fetch(w)
    \/ Put(w) \/ PutConflict(w) \/ StopsShort(w)

Next == (\E w \in Writer : WriterStep(w)) \/ (\E d \in Doc : ForeignEdit(d))

Spec == Init /\ [][Next]_vars

-----------------------------------------------------------------------------
\* However many times a job is run, by however many processors, a document
\* contains its mutation at most once (canonical_job_already_applied is tested
\* on the very body the PUT replaces).
AppliedAtMostOnce == \A d \in Doc, j \in Job : docs[d].content[j] <= 1

\* The marker in btq_job_ids is present exactly when the mutation is: what
\* every dedupe decision that reads only the marker relies on.
MarkerMatchesContent ==
    \A d \in Doc, j \in Job : j \in docs[d].ids <=> docs[d].content[j] > 0

\* An edit CouchDB acknowledged to another program is never overwritten by a
\* handler that read the document before it.
NoLostEdit == \A d \in Doc : docs[d].edits = acked[d]

\* A handler that ends normally, in whatever run, has its mutation in every
\* document it targets, also when an earlier run stopped half way.
DoneIsComplete ==
    \A w \in Writer : pc[w] = "done" =>
        \A i \in 1 .. Len(Targets[JobOf[w]]) :
            JobOf[w] \in docs[Targets[JobOf[w]][i]].ids

\* update_doc gives up on a conflict only when two other writes were committed
\* to the document while it ran: one conflict alone is always absorbed.
ConflictNeedsTwoWrites ==
    [][\A w \in Writer :
          (/\ pc[w] = "put" /\ pc'[w] = "failed" /\ attempt[w] = 1
           /\ ~ RevIsCurrent(w))
          => Stored(w).rev >= base[w] + 2]_vars

\* The protocol implements the ledger: every PUT enters one job for the first
\* time, and no PUT takes anything out.
Ledger == INSTANCE CanonicalLedger WITH
    entered <- [d \in Doc |-> {j \in Job : docs[d].content[j] > 0}],
    absorbed <- [d \in Doc |-> docs[d].edits]

ImplementsLedger == Ledger!LedgerSpec
=============================================================================
