------------------------------ MODULE JobDrafts ------------------------------
(***************************************************************************)
(* The review gate in front of the queue.  Field captures are turned into  *)
(* job_draft documents of the field-captures database; an operator edits,  *)
(* approves or rejects each one; the draft watcher authors every approved  *)
(* draft as a document of btq_queue and marks the draft.  Four kinds of    *)
(* process share the documents, each through CouchDB's compare-and-set on  *)
(* _rev:                                                                   *)
(*   emitters   collect_job_drafts, run by the capture pipeline watcher    *)
(*              and by the transcription pipeline over a shared directory; *)
(*   reviewers  apply_job_draft_review and edit_job_draft_payload, run by  *)
(*              the dashboard and by the capture server's inbox;           *)
(*   watchers   job_draft_queue_watcher, the agent and any manual --once.  *)
(***************************************************************************)
EXTENDS Naturals, FiniteSets

CONSTANTS
  Drafts,         \* the draft ids the captures give rise to
  JobTypes,       \* job types a draft or an approval route can name
  DraftType,      \* the job type each draft id was emitted with
  AutoApproved,   \* drafts born approved (supply levels, see _initial_review_status)
  Payloads,       \* payload contents
  ValidPayloads,  \* those that pass queue_spec.validate_job
  Emitters, Reviewers, Watchers,
  None,           \* no route, no queue document, no draft in hand
  MaxEdits,       \* bound: payload edits
  MaxFaults       \* bound: operations cut short by a crash or a failed call

ASSUME DraftAssumption ==
  /\ DraftType \in [Drafts -> JobTypes]
  /\ AutoApproved \subseteq Drafts
  /\ ValidPayloads \subseteq Payloads
  /\ MaxEdits \in Nat /\ MaxFaults \in Nat

ASSUME NoneAssumption ==
  /\ None \notin Drafts \cup JobTypes \cup [base : Payloads, routed : BOOLEAN]
  /\ None \notin {"no_action", "approve", "reject", "edit"}
  /\ JobTypes \cap {"no_action", "approve", "reject", "edit"} = {}

VARIABLES
  docs,       \* the job_draft documents
  queue,      \* btq_queue, by the deterministic id <job_type>.<draft_id>
  em,         \* what each emitter is doing
  rv,         \* what each reviewer is doing
  wt,         \* what each watcher is doing
  edits, faults,
  approvals,  \* history: every <<draft, job type, content>> a document carried while approved
  clobbered   \* history: the drafts whose existing document an emission has rewritten

vars == <<docs, queue, em, rv, wt, edits, faults, approvals, clobbered>>

-----------------------------------------------------------------------------
(***************************************************************************)
(* Documents.  A routed payload is rebuilt from the draft by               *)
(* build_approval_route_job, which validates what it built; any other      *)
(* payload is valid when validate_job says so.  Revision 0 is "no such     *)
(* document".                                                              *)
(***************************************************************************)
Content == [base : Payloads, routed : BOOLEAN]
Contents == Content \cup {None}
Plain(p) == [base |-> p, routed |-> FALSE]
Valid(c) == c.routed \/ c.base \in ValidPayloads

Routes == JobTypes \cup {"no_action"}
Doc == [rev : Nat, status : {"absent", "pending_approval", "approved", "rejected"},
        job_type : JobTypes, content : Contents, route : Routes \cup {None},
        materialized : BOOLEAN, error : BOOLEAN]

Absent(d) == docs[d].rev = 0
Pending(d) == docs[d].status = "pending_approval"
Approved(d) == docs[d].status = "approved"
Decided(d) == docs[d].status \in {"approved", "rejected"}

\* What _put_document leaves: a new revision of the document; an approved one is recorded.
Write(d, doc) ==
  /\ docs' = [docs EXCEPT ![d] = [doc EXCEPT !.rev = docs[d].rev + 1]]
  /\ approvals' = IF doc.status = "approved"
                    THEN approvals \cup {<<d, doc.job_type, doc.content>>}
                    ELSE approvals

-----------------------------------------------------------------------------
(***************************************************************************)
(* Emitters.  The existence check and the upsert are separate requests,    *)
(* and the upsert looks for a revision again and, once, after a conflict.  *)
(***************************************************************************)
EmitterIdle == [pc |-> "idle", draft |-> None, base |-> None, rev |-> 0, attempt |-> 0]

\* collect_job_drafts: the draft is built from the artifact, and is not there yet.
EmissionStart(e) ==
  /\ em[e].pc = "idle"
  /\ \E d \in Drafts, p \in Payloads :
       /\ Absent(d)
       /\ em' = [em EXCEPT ![e] = [pc |-> "get", draft |-> d, base |-> p, rev |-> 0, attempt |-> 1]]
  /\ UNCHANGED <<docs, queue, rv, wt, edits, faults, approvals, clobbered>>

\* upsert_job_draft: read the current revision, if any.
UpsertGet(e) ==
  /\ em[e].pc = "get"
  /\ em' = [em EXCEPT ![e].pc = "put", ![e].rev = docs[em[e].draft].rev]
  /\ UNCHANGED <<docs, queue, rv, wt, edits, faults, approvals, clobbered>>

\* job_drafts_from_semantic and build_job_draft_document: the whole document, as new.
FreshDraft(d, p) ==
  [rev |-> 0, status |-> IF d \in AutoApproved THEN "approved" ELSE "pending_approval",
   job_type |-> DraftType[d], content |-> Plain(p), route |-> None,
   materialized |-> FALSE, error |-> FALSE]

UpsertPut(e) ==
  LET d == em[e].draft IN
  /\ em[e].pc = "put"
  /\ em[e].rev = docs[d].rev
  /\ Write(d, FreshDraft(d, em[e].base))
  /\ clobbered' = IF Absent(d) THEN clobbered ELSE clobbered \cup {d}
  /\ em' = [em EXCEPT ![e] = EmitterIdle]
  /\ UNCHANGED <<queue, rv, wt, edits, faults>>

\* Mutant of UpsertConflict: the retry has no limit.
UpsertConflictForever(e) ==
  /\ em[e].pc = "put"
  /\ em[e].rev # docs[em[e].draft].rev
  /\ em' = [em EXCEPT ![e].pc = "get", ![e].attempt = @ + 1]
  /\ UNCHANGED <<docs, queue, rv, wt, edits, faults, approvals, clobbered>>

\* A 409: once more from the read, then the emission fails.
UpsertConflict(e) ==
  /\ em[e].pc = "put"
  /\ em[e].rev # docs[em[e].draft].rev
  /\ em' = [em EXCEPT ![e] = IF em[e].attempt < 2
                               THEN [pc |-> "get", draft |-> em[e].draft, base |-> em[e].base,
                                     rev |-> 0, attempt |-> 2]
                               ELSE EmitterIdle]
  /\ UNCHANGED <<docs, queue, rv, wt, edits, faults, approvals, clobbered>>

-----------------------------------------------------------------------------
(***************************************************************************)
(* Reviewers.  Both operations read the draft twice: once to decide and to *)
(* build what will be written, once in the writer, whose PUT is conditional *)
(* on the revision of the second read.  tok says whether the form carried  *)
(* the revision that was displayed (expected_rev); the inbox always does,  *)
(* and only the inbox offers routes.                                       *)
(***************************************************************************)
ReviewerIdle == [pc |-> "idle", draft |-> None, act |-> None, tok |-> FALSE,
                 shown |-> None, shown_rev |-> 0, content |-> None, rev |-> 0]

\* The request, with what the operator's screen shows.
Submission(d, act, tok, c) ==
  [pc |-> "read", draft |-> d, act |-> act, tok |-> tok,
   shown |-> docs[d].content, shown_rev |-> docs[d].rev, content |-> c, rev |-> 0]

\* The operator looks at a pending draft and submits an action on it.
ReviewSubmit(r) ==
  /\ rv[r].pc = "idle"
  /\ \E d \in Drafts, act \in Routes \cup {"approve", "reject"}, tok \in BOOLEAN :
       /\ Pending(d)
       /\ act \in Routes => tok
       /\ rv' = [rv EXCEPT ![r] = Submission(d, act, tok, None)]
  /\ UNCHANGED <<docs, queue, em, wt, edits, faults, approvals, clobbered>>

\* edit_job_draft_payload refuses a payload that fails validation.
EditSubmit(r) ==
  /\ rv[r].pc = "idle"
  /\ edits < MaxEdits
  /\ \E d \in Drafts, p \in ValidPayloads, tok \in BOOLEAN :
       /\ Pending(d)
       /\ rv' = [rv EXCEPT ![r] = Submission(d, "edit", tok, Plain(p))]
  /\ edits' = edits + 1
  /\ UNCHANGED <<docs, queue, em, wt, faults, approvals, clobbered>>

\* Mutants of StillOpen: the status is not looked at; the displayed revision is not looked at.
StillOpenUnlessMoved(o) == o.tok => docs[o.draft].rev = o.shown_rev
StillOpenIfPending(o) == Pending(o.draft)

\* The checks both reads make on the document.
StillOpen(o) == (o.tok => docs[o.draft].rev = o.shown_rev) /\ Pending(o.draft)

\* A route's payload is built from the draft as first read.
Built(o) == IF o.act \in JobTypes
              THEN [base |-> docs[o.draft].content.base, routed |-> TRUE]
              ELSE o.content

\* The first read: a changed or decided draft, or one that fails validation, is answered at once.
ReviewRead(r) ==
  LET o == rv[r]
      doc == docs[o.draft]
  IN
  /\ o.pc = "read"
  /\ rv' = [rv EXCEPT ![r] =
              IF StillOpen(o) /\ (o.act = "approve" => Valid(doc.content))
                THEN [o EXCEPT !.pc = "reread", !.content = Built(o)]
                ELSE ReviewerIdle]
  /\ UNCHANGED <<docs, queue, em, wt, edits, faults, approvals, clobbered>>

\* The writer's own read: AlreadyDecided, or the revision the PUT will name.
ReviewReread(r) ==
  LET o == rv[r] IN
  /\ o.pc = "reread"
  /\ rv' = [rv EXCEPT ![r] = IF StillOpen(o)
                               THEN [o EXCEPT !.pc = "put", !.rev = docs[o.draft].rev]
                               ELSE ReviewerIdle]
  /\ UNCHANGED <<docs, queue, em, wt, edits, faults, approvals, clobbered>>

\* The document each action leaves.
Reviewed(o, doc) ==
  CASE o.act = "edit" -> [doc EXCEPT !.content = o.content]
    [] o.act = "reject" -> [doc EXCEPT !.status = "rejected"]
    [] o.act = "approve" -> [doc EXCEPT !.status = "approved"]
    [] o.act = "no_action" -> [doc EXCEPT !.status = "approved", !.route = "no_action"]
    [] OTHER -> [doc EXCEPT !.status = "approved", !.route = o.act,
                            !.job_type = o.act, !.content = o.content]

\* The PUT; a 409 is AlreadyDecided.
ReviewPut(r) ==
  LET o == rv[r] IN
  /\ o.pc = "put"
  /\ IF o.rev = docs[o.draft].rev
       THEN Write(o.draft, Reviewed(o, docs[o.draft]))
       ELSE UNCHANGED <<docs, approvals>>
  /\ rv' = [rv EXCEPT ![r] = ReviewerIdle]
  /\ UNCHANGED <<queue, em, wt, edits, faults, clobbered>>

-----------------------------------------------------------------------------
(***************************************************************************)
(* Watchers.  A pass works through the documents one _find returned, each  *)
(* as it was then: enqueue it (a 409 is success), then mark it provided    *)
(* its revision has not moved.                                             *)
(***************************************************************************)
NextOf(batch) == [pc |-> IF batch = {} THEN "idle" ELSE "next", batch |-> batch,
                  draft |-> None, doc |-> None, mark |-> None]

\* Mutant of Findable: the selector forgets review_status.
FindableUnmarked(d) == ~Absent(d) /\ ~docs[d].materialized /\ ~docs[d].error

\* find_approved_unmaterialized_drafts
Findable(d) == Approved(d) /\ ~docs[d].materialized /\ ~docs[d].error

PassStart(w) ==
  /\ wt[w].pc = "idle"
  /\ \E d \in Drafts : Findable(d)
  /\ wt' = [wt EXCEPT ![w] = NextOf({<<d, docs[d]>> : d \in {x \in Drafts : Findable(x)}})]
  /\ UNCHANGED <<docs, queue, em, rv, edits, faults, approvals, clobbered>>

MarkFor(doc) ==
  IF doc.route = "no_action" THEN "no_action"
  ELSE IF Valid(doc.content) THEN "materialized" ELSE "error"

\* Mutant of ProcessOne: a 409 from the enqueue is a failure, and the draft is left unmarked.
ProcessOneOnce(w) ==
  /\ wt[w].pc = "next"
  /\ \E b \in wt[w].batch :
       LET k == <<b[1], b[2].job_type>>
           rest == wt[w].batch \ {b}
       IN
       IF MarkFor(b[2]) = "materialized" /\ queue[k] # None
         THEN /\ wt' = [wt EXCEPT ![w] = NextOf(rest)]
              /\ UNCHANGED queue
         ELSE /\ wt' = [wt EXCEPT ![w] = [pc |-> "mark", batch |-> rest, draft |-> b[1],
                                           doc |-> b[2], mark |-> MarkFor(b[2])]]
              /\ queue' = IF MarkFor(b[2]) = "materialized"
                            THEN [queue EXCEPT ![k] = b[2].content]
                            ELSE queue
  /\ UNCHANGED <<docs, em, rv, edits, faults, approvals, clobbered>>

\* process_one up to the mark: materialize_draft_job enqueues under the draft's own id.
ProcessOne(w) ==
  /\ wt[w].pc = "next"
  /\ \E b \in wt[w].batch :
       LET k == <<b[1], b[2].job_type>> IN
       /\ wt' = [wt EXCEPT ![w] = [pc |-> "mark", batch |-> wt[w].batch \ {b},
                                     draft |-> b[1], doc |-> b[2], mark |-> MarkFor(b[2])]]
       /\ queue' = IF MarkFor(b[2]) = "materialized" /\ queue[k] = None
                     THEN [queue EXCEPT ![k] = b[2].content]
                     ELSE queue
  /\ UNCHANGED <<docs, em, rv, edits, faults, approvals, clobbered>>

\* no_action drafts are handled outside process_one's fail-soft block: an error there ends
\* the watcher, and with it the pass.
RestAfterError(o) == IF o.mark = "no_action" THEN {} ELSE o.batch

\* AlreadyDecided is an error unless the draft turns out to be materialized.
RestAfterConflict(o) == IF docs[o.draft].materialized THEN o.batch ELSE RestAfterError(o)

\* The marking writers' read: AlreadyDecided when the draft has moved on.
MarkRead(w) ==
  LET o == wt[w] IN
  /\ o.pc = "mark"
  /\ wt' = [wt EXCEPT ![w] =
              IF docs[o.draft].rev = o.doc.rev /\ (docs[o.draft].materialized => o.mark = "error")
                THEN [o EXCEPT !.pc = "put"]
                ELSE NextOf(RestAfterConflict(o))]
  /\ UNCHANGED <<docs, queue, em, rv, edits, faults, approvals, clobbered>>

Marked(doc, mark) ==
  IF mark = "error" THEN [doc EXCEPT !.error = TRUE] ELSE [doc EXCEPT !.materialized = TRUE]

\* Mutant of MarkPut: the mark is written on whatever revision is there.
MarkPutBlind(w) ==
  LET o == wt[w] IN
  /\ o.pc = "put"
  /\ Write(o.draft, Marked(docs[o.draft], o.mark))
  /\ wt' = [wt EXCEPT ![w] = NextOf(o.batch)]
  /\ UNCHANGED <<queue, em, rv, edits, faults, clobbered>>

\* The mark's PUT; a 409 leaves the draft to the next pass.
MarkPut(w) ==
  LET o == wt[w] IN
  /\ o.pc = "put"
  /\ \/ /\ docs[o.draft].rev = o.doc.rev
        /\ Write(o.draft, Marked(docs[o.draft], o.mark))
        /\ wt' = [wt EXCEPT ![w] = NextOf(o.batch)]
     \/ /\ docs[o.draft].rev # o.doc.rev
        /\ wt' = [wt EXCEPT ![w] = NextOf(RestAfterConflict(o))]
        /\ UNCHANGED <<docs, approvals>>
  /\ UNCHANGED <<queue, em, rv, edits, faults, clobbered>>

-----------------------------------------------------------------------------
(***************************************************************************)
(* Failures.  A process can die, or see a call fail or its answer lost, at *)
(* any point: it forgets what it was doing, and what it wrote stays.  A    *)
(* watcher whose call fails goes on with the rest of its batch, except for *)
(* a no_action draft.                                                      *)
(***************************************************************************)
Crash ==
  /\ faults < MaxFaults
  /\ \/ \E e \in Emitters : em[e].pc # "idle" /\ em' = [em EXCEPT ![e] = EmitterIdle] /\ UNCHANGED <<rv, wt>>
     \/ \E r \in Reviewers : rv[r].pc # "idle" /\ rv' = [rv EXCEPT ![r] = ReviewerIdle] /\ UNCHANGED <<em, wt>>
     \/ \E w \in Watchers : wt[w].pc # "idle" /\ wt' = [wt EXCEPT ![w] = NextOf({})] /\ UNCHANGED <<em, rv>>
  /\ faults' = faults + 1
  /\ UNCHANGED <<docs, queue, edits, approvals, clobbered>>

\* One draft of a pass fails: at the enqueue (fail soft), or at the mark after it.
ProcessFails(w) ==
  /\ faults < MaxFaults
  /\ \/ /\ wt[w].pc = "next"
        /\ \E b \in wt[w].batch :
             /\ MarkFor(b[2]) = "materialized"
             /\ wt' = [wt EXCEPT ![w] = NextOf(wt[w].batch \ {b})]
     \/ /\ wt[w].pc \in {"mark", "put"}
        /\ wt' = [wt EXCEPT ![w] = NextOf(RestAfterError(wt[w]))]
  /\ faults' = faults + 1
  /\ UNCHANGED <<docs, queue, em, rv, edits, approvals, clobbered>>

-----------------------------------------------------------------------------
NoDoc(d) == [rev |-> 0, status |-> "absent", job_type |-> DraftType[d], content |-> None,
             route |-> None, materialized |-> FALSE, error |-> FALSE]

Init ==
  /\ docs = [d \in Drafts |-> NoDoc(d)]
  /\ queue = [k \in Drafts \X JobTypes |-> None]
  /\ em = [e \in Emitters |-> EmitterIdle]
  /\ rv = [r \in Reviewers |-> ReviewerIdle]
  /\ wt = [w \in Watchers |-> NextOf({})]
  /\ edits = 0 /\ faults = 0
  /\ approvals = {} /\ clobbered = {}

EmitterStep(e) == EmissionStart(e) \/ UpsertGet(e) \/ UpsertPut(e) \/ UpsertConflict(e)

ReviewerStep(r) ==
  ReviewSubmit(r) \/ EditSubmit(r) \/ ReviewRead(r) \/ ReviewReread(r) \/ ReviewPut(r)

WatcherStep(w) == PassStart(w) \/ ProcessOne(w) \/ MarkRead(w) \/ MarkPut(w)

Next ==
  \/ \E e \in Emitters : EmitterStep(e)
  \/ \E r \in Reviewers : ReviewerStep(r)
  \/ \E w \in Watchers : WatcherStep(w) \/ ProcessFails(w)
  \/ Crash

\* Every watcher polls for ever (run), so its steps are taken; nobody has to review or to emit.
Fairness == \A w \in Watchers : WF_vars(WatcherStep(w))

Spec == Init /\ [][Next]_vars /\ Fairness

-----------------------------------------------------------------------------
DocsType ==
  /\ docs \in [Drafts -> Doc]
  /\ queue \in [Drafts \X JobTypes -> Contents]
  /\ approvals \subseteq Drafts \X JobTypes \X Content
  /\ clobbered \subseteq Drafts

EmitterType ==
  em \in [Emitters -> [pc : {"idle", "get", "put"}, draft : Drafts \cup {None},
                       base : Payloads \cup {None}, rev : Nat, attempt : 0 .. 2]]

ReviewerType ==
  rv \in [Reviewers -> [pc : {"idle", "read", "reread", "put"}, draft : Drafts \cup {None},
                        act : Routes \cup {"approve", "reject", "edit", None}, tok : BOOLEAN,
                        shown : Contents, shown_rev : Nat, content : Contents, rev : Nat]]

WatcherType ==
  wt \in [Watchers -> [pc : {"idle", "next", "mark", "put"}, batch : SUBSET (Drafts \X Doc),
                       draft : Drafts \cup {None}, doc : Doc \cup {None},
                       mark : {"no_action", "error", "materialized", None}]]

\* Types of every variable.
TypeOK ==
  /\ DocsType /\ EmitterType /\ ReviewerType /\ WatcherType
  /\ edits \in 0 .. MaxEdits /\ faults \in 0 .. MaxFaults

QueuedTypes(d) == {t \in JobTypes : queue[<<d, t>>] # None}

\* What reaches btq_queue was approved: each job materialized from a draft has the type and the
\* payload the draft carried at a moment it was approved, and passes queue_spec; in particular
\* a draft that was only ever rejected, or edited after its approval was refused, queues
\* nothing, however late a watcher works on the documents it found.
QueuedWasApproved ==
  \A d \in Drafts, t \in JobTypes :
    queue[<<d, t>>] # None => /\ <<d, t, queue[<<d, t>>]>> \in approvals
                              /\ Valid(queue[<<d, t>>])

\* A mark tells the truth: a draft marked materialized has its job in btq_queue, unless it was
\* approved as no_action; and the job has the draft's payload, unless an emission rewrote the
\* draft and the enqueue was answered 409 for the older job.
MarkedIsQueued ==
  \A d \in Drafts :
    docs[d].materialized =>
      \/ docs[d].route = "no_action"
      \/ /\ queue[<<d, docs[d].job_type>>] # None
         /\ d \notin clobbered => queue[<<d, docs[d].job_type>>] = docs[d].content

\* One decision, at most one job: a draft gives two jobs, or a job after it was settled as
\* no_action, only if an emission rewrote it, whatever reviewers and watchers do concurrently.
OneJobPerDraft ==
  \A d \in Drafts \ clobbered :
    /\ Cardinality(QueuedTypes(d)) <= 1
    /\ docs[d].route = "no_action" \/ docs[d].status = "rejected" => QueuedTypes(d) = {}

\* A decision, once written, is never taken back or replaced, and the payload it was taken on
\* is never edited, except by an emission that rewrites the draft.
DecisionIsFinal ==
  [][\A d \in Drafts :
       Decided(d) => \/ d \in clobbered'
                     \/ /\ docs'[d].status = docs[d].status
                        /\ docs'[d].content = docs[d].content
                        /\ docs'[d].job_type = docs[d].job_type]_vars

\* An operator who submits the displayed revision decides what was displayed: the payload
\* approved is the one on the screen, or the one the route builds from it.
ShownIsDecided ==
  [][\A r \in Reviewers :
       LET o == rv[r] IN
       o.pc = "put" /\ o.tok /\ rv'[r].pc = "idle" /\ docs' # docs /\ o.act # "edit" =>
         /\ docs[o.draft].content = o.shown
         /\ docs'[o.draft].content \in {o.shown, [base |-> o.shown.base, routed |-> TRUE]}]_vars

\* No approval is forgotten: an approved draft is in the end marked, as materialized, as
\* no_action or as an error, or an emission takes the approval back; a stale batch, a second
\* watcher or a failed call only delays it.
ApprovalSettles ==
  \A d \in Drafts : Findable(d) ~> ~Findable(d)

\* What the test double of the emission says of the code: it "preserves an existing review_status
\* on re-emit ONLY because the real collect_job_drafts exists->skip guard never re-writes an
\* existing draft" (test_helpers/couchdb_job_draft_double.py): a decided draft stays decided.
ReviewStatusKept ==
  [][\A d \in Drafts : Decided(d) => docs'[d].status = docs[d].status]_vars
=============================================================================
