--------------------------- MODULE JobDrafts_proofs ---------------------------
(***************************************************************************)
(* Proofs about JobDrafts, for any sets of drafts, payloads, job types,     *)
(* emitters, reviewers and watchers, and any numbers of edits and faults.   *)
(*                                                                          *)
(* Everything a process remembers of a draft is tied to a revision.         *)
(* DocsProgress says what any step may do to the documents; it keeps what   *)
(* a process remembers true (the lemmas Snapshot-, Review- and QueuedKept), *)
(* so an action has only its own process and its own job to account for.    *)
(***************************************************************************)
EXTENDS JobDrafts, FiniteSetTheorems, TLAPS

\* The parts of a document a decision fixes.
SameDecision(x, y) ==
  x.status = y.status /\ x.job_type = y.job_type /\ x.content = y.content /\ x.route = y.route

\* What a step may do to the documents and to the queue.
DocsProgress ==
  /\ \A d \in Drafts :
       /\ docs[d].rev <= docs'[d].rev
       /\ docs'[d].rev = docs[d].rev => docs'[d] = docs[d]
       /\ d \notin clobbered' /\ Decided(d) => SameDecision(docs'[d], docs[d])
  /\ approvals \subseteq approvals'
  /\ clobbered \subseteq clobbered'
  /\ \A k \in Drafts \X JobTypes : queue[k] # None => queue'[k] = queue[k]

\* A document is absent or has a content; an approved one is recorded; a mark is true.
DocOK(d) ==
  /\ docs[d].rev = 0 <=> docs[d].status = "absent"
  /\ docs[d].status # "absent" => docs[d].content \in Content
  /\ Approved(d) => <<d, docs[d].job_type, docs[d].content>> \in approvals
  /\ docs[d].materialized =>
       Approved(d) /\ (docs[d].route = "no_action" \/ queue[<<d, docs[d].job_type>>] # None)

\* A job was approved; unless the draft was rewritten, it is the job of the draft as it stands.
QueuedOK(d, t) ==
  queue[<<d, t>>] # None =>
    /\ <<d, t, queue[<<d, t>>]>> \in approvals
    /\ Valid(queue[<<d, t>>])
    /\ d \notin clobbered => /\ Approved(d)
                             /\ docs[d].job_type = t
                             /\ docs[d].content = queue[<<d, t>>]
                             /\ docs[d].route # "no_action"

\* What a watcher found: an approved draft, still there as found if its revision is.
Snapshot(d, doc) ==
  /\ doc.status = "approved"
  /\ doc.content \in Content
  /\ <<d, doc.job_type, doc.content>> \in approvals
  /\ doc.rev <= docs[d].rev
  /\ doc.rev = docs[d].rev => docs[d] = doc
  /\ d \notin clobbered => SameDecision(docs[d], doc)

EmitterOK(e) ==
  em[e].pc # "idle" => em[e].draft \in Drafts /\ em[e].base \in Payloads

\* What a reviewer saw and is about to write.
ReviewOK(r) ==
  LET o == rv[r] IN
  o.pc # "idle" =>
    /\ o.draft \in Drafts
    /\ o.act # None
    /\ o.act \in Routes => o.tok
    /\ o.act = "edit" => o.content \in Content
    /\ o.shown \in Content
    /\ o.shown_rev <= docs[o.draft].rev
    /\ o.shown_rev = docs[o.draft].rev => docs[o.draft].content = o.shown
    /\ o.pc # "read" /\ o.act \in JobTypes => o.content = [base |-> o.shown.base, routed |-> TRUE]
    /\ o.pc = "put" => /\ o.rev <= docs[o.draft].rev
                       /\ o.rev = docs[o.draft].rev => Pending(o.draft)
                       /\ o.tok => o.rev = o.shown_rev

\* A watcher between the enqueue and the mark.
WatcherOK(w) ==
  /\ \A b \in wt[w].batch : Snapshot(b[1], b[2])
  /\ wt[w].pc \in {"mark", "put"} =>
       /\ wt[w].draft \in Drafts
       /\ wt[w].doc \in Doc
       /\ Snapshot(wt[w].draft, wt[w].doc)
       /\ wt[w].mark = MarkFor(wt[w].doc)
       /\ wt[w].mark = "materialized" => queue[<<wt[w].draft, wt[w].doc.job_type>>] # None

IInv ==
  /\ TypeOK
  /\ \A d \in Drafts : DocOK(d)
  /\ \A d \in Drafts, t \in JobTypes : QueuedOK(d, t)
  /\ \A e \in Emitters : EmitterOK(e)
  /\ \A r \in Reviewers : ReviewOK(r)
  /\ \A w \in Watchers : WatcherOK(w)

-----------------------------------------------------------------------------
(***************************************************************************)
(* What the operators the actions share do                                  *)
(***************************************************************************)
LEMMA WriteEffect ==
  ASSUME DocsType, NEW d \in Drafts, NEW doc \in Doc, Write(d, doc),
         doc.status = "approved" => doc.content \in Content
  PROVE  /\ docs' \in [Drafts -> Doc]
         /\ approvals' \subseteq Drafts \X JobTypes \X Content
         /\ docs'[d] = [doc EXCEPT !.rev = docs[d].rev + 1]
         /\ docs[d].rev \in Nat /\ docs'[d].rev = docs[d].rev + 1
         /\ SameDecision(docs'[d], doc)
         /\ docs'[d].materialized = doc.materialized
         /\ \A x \in Drafts \ {d} : docs'[x] = docs[x]
         /\ approvals \subseteq approvals'
         /\ doc.status = "approved" => <<d, doc.job_type, doc.content>> \in approvals'
<1>1. docs[d] \in Doc /\ docs[d].rev \in Nat
  BY DEF DocsType, Doc
<1>2. [doc EXCEPT !.rev = docs[d].rev + 1] \in Doc
  BY <1>1 DEF Doc
<1>3. docs' = [docs EXCEPT ![d] = [doc EXCEPT !.rev = docs[d].rev + 1]]
  BY DEF Write
<1>4. /\ docs' \in [Drafts -> Doc]
      /\ docs'[d] = [doc EXCEPT !.rev = docs[d].rev + 1]
      /\ \A x \in Drafts \ {d} : docs'[x] = docs[x]
  BY <1>2, <1>3 DEF DocsType
<1>5. /\ docs'[d].rev = docs[d].rev + 1
      /\ SameDecision(docs'[d], doc)
      /\ docs'[d].materialized = doc.materialized
  BY <1>4 DEF SameDecision, Doc
<1>6. doc.job_type \in JobTypes
  BY DEF Doc
<1>7. /\ approvals' \subseteq Drafts \X JobTypes \X Content
      /\ approvals \subseteq approvals'
      /\ doc.status = "approved" => <<d, doc.job_type, doc.content>> \in approvals'
  BY <1>6 DEF Write, DocsType
<1> QED BY <1>1, <1>4, <1>5, <1>7

LEMMA FreshType ==
  ASSUME NEW d \in Drafts, NEW p \in Payloads
  PROVE  /\ FreshDraft(d, p) \in Doc
         /\ FreshDraft(d, p).content \in Content
         /\ FreshDraft(d, p).status # "absent"
         /\ FreshDraft(d, p).materialized = FALSE
BY DraftAssumption DEF FreshDraft, Doc, Contents, Content, Plain

\* A review leaves a document; only an edit and a route bring a payload of their own.
LEMMA ReviewedType ==
  ASSUME NEW o, NEW doc \in Doc, doc.content \in Content, doc.status # "absent",
         o.act \in Routes \cup {"approve", "reject", "edit"},
         o.act \in JobTypes \cup {"edit"} => o.content \in Content
  PROVE  /\ Reviewed(o, doc) \in Doc
         /\ Reviewed(o, doc).content \in Content
         /\ Reviewed(o, doc).status # "absent"
         /\ Reviewed(o, doc).materialized = doc.materialized
<1>1. CASE o.act = "edit"
  <2>1. Reviewed(o, doc) = [doc EXCEPT !.content = o.content]
    BY <1>1 DEF Reviewed
  <2> QED BY <1>1, <2>1 DEF Doc, Contents
<1>2. CASE o.act \in {"approve", "reject", "no_action"}
  <2>1. Reviewed(o, doc) \in {[doc EXCEPT !.status = "approved"], [doc EXCEPT !.status = "rejected"],
                              [doc EXCEPT !.status = "approved", !.route = "no_action"]}
    BY <1>2 DEF Reviewed
  <2> QED BY <2>1 DEF Doc, Contents, Routes
<1>3. CASE o.act \in JobTypes
  <2>1. o.act \notin {"edit", "approve", "reject", "no_action"}
    BY <1>3, NoneAssumption
  <2>2. Reviewed(o, doc) = [doc EXCEPT !.status = "approved", !.route = o.act,
                                       !.job_type = o.act, !.content = o.content]
    BY <2>1 DEF Reviewed
  <2> QED BY <1>3, <2>2 DEF Doc, Contents, Routes
<1> QED BY <1>1, <1>2, <1>3 DEF Routes

LEMMA MarkedType ==
  ASSUME NEW doc \in Doc, NEW mark
  PROVE  Marked(doc, mark) \in Doc /\ SameDecision(Marked(doc, mark), doc)
BY DEF Marked, Doc, SameDecision

LEMMA ReviewKept ==
  ASSUME TypeOK, DocsType', DocsProgress, NEW r \in Reviewers, ReviewOK(r), rv'[r] = rv[r]
  PROVE  ReviewOK(r)'
<1> DEFINE o == rv[r]
           d == rv[r].draft
<1>1. SUFFICES ASSUME o.pc # "idle"
               PROVE  ReviewOK(r)'
  BY DEF ReviewOK
<1>2. /\ d \in Drafts /\ o.act # None
      /\ o.act \in Routes => o.tok
      /\ o.act = "edit" => o.content \in Content
      /\ o.shown \in Content
      /\ o.pc # "read" /\ o.act \in JobTypes => o.content = [base |-> o.shown.base, routed |-> TRUE]
      /\ o.pc = "put" /\ o.tok => o.rev = o.shown_rev
  BY <1>1 DEF ReviewOK
<1>3. /\ docs[d].rev \in Nat /\ docs'[d].rev \in Nat
      /\ docs[d].rev <= docs'[d].rev
      /\ docs'[d].rev = docs[d].rev => docs'[d] = docs[d]
  BY <1>2 DEF TypeOK, DocsType, DocsProgress, Doc
<1>4. o.shown_rev \in Nat /\ o.rev \in Nat
  BY DEF TypeOK, ReviewerType
<1>5. /\ o.shown_rev <= docs[d].rev
      /\ o.shown_rev = docs[d].rev => docs[d].content = o.shown
      /\ o.pc = "put" => o.rev <= docs[d].rev /\ (o.rev = docs[d].rev => docs[d].status = "pending_approval")
  BY <1>1 DEF ReviewOK, Pending
<1>6. /\ o.shown_rev <= docs'[d].rev
      /\ o.shown_rev = docs'[d].rev => docs'[d].content = o.shown
      /\ o.pc = "put" => o.rev <= docs'[d].rev /\ (o.rev = docs'[d].rev => docs'[d].status = "pending_approval")
  BY <1>3, <1>4, <1>5
<1> QED BY <1>2, <1>6 DEF ReviewOK, Pending

LEMMA SnapshotKept ==
  ASSUME DocsType, DocsType', DocsProgress, NEW d \in Drafts, NEW doc \in Doc, Snapshot(d, doc)
  PROVE  Snapshot(d, doc)'
BY DEF DocsType, DocsProgress, Snapshot, Doc, SameDecision, Decided

LEMMA QueuedKept ==
  ASSUME DocsType, DocsType', DocsProgress, NEW d \in Drafts, NEW t \in JobTypes,
         QueuedOK(d, t), queue'[<<d, t>>] = queue[<<d, t>>]
  PROVE  QueuedOK(d, t)'
BY DEF DocsType, DocsProgress, QueuedOK, SameDecision, Decided, Approved, Valid

-----------------------------------------------------------------------------
(***************************************************************************)
(* Types, and what every step may do to the documents                       *)
(***************************************************************************)
\* The writing step of an emitter, of a reviewer and of a watcher.
LEMMA UpsertWrites ==
  ASSUME IInv, NEW e \in Emitters, UpsertPut(e)
  PROVE  /\ em[e].draft \in Drafts
         /\ FreshDraft(em[e].draft, em[e].base) \in Doc
         /\ FreshDraft(em[e].draft, em[e].base).content \in Content
         /\ FreshDraft(em[e].draft, em[e].base).status # "absent"
         /\ FreshDraft(em[e].draft, em[e].base).materialized = FALSE
<1>1. em[e].draft \in Drafts /\ em[e].base \in Payloads
  BY DEF IInv, EmitterOK, UpsertPut
<1> QED BY <1>1, FreshType

LEMMA ReviewWrites ==
  ASSUME IInv, NEW r \in Reviewers, ReviewPut(r), rv[r].rev = docs[rv[r].draft].rev
  PROVE  /\ rv[r].draft \in Drafts
         /\ Pending(rv[r].draft)
         /\ docs[rv[r].draft].content \in Content
         /\ Reviewed(rv[r], docs[rv[r].draft]) \in Doc
         /\ Reviewed(rv[r], docs[rv[r].draft]).content \in Content
         /\ Reviewed(rv[r], docs[rv[r].draft]).status # "absent"
         /\ Reviewed(rv[r], docs[rv[r].draft]).materialized = docs[rv[r].draft].materialized
<1> DEFINE o == rv[r]
           d == rv[r].draft
<1>1. o.pc = "put" /\ ReviewOK(r)
  BY DEF IInv, ReviewPut
<1>2. /\ d \in Drafts /\ Pending(d) /\ o.act # None
      /\ o.act = "edit" => o.content \in Content
      /\ o.shown \in Content
      /\ o.act \in JobTypes => o.content = [base |-> o.shown.base, routed |-> TRUE]
  BY <1>1 DEF ReviewOK
<1>3. docs[d] \in Doc /\ docs[d].status # "absent" /\ docs[d].content \in Content
  BY <1>2 DEF IInv, TypeOK, DocsType, DocOK, Pending
<1>4. o.act \in Routes \cup {"approve", "reject", "edit"}
  BY <1>2 DEF IInv, TypeOK, ReviewerType
<1>5. o.act \in JobTypes \cup {"edit"} => o.content \in Content
  <2>1. o.shown.base \in Payloads
    BY <1>2 DEF Content
  <2>2. [base |-> o.shown.base, routed |-> TRUE] \in Content
    BY <2>1 DEF Content
  <2> QED BY <1>2, <2>2
<1>6. /\ Reviewed(o, docs[d]) \in Doc
      /\ Reviewed(o, docs[d]).content \in Content
      /\ Reviewed(o, docs[d]).status # "absent"
      /\ Reviewed(o, docs[d]).materialized = docs[d].materialized
  BY <1>3, <1>4, <1>5, ReviewedType
<1> QED BY <1>2, <1>3, <1>6

LEMMA MarkWrites ==
  ASSUME IInv, NEW w \in Watchers, MarkPut(w), docs[wt[w].draft].rev = wt[w].doc.rev
  PROVE  /\ wt[w].draft \in Drafts
         /\ docs[wt[w].draft] = wt[w].doc
         /\ Approved(wt[w].draft)
         /\ docs[wt[w].draft].content \in Content
         /\ Marked(docs[wt[w].draft], wt[w].mark) \in Doc
         /\ SameDecision(Marked(docs[wt[w].draft], wt[w].mark), docs[wt[w].draft])
<1>1. wt[w].pc = "put" /\ WatcherOK(w)
  BY DEF IInv, MarkPut
<1>2. wt[w].draft \in Drafts /\ wt[w].doc \in Doc /\ Snapshot(wt[w].draft, wt[w].doc)
  BY <1>1 DEF WatcherOK
<1>3. docs[wt[w].draft] = wt[w].doc /\ Approved(wt[w].draft) /\ docs[wt[w].draft].content \in Content
  BY <1>2 DEF Snapshot, Approved
<1> QED BY <1>2, <1>3, MarkedType

LEMMA DocsTypeKept ==
  ASSUME IInv, [Next]_vars
  PROVE  DocsType'
<1> USE DEF IInv, TypeOK
<1>1. CASE UNCHANGED <<docs, queue, approvals, clobbered>>
  BY <1>1 DEF DocsType
<1>2. ASSUME NEW e \in Emitters, UpsertPut(e) PROVE DocsType'
  <2>1. /\ Write(em[e].draft, FreshDraft(em[e].draft, em[e].base))
        /\ clobbered' \subseteq clobbered \cup {em[e].draft} /\ queue' = queue
    BY <1>2 DEF UpsertPut
  <2> QED BY <1>2, <2>1, UpsertWrites, WriteEffect DEF DocsType
<1>3. ASSUME NEW r \in Reviewers, ReviewPut(r), rv[r].rev = docs[rv[r].draft].rev PROVE DocsType'
  <2>1. /\ Write(rv[r].draft, Reviewed(rv[r], docs[rv[r].draft]))
        /\ UNCHANGED <<queue, clobbered>>
    BY <1>3 DEF ReviewPut
  <2> QED BY <1>3, <2>1, ReviewWrites, WriteEffect DEF DocsType
<1>4. ASSUME NEW w \in Watchers, MarkPut(w), docs[wt[w].draft].rev = wt[w].doc.rev PROVE DocsType'
  <2>1. /\ Write(wt[w].draft, Marked(docs[wt[w].draft], wt[w].mark))
        /\ UNCHANGED <<queue, clobbered>>
    BY <1>4 DEF MarkPut
  <2> QED BY <1>4, <2>1, MarkWrites, WriteEffect DEF DocsType, SameDecision
<1>5. ASSUME NEW w \in Watchers, ProcessOne(w) PROVE DocsType'
  <2>1. PICK b \in wt[w].batch :
          queue' = IF MarkFor(b[2]) = "materialized" /\ queue[<<b[1], b[2].job_type>>] = None
                     THEN [queue EXCEPT ![<<b[1], b[2].job_type>>] = b[2].content] ELSE queue
    BY <1>5 DEF ProcessOne
  <2>2. b \in Drafts \X Doc /\ b[2].content \in Contents
    BY <2>1 DEF WatcherType, Doc
  <2> QED BY <1>5, <2>1, <2>2 DEF DocsType, ProcessOne
<1> QED
  <2>1. CASE UNCHANGED vars
    BY <1>1, <2>1 DEF vars
  <2>2. CASE \E e \in Emitters : EmitterStep(e)
    BY <1>1, <1>2, <2>2 DEF EmitterStep, EmissionStart, UpsertGet, UpsertConflict
  <2>3. CASE \E r \in Reviewers : ReviewerStep(r)
    BY <1>1, <1>3, <2>3 DEF ReviewerStep, ReviewSubmit, EditSubmit, ReviewRead, ReviewReread, ReviewPut
  <2>4. CASE \E w \in Watchers : WatcherStep(w) \/ ProcessFails(w)
    BY <1>1, <1>4, <1>5, <2>4 DEF WatcherStep, PassStart, MarkRead, MarkPut, ProcessFails
  <2>5. CASE Crash
    BY <1>1, <2>5 DEF Crash
  <2> QED BY <2>1, <2>2, <2>3, <2>4, <2>5 DEF Next

LEMMA UnchangedProgress ==
  ASSUME DocsType, UNCHANGED <<docs, queue, approvals, clobbered>>
  PROVE  DocsProgress
BY DEF DocsType, DocsProgress, SameDecision, Doc

\* A write by a step that takes no decision back.
LEMMA WriteProgress ==
  ASSUME DocsType, NEW d \in Drafts, NEW doc \in Doc, Write(d, doc),
         doc.status = "approved" => doc.content \in Content,
         clobbered \subseteq clobbered', queue' = queue,
         d \in clobbered' \/ ~Decided(d) \/ SameDecision(doc, docs[d])
  PROVE  DocsProgress
<1>1. /\ docs'[d].rev = docs[d].rev + 1 /\ docs[d].rev \in Nat
      /\ SameDecision(docs'[d], doc)
      /\ \A x \in Drafts \ {d} : docs'[x] = docs[x]
      /\ approvals \subseteq approvals'
  BY WriteEffect
<1>2. \A x \in Drafts : docs[x].rev \in Nat
  BY DEF DocsType, Doc
<1>3. ASSUME NEW x \in Drafts
      PROVE  /\ docs[x].rev <= docs'[x].rev
             /\ docs'[x].rev = docs[x].rev => docs'[x] = docs[x]
  BY <1>1, <1>2
<1>4. ASSUME NEW x \in Drafts, x \notin clobbered', Decided(x)
      PROVE  SameDecision(docs'[x], docs[x])
  BY <1>1, <1>4 DEF SameDecision
<1> QED BY <1>1, <1>3, <1>4 DEF DocsProgress

LEMMA StepProgress ==
  ASSUME IInv, [Next]_vars
  PROVE  DocsProgress
<1> USE DEF IInv, TypeOK
<1>1. CASE UNCHANGED <<docs, queue, approvals, clobbered>>
  BY <1>1, UnchangedProgress
<1>2. ASSUME NEW e \in Emitters, UpsertPut(e) PROVE DocsProgress
  <2>1. /\ Write(em[e].draft, FreshDraft(em[e].draft, em[e].base))
        /\ clobbered \subseteq clobbered' /\ queue' = queue
        /\ Absent(em[e].draft) \/ em[e].draft \in clobbered'
    BY <1>2 DEF UpsertPut
  <2>2. em[e].draft \in clobbered' \/ ~Decided(em[e].draft)
    BY <1>2, <2>1, UpsertWrites DEF DocOK, Absent, Decided
  <2> QED BY <1>2, <2>1, <2>2, UpsertWrites, WriteProgress
<1>3. ASSUME NEW r \in Reviewers, ReviewPut(r), rv[r].rev = docs[rv[r].draft].rev PROVE DocsProgress
  <2>1. /\ Write(rv[r].draft, Reviewed(rv[r], docs[rv[r].draft]))
        /\ UNCHANGED <<queue, clobbered>>
    BY <1>3 DEF ReviewPut
  <2>2. ~Decided(rv[r].draft)
    BY <1>3, ReviewWrites DEF Pending, Decided
  <2> QED BY <1>3, <2>1, <2>2, ReviewWrites, WriteProgress
<1>4. ASSUME NEW w \in Watchers, MarkPut(w), docs[wt[w].draft].rev = wt[w].doc.rev PROVE DocsProgress
  <2>1. /\ Write(wt[w].draft, Marked(docs[wt[w].draft], wt[w].mark))
        /\ UNCHANGED <<queue, clobbered>>
    BY <1>4 DEF MarkPut
  <2>2. Marked(docs[wt[w].draft], wt[w].mark).content \in Content
    BY <1>4, MarkWrites DEF SameDecision
  <2> QED BY <1>4, <2>1, <2>2, MarkWrites, WriteProgress
<1>5. ASSUME NEW w \in Watchers, ProcessOne(w) PROVE DocsProgress
  <2>1. PICK b \in wt[w].batch :
          queue' = IF MarkFor(b[2]) = "materialized" /\ queue[<<b[1], b[2].job_type>>] = None
                     THEN [queue EXCEPT ![<<b[1], b[2].job_type>>] = b[2].content] ELSE queue
    BY <1>5 DEF ProcessOne
  <2>2. \A k \in Drafts \X JobTypes : queue[k] # None => queue'[k] = queue[k]
    BY <2>1 DEF DocsType
  <2>3. UNCHANGED <<docs, approvals, clobbered>>
    BY <1>5 DEF ProcessOne
  <2> QED BY <2>2, <2>3 DEF DocsType, DocsProgress, SameDecision, Doc
<1> QED
  <2>1. CASE UNCHANGED vars
    BY <1>1, <2>1 DEF vars
  <2>2. CASE \E e \in Emitters : EmitterStep(e)
    BY <1>1, <1>2, <2>2 DEF EmitterStep, EmissionStart, UpsertGet, UpsertConflict
  <2>3. CASE \E r \in Reviewers : ReviewerStep(r)
    BY <1>1, <1>3, <2>3 DEF ReviewerStep, ReviewSubmit, EditSubmit, ReviewRead, ReviewReread, ReviewPut
  <2>4. CASE \E w \in Watchers : WatcherStep(w) \/ ProcessFails(w)
    BY <1>1, <1>4, <1>5, <2>4 DEF WatcherStep, PassStart, MarkRead, MarkPut, ProcessFails
  <2>5. CASE Crash
    BY <1>1, <2>5 DEF Crash
  <2> QED BY <2>1, <2>2, <2>3, <2>4, <2>5 DEF Next

-----------------------------------------------------------------------------
(***************************************************************************)
(* Types                                                                    *)
(***************************************************************************)
LEMMA EmitterKept ==
  ASSUME IInv, [Next]_vars
  PROVE  EmitterType' /\ \A e \in Emitters : EmitterOK(e)'
<1> USE DEF IInv, TypeOK, EmitterType
<1>1. CASE UNCHANGED em
  BY <1>1 DEF EmitterOK
<1>2. ASSUME NEW e \in Emitters, EmitterStep(e)
      PROVE  EmitterType' /\ \A x \in Emitters : EmitterOK(x)'
  <2>1. CASE EmissionStart(e)
    BY <2>1 DEF EmissionStart, EmitterOK
  <2>2. CASE UpsertGet(e)
    <3>1. em[e].draft \in Drafts
      BY <2>2 DEF UpsertGet, EmitterOK
    <3>2. docs[em[e].draft].rev \in Nat
      BY <3>1 DEF DocsType, Doc
    <3> QED BY <2>2, <3>2 DEF UpsertGet, EmitterOK
  <2>3. CASE UpsertPut(e)
    BY <2>3 DEF UpsertPut, EmitterOK, EmitterIdle
  <2>4. CASE UpsertConflict(e)
    <3> DEFINE n == IF em[e].attempt < 2
                    THEN [pc |-> "get", draft |-> em[e].draft, base |-> em[e].base,
                          rev |-> 0, attempt |-> 2]
                    ELSE EmitterIdle
    <3>1. em' = [em EXCEPT ![e] = n]
      BY <2>4 DEF UpsertConflict
    <3>2. em[e].draft \in Drafts /\ em[e].base \in Payloads
      BY <2>4 DEF UpsertConflict, EmitterOK
    <3>3. /\ n \in [pc : {"idle", "get", "put"}, draft : Drafts \cup {None},
                    base : Payloads \cup {None}, rev : Nat, attempt : 0 .. 2]
          /\ n.pc # "idle" => n.draft \in Drafts /\ n.base \in Payloads
      <4>1. CASE em[e].attempt < 2
        BY <3>2, <4>1
      <4>2. CASE ~(em[e].attempt < 2)
        BY <4>2 DEF EmitterIdle
      <4> QED BY <4>1, <4>2
    <3> HIDE DEF n
    <3> QED BY <3>1, <3>3 DEF EmitterOK
  <2> QED BY <1>2, <2>1, <2>2, <2>3, <2>4 DEF EmitterStep
<1>3. CASE Crash
  BY <1>3 DEF Crash, EmitterOK, EmitterIdle
<1> QED
  <2>1. CASE UNCHANGED vars
    BY <1>1, <2>1 DEF vars
  <2>2. CASE \E r \in Reviewers : ReviewerStep(r)
    BY <1>1, <2>2 DEF ReviewerStep, ReviewSubmit, EditSubmit, ReviewRead, ReviewReread, ReviewPut
  <2>3. CASE \E w \in Watchers : WatcherStep(w) \/ ProcessFails(w)
    BY <1>1, <2>3 DEF WatcherStep, PassStart, ProcessOne, MarkRead, MarkPut, ProcessFails
  <2> QED BY <1>2, <1>3, <2>1, <2>2, <2>3 DEF Next

LEMMA CountsKept ==
  ASSUME IInv, [Next]_vars
  PROVE  edits' \in 0 .. MaxEdits /\ faults' \in 0 .. MaxFaults
<1> USE DraftAssumption DEF IInv, TypeOK
<1>1. CASE UNCHANGED vars
  BY <1>1 DEF vars
<1>2. CASE \E e \in Emitters : EmitterStep(e)
  BY <1>2 DEF EmitterStep, EmissionStart, UpsertGet, UpsertPut, UpsertConflict
<1>3. CASE \E r \in Reviewers : ReviewerStep(r)
  <2>1. UNCHANGED faults /\ edits' \in {edits, edits + 1} /\ (edits' = edits + 1 => edits < MaxEdits \/ edits' = edits)
    BY <1>3 DEF ReviewerStep, ReviewSubmit, EditSubmit, ReviewRead, ReviewReread, ReviewPut
  <2> QED BY <2>1
<1>4. CASE \E w \in Watchers : WatcherStep(w) \/ ProcessFails(w)
  BY <1>4 DEF WatcherStep, PassStart, ProcessOne, MarkRead, MarkPut, ProcessFails
<1>5. CASE Crash
  BY <1>5 DEF Crash
<1> QED BY <1>1, <1>2, <1>3, <1>4, <1>5 DEF Next

-----------------------------------------------------------------------------
(***************************************************************************)
(* Reviewers                                                                *)
(***************************************************************************)
\* What holds of a new request, on the documents as they are.
LEMMA SubmissionOK ==
  ASSUME IInv, NEW r \in Reviewers, NEW d \in Drafts, NEW act, NEW tok \in BOOLEAN, NEW c \in Contents,
         Pending(d), act \in Routes \cup {"approve", "reject", "edit"},
         act \in Routes => tok, act = "edit" => c \in Content,
         rv' = [rv EXCEPT ![r] = Submission(d, act, tok, c)],
         UNCHANGED docs
  PROVE  ReviewerType' /\ ReviewOK(r)'
<1> USE DEF IInv, TypeOK, ReviewerType
<1>1. /\ docs[d] \in Doc /\ docs[d].rev \in Nat /\ docs[d].content \in Content
  BY DEF DocsType, Doc, DocOK, Pending
<1>2. Submission(d, act, tok, c)
        \in [pc : {"idle", "read", "reread", "put"}, draft : Drafts \cup {None},
             act : Routes \cup {"approve", "reject", "edit", None}, tok : BOOLEAN,
             shown : Contents, shown_rev : Nat, content : Contents, rev : Nat]
  BY <1>1 DEF Submission, Contents
<1>3. rv'[r] = Submission(d, act, tok, c) /\ ReviewerType'
  BY <1>2
<1>4. act # None
  BY NoneAssumption DEF Routes
<1> QED BY <1>1, <1>3, <1>4 DEF Submission, ReviewOK

LEMMA ReviewReadOK ==
  ASSUME IInv, NEW r \in Reviewers, ReviewRead(r)
  PROVE  ReviewerType' /\ ReviewOK(r)'
<1> USE DEF IInv, TypeOK, ReviewerType
<1> DEFINE o == rv[r]
           n == [o EXCEPT !.pc = "reread", !.content = Built(o)]
<1>1. CASE rv' = [rv EXCEPT ![r] = ReviewerIdle]
  BY <1>1 DEF ReviewerIdle, ReviewOK, Contents
<1>2. CASE StillOpen(o) /\ rv' = [rv EXCEPT ![r] = n]
  <2>1. /\ o.pc = "read" /\ ReviewOK(r) /\ docs' = docs
        /\ o.draft \in Drafts /\ o.shown \in Content
    BY <1>2 DEF ReviewRead, ReviewOK
  <2>2. o.act \in JobTypes => Built(o) = [base |-> o.shown.base, routed |-> TRUE]
    BY <1>2, <2>1 DEF ReviewOK, StillOpen, Built, Routes
  <2>3. Built(o) \in Contents /\ (o.act = "edit" => Built(o) \in Content)
    BY <2>1, <2>2, NoneAssumption DEF ReviewOK, Built, Contents, Content
  <2>4. /\ n.pc = "reread" /\ n.draft = o.draft /\ n.act = o.act /\ n.tok = o.tok
        /\ n.shown = o.shown /\ n.shown_rev = o.shown_rev /\ n.content = Built(o)
    OBVIOUS
  <2>5. n \in [pc : {"idle", "read", "reread", "put"}, draft : Drafts \cup {None},
             act : Routes \cup {"approve", "reject", "edit", None}, tok : BOOLEAN,
             shown : Contents, shown_rev : Nat, content : Contents, rev : Nat]
    BY <2>3
  <2> HIDE DEF n
  <2>6. rv'[r] = n /\ ReviewerType'
    BY <1>2, <2>5
  <2> QED BY <2>1, <2>2, <2>3, <2>4, <2>6 DEF ReviewOK
<1> QED BY <1>1, <1>2 DEF ReviewRead

LEMMA ReviewRereadOK ==
  ASSUME IInv, NEW r \in Reviewers, ReviewReread(r)
  PROVE  ReviewerType' /\ ReviewOK(r)'
<1> USE DEF IInv, TypeOK, ReviewerType
<1> DEFINE o == rv[r]
           n == [o EXCEPT !.pc = "put", !.rev = docs[o.draft].rev]
<1>1. CASE rv' = [rv EXCEPT ![r] = ReviewerIdle]
  BY <1>1 DEF ReviewerIdle, ReviewOK, Contents
<1>2. CASE StillOpen(o) /\ rv' = [rv EXCEPT ![r] = n]
  <2>1. /\ o.pc = "reread" /\ ReviewOK(r) /\ docs' = docs /\ o.draft \in Drafts
    BY <1>2 DEF ReviewReread, ReviewOK
  <2>2. docs[o.draft].rev \in Nat
    BY <2>1 DEF DocsType, Doc
  <2>3. /\ n.pc = "put" /\ n.draft = o.draft /\ n.act = o.act /\ n.tok = o.tok
        /\ n.shown = o.shown /\ n.shown_rev = o.shown_rev /\ n.content = o.content
        /\ n.rev = docs[o.draft].rev
    OBVIOUS
  <2>4. n \in [pc : {"idle", "read", "reread", "put"}, draft : Drafts \cup {None},
             act : Routes \cup {"approve", "reject", "edit", None}, tok : BOOLEAN,
             shown : Contents, shown_rev : Nat, content : Contents, rev : Nat]
    BY <2>2
  <2> HIDE DEF n
  <2>5. rv'[r] = n /\ ReviewerType'
    BY <1>2, <2>4
  <2> QED BY <1>2, <2>1, <2>2, <2>3, <2>5 DEF ReviewOK, StillOpen, Pending
<1> QED BY <1>1, <1>2 DEF ReviewReread

LEMMA ReviewerKept ==
  ASSUME IInv, [Next]_vars, DocsType', DocsProgress
  PROVE  ReviewerType' /\ \A r \in Reviewers : ReviewOK(r)'
<1> USE DEF IInv, TypeOK
<1>1. CASE UNCHANGED rv
  BY <1>1, ReviewKept DEF ReviewerType
<1>2. ASSUME NEW r \in Reviewers, \A x \in Reviewers \ {r} : rv'[x] = rv[x], ReviewerType' /\ ReviewOK(r)'
      PROVE  ReviewerType' /\ \A x \in Reviewers : ReviewOK(x)'
  BY <1>2, ReviewKept
<1>3. ASSUME NEW r \in Reviewers, ReviewerStep(r)
      PROVE  ReviewerType' /\ \A x \in Reviewers : ReviewOK(x)'
  <2>1. \A x \in Reviewers \ {r} : rv'[x] = rv[x]
    BY <1>3 DEF ReviewerStep, ReviewSubmit, EditSubmit, ReviewRead, ReviewReread, ReviewPut, ReviewerType
  <2>2. CASE ReviewSubmit(r)
    <3>1. PICK d \in Drafts, act \in Routes \cup {"approve", "reject"}, tok \in BOOLEAN :
            Pending(d) /\ (act \in Routes => tok) /\ rv' = [rv EXCEPT ![r] = Submission(d, act, tok, None)]
      BY <2>2 DEF ReviewSubmit
    <3>2. act # "edit" /\ None \in Contents /\ UNCHANGED docs
      BY <2>2, NoneAssumption DEF ReviewSubmit, Routes, Contents
    <3> QED BY <1>2, <2>1, <3>1, <3>2, SubmissionOK
  <2>3. CASE EditSubmit(r)
    <3>1. PICK d \in Drafts, p \in ValidPayloads, tok \in BOOLEAN :
            Pending(d) /\ rv' = [rv EXCEPT ![r] = Submission(d, "edit", tok, Plain(p))]
      BY <2>3 DEF EditSubmit
    <3>2. "edit" \notin Routes /\ Plain(p) \in Content /\ UNCHANGED docs
      BY <2>3, NoneAssumption, DraftAssumption DEF EditSubmit, Routes, Content, Plain
    <3> QED BY <1>2, <2>1, <3>1, <3>2, SubmissionOK DEF Contents
  <2>4. CASE ReviewRead(r)
    BY <1>2, <2>1, <2>4, ReviewReadOK
  <2>5. CASE ReviewReread(r)
    BY <1>2, <2>1, <2>5, ReviewRereadOK
  <2>6. CASE ReviewPut(r)
    <3>1. rv' = [rv EXCEPT ![r] = ReviewerIdle]
      BY <2>6 DEF ReviewPut
    <3>2. ReviewerType' /\ ReviewOK(r)'
      BY <3>1 DEF ReviewerType, ReviewerIdle, ReviewOK, Contents
    <3> QED BY <1>2, <2>1, <3>2
  <2> QED BY <1>3, <2>2, <2>3, <2>4, <2>5, <2>6 DEF ReviewerStep
<1>4. ASSUME NEW r \in Reviewers, rv' = [rv EXCEPT ![r] = ReviewerIdle]
      PROVE  ReviewerType' /\ \A x \in Reviewers : ReviewOK(x)'
  <2>1. ReviewerType' /\ ReviewOK(r)' /\ \A x \in Reviewers \ {r} : rv'[x] = rv[x]
    BY <1>4 DEF ReviewerType, ReviewerIdle, ReviewOK, Contents
  <2> QED BY <1>2, <2>1
<1> QED
  <2>1. CASE UNCHANGED vars
    BY <1>1, <2>1 DEF vars
  <2>2. CASE \E e \in Emitters : EmitterStep(e)
    BY <1>1, <2>2 DEF EmitterStep, EmissionStart, UpsertGet, UpsertPut, UpsertConflict
  <2>3. CASE \E w \in Watchers : WatcherStep(w) \/ ProcessFails(w)
    BY <1>1, <2>3 DEF WatcherStep, PassStart, ProcessOne, MarkRead, MarkPut, ProcessFails
  <2>4. CASE Crash
    BY <1>1, <1>4, <2>4 DEF Crash
  <2> QED BY <1>3, <2>1, <2>2, <2>3, <2>4 DEF Next

-----------------------------------------------------------------------------
(***************************************************************************)
(* Watchers                                                                 *)
(***************************************************************************)
LEMMA MarkForType == ASSUME NEW doc PROVE MarkFor(doc) \in {"no_action", "error", "materialized"}
BY DEF MarkFor

LEMMA WatcherOKKept ==
  ASSUME TypeOK, DocsType', DocsProgress, NEW w \in Watchers, WatcherOK(w), wt'[w] = wt[w]
  PROVE  WatcherOK(w)'
<1> USE DEF TypeOK
<1>1. \A b \in wt[w].batch : Snapshot(b[1], b[2])'
  <2>1. SUFFICES ASSUME NEW b \in wt[w].batch PROVE Snapshot(b[1], b[2])'
    OBVIOUS
  <2>2. b[1] \in Drafts /\ b[2] \in Doc /\ Snapshot(b[1], b[2])
    BY DEF WatcherOK, WatcherType
  <2> QED BY <2>2, SnapshotKept
<1>2. CASE wt[w].pc \in {"mark", "put"}
  <2>1. /\ wt[w].draft \in Drafts /\ wt[w].doc \in Doc /\ Snapshot(wt[w].draft, wt[w].doc)
        /\ wt[w].mark = MarkFor(wt[w].doc)
        /\ wt[w].mark = "materialized" => queue[<<wt[w].draft, wt[w].doc.job_type>>] # None
    BY <1>2 DEF WatcherOK
  <2>2. \A d \in Drafts, doc \in Doc : Snapshot(d, doc) => Snapshot(d, doc)'
    BY SnapshotKept
  <2>3. wt[w].doc.job_type \in JobTypes
    BY <2>1 DEF Doc
  <2>4. wt[w].mark = "materialized" => queue'[<<wt[w].draft, wt[w].doc.job_type>>] # None
    BY <2>1, <2>3 DEF DocsProgress
  <2>5. Snapshot(wt[w].draft, wt[w].doc)'
    BY <2>1, <2>2 DEF Snapshot
  <2> QED BY <1>1, <2>1, <2>4, <2>5 DEF WatcherOK
<1>3. CASE wt[w].pc \notin {"mark", "put"}
  BY <1>1, <1>3 DEF WatcherOK
<1> QED BY <1>2, <1>3

\* What is left of a batch stays true.
LEMMA BatchKept ==
  ASSUME TypeOK, DocsType', DocsProgress, NEW w \in Watchers, WatcherOK(w)
  PROVE  \A b \in wt[w].batch : b \in Drafts \X Doc /\ Snapshot(b[1], b[2])'
<1>1. SUFFICES ASSUME NEW b \in wt[w].batch PROVE b \in Drafts \X Doc /\ Snapshot(b[1], b[2])'
  OBVIOUS
<1>2. b \in Drafts \X Doc /\ b[1] \in Drafts /\ b[2] \in Doc /\ Snapshot(b[1], b[2])
  BY DEF WatcherOK, WatcherType, TypeOK
<1> QED BY <1>2, SnapshotKept DEF TypeOK

\* A watcher left with a batch whose snapshots are true.
LEMMA NextOfKept ==
  ASSUME TypeOK, NEW w \in Watchers, NEW batch,
         \A b \in batch : b \in Drafts \X Doc /\ Snapshot(b[1], b[2])',
         wt' = [wt EXCEPT ![w] = NextOf(batch)]
  PROVE  WatcherType' /\ WatcherOK(w)'
<1>1. batch \in SUBSET (Drafts \X Doc)
  OBVIOUS
<1>2. NextOf(batch) \in [pc : {"idle", "next", "mark", "put"}, batch : SUBSET (Drafts \X Doc),
                         draft : Drafts \cup {None}, doc : Doc \cup {None},
                         mark : {"no_action", "error", "materialized", None}]
  BY <1>1 DEF NextOf
<1>3. WatcherType' /\ wt'[w] = NextOf(batch)
  BY <1>2 DEF TypeOK, WatcherType
<1>4. wt'[w].batch = batch /\ wt'[w].pc \notin {"mark", "put"}
  BY <1>3 DEF NextOf
<1> QED BY <1>3, <1>4 DEF WatcherOK

LEMMA PassStartOK ==
  ASSUME IInv, DocsType', DocsProgress, NEW w \in Watchers, PassStart(w)
  PROVE  WatcherType' /\ WatcherOK(w)'
<1> DEFINE batch == {<<d, docs[d]>> : d \in {x \in Drafts : Findable(x)}}
<1>1. UNCHANGED <<docs, approvals, clobbered>> /\ wt' = [wt EXCEPT ![w] = NextOf(batch)]
  BY DEF PassStart
<1>2. ASSUME NEW d \in Drafts, Findable(d)
      PROVE  <<d, docs[d]>> \in Drafts \X Doc /\ Snapshot(d, docs[d])
  <2>1. docs[d] \in Doc /\ docs[d].rev \in Nat
    BY DEF IInv, TypeOK, DocsType, Doc
  <2>2. DocOK(d) /\ docs[d].status = "approved"
    BY <1>2 DEF IInv, Findable, Approved
  <2> QED BY <2>1, <2>2 DEF DocOK, Approved, Snapshot, SameDecision
<1>3. ASSUME NEW d \in Drafts, NEW doc \in Doc, Snapshot(d, doc)
      PROVE  Snapshot(d, doc)'
  BY <1>3, SnapshotKept DEF IInv, TypeOK
<1>4. ASSUME NEW b \in batch PROVE b \in Drafts \X Doc /\ Snapshot(b[1], b[2])'
  <2>1. PICK d \in Drafts : Findable(d) /\ b = <<d, docs[d]>>
    OBVIOUS
  <2>2. b[1] \in Drafts /\ b[2] \in Doc /\ Snapshot(b[1], b[2]) /\ b \in Drafts \X Doc
    BY <2>1, <1>2
  <2> QED BY <2>2, <1>3
<1> HIDE DEF batch
<1> QED BY <1>1, <1>4, NextOfKept DEF IInv

LEMMA ProcessOneOK ==
  ASSUME IInv, DocsType', DocsProgress, NEW w \in Watchers, ProcessOne(w)
  PROVE  WatcherType' /\ WatcherOK(w)'
<1> USE DEF IInv, TypeOK
<1>1. PICK b \in wt[w].batch :
        /\ wt' = [wt EXCEPT ![w] = [pc |-> "mark", batch |-> wt[w].batch \ {b},
                                    draft |-> b[1], doc |-> b[2], mark |-> MarkFor(b[2])]]
        /\ queue' = IF MarkFor(b[2]) = "materialized" /\ queue[<<b[1], b[2].job_type>>] = None
                      THEN [queue EXCEPT ![<<b[1], b[2].job_type>>] = b[2].content] ELSE queue
  BY DEF ProcessOne
<1> DEFINE n == [pc |-> "mark", batch |-> wt[w].batch \ {b},
                 draft |-> b[1], doc |-> b[2], mark |-> MarkFor(b[2])]
<1>2. b[1] \in Drafts /\ b[2] \in Doc /\ Snapshot(b[1], b[2]) /\ Snapshot(b[1], b[2])'
  BY BatchKept DEF WatcherOK, WatcherType
<1>3. wt[w].batch \ {b} \in SUBSET (Drafts \X Doc)
  BY DEF WatcherType
<1>4. n \in [pc : {"idle", "next", "mark", "put"}, batch : SUBSET (Drafts \X Doc),
             draft : Drafts \cup {None}, doc : Doc \cup {None},
             mark : {"no_action", "error", "materialized", None}]
  BY <1>2, <1>3, MarkForType
<1>5. WatcherType' /\ wt'[w] = n
  BY <1>1, <1>4 DEF WatcherType
<1>6. b[2].content # None /\ b[2].job_type \in JobTypes
  BY <1>2, NoneAssumption DEF Snapshot, Content, Doc
<1>7. MarkFor(b[2]) = "materialized" => queue'[<<b[1], b[2].job_type>>] # None
  BY <1>1, <1>2, <1>6 DEF DocsType
<1>8. \A x \in wt[w].batch \ {b} : Snapshot(x[1], x[2])'
  BY BatchKept
<1> QED BY <1>2, <1>5, <1>7, <1>8 DEF WatcherOK

LEMMA MarkReadOK ==
  ASSUME IInv, DocsType', DocsProgress, NEW w \in Watchers, MarkRead(w)
  PROVE  WatcherType' /\ WatcherOK(w)'
<1>1. CASE wt' = [wt EXCEPT ![w] = NextOf(RestAfterConflict(wt[w]))]
  <2>1. RestAfterConflict(wt[w]) \subseteq wt[w].batch
    BY DEF RestAfterConflict, RestAfterError
  <2>2. \A b \in RestAfterConflict(wt[w]) : b \in Drafts \X Doc /\ Snapshot(b[1], b[2])'
    BY <2>1, BatchKept DEF IInv
  <2> QED BY <1>1, <2>2, NextOfKept DEF IInv
<1>2. CASE wt' = [wt EXCEPT ![w] = [wt[w] EXCEPT !.pc = "put"]]
  <2> DEFINE n == [wt[w] EXCEPT !.pc = "put"]
  <2>1. n \in [pc : {"idle", "next", "mark", "put"}, batch : SUBSET (Drafts \X Doc),
               draft : Drafts \cup {None}, doc : Doc \cup {None},
               mark : {"no_action", "error", "materialized", None}]
    BY DEF IInv, TypeOK, WatcherType
  <2>2. /\ n.batch = wt[w].batch /\ n.draft = wt[w].draft /\ n.doc = wt[w].doc /\ n.mark = wt[w].mark
    BY DEF IInv, TypeOK, WatcherType
  <2> HIDE DEF n
  <2>3. WatcherType' /\ wt'[w] = n
    BY <1>2, <2>1 DEF IInv, TypeOK, WatcherType, n
  <2>4. /\ wt[w].draft \in Drafts /\ wt[w].doc \in Doc /\ Snapshot(wt[w].draft, wt[w].doc)
        /\ wt[w].mark = MarkFor(wt[w].doc)
        /\ wt[w].mark = "materialized" => queue[<<wt[w].draft, wt[w].doc.job_type>>] # None
    BY DEF IInv, WatcherOK, MarkRead
  <2>5. UNCHANGED <<docs, queue, approvals, clobbered>>
    BY DEF MarkRead
  <2>6. \A b \in wt[w].batch : Snapshot(b[1], b[2])'
    BY BatchKept DEF IInv
  <2> QED BY <2>2, <2>3, <2>4, <2>5, <2>6 DEF WatcherOK, Snapshot
<1> QED BY <1>1, <1>2 DEF MarkRead

LEMMA WatcherKept ==
  ASSUME IInv, [Next]_vars, DocsType', DocsProgress
  PROVE  WatcherType' /\ \A w \in Watchers : WatcherOK(w)'
<1>1. CASE UNCHANGED wt
  BY <1>1, WatcherOKKept DEF IInv, TypeOK, WatcherType
<1>2. ASSUME NEW w \in Watchers, \A x \in Watchers \ {w} : wt'[x] = wt[x], WatcherType' /\ WatcherOK(w)'
      PROVE  WatcherType' /\ \A x \in Watchers : WatcherOK(x)'
  BY <1>2, WatcherOKKept DEF IInv
<1>3. ASSUME NEW w \in Watchers, NEW batch, batch \subseteq wt[w].batch,
             wt' = [wt EXCEPT ![w] = NextOf(batch)]
      PROVE  WatcherType' /\ \A x \in Watchers : WatcherOK(x)'
  <2>1. \A b \in batch : b \in Drafts \X Doc /\ Snapshot(b[1], b[2])'
    BY <1>3, BatchKept DEF IInv
  <2>2. WatcherType' /\ WatcherOK(w)'
    BY <1>3, <2>1, NextOfKept DEF IInv
  <2>3. \A x \in Watchers \ {w} : wt'[x] = wt[x]
    BY <1>3 DEF IInv, TypeOK, WatcherType
  <2> QED BY <1>2, <2>2, <2>3
<1>4. ASSUME NEW w \in Watchers, WatcherStep(w) \/ ProcessFails(w)
      PROVE  WatcherType' /\ \A x \in Watchers : WatcherOK(x)'
  <2>1. \A x \in Watchers \ {w} : wt'[x] = wt[x]
    BY <1>4 DEF WatcherStep, PassStart, ProcessOne, MarkRead, MarkPut, ProcessFails, IInv, TypeOK, WatcherType
  <2>2. CASE PassStart(w)
    BY <1>2, <2>1, <2>2, PassStartOK
  <2>3. CASE ProcessOne(w)
    BY <1>2, <2>1, <2>3, ProcessOneOK
  <2>4. CASE MarkRead(w)
    BY <1>2, <2>1, <2>4, MarkReadOK
  <2>5. CASE MarkPut(w)
    <3>1. RestAfterConflict(wt[w]) \subseteq wt[w].batch
      BY DEF RestAfterConflict, RestAfterError
    <3> QED BY <1>3, <2>5, <3>1 DEF MarkPut
  <2>6. CASE ProcessFails(w)
    <3>1. RestAfterError(wt[w]) \subseteq wt[w].batch
      BY DEF RestAfterError
    <3> QED BY <1>3, <2>6, <3>1 DEF ProcessFails
  <2> QED BY <1>4, <2>2, <2>3, <2>4, <2>5, <2>6 DEF WatcherStep
<1> QED
  <2>1. CASE UNCHANGED vars
    BY <1>1, <2>1 DEF vars
  <2>2. CASE \E e \in Emitters : EmitterStep(e)
    BY <1>1, <2>2 DEF EmitterStep, EmissionStart, UpsertGet, UpsertPut, UpsertConflict
  <2>3. CASE \E r \in Reviewers : ReviewerStep(r)
    BY <1>1, <2>3 DEF ReviewerStep, ReviewSubmit, EditSubmit, ReviewRead, ReviewReread, ReviewPut
  <2>4. CASE Crash
    BY <1>1, <1>3, <2>4 DEF Crash
  <2> QED BY <1>4, <2>1, <2>2, <2>3, <2>4 DEF Next

-----------------------------------------------------------------------------
(***************************************************************************)
(* Documents and jobs                                                       *)
(***************************************************************************)
LEMMA QueueFrame ==
  ASSUME [Next]_vars, ~(\E w \in Watchers : ProcessOne(w))
  PROVE  queue' = queue
<1>1. CASE UNCHANGED vars
  BY <1>1 DEF vars
<1>2. CASE \E e \in Emitters : EmitterStep(e)
  BY <1>2 DEF EmitterStep, EmissionStart, UpsertGet, UpsertPut, UpsertConflict
<1>3. CASE \E r \in Reviewers : ReviewerStep(r)
  BY <1>3 DEF ReviewerStep, ReviewSubmit, EditSubmit, ReviewRead, ReviewReread, ReviewPut
<1>4. CASE \E w \in Watchers : WatcherStep(w) \/ ProcessFails(w)
  BY <1>4 DEF WatcherStep, PassStart, MarkRead, MarkPut, ProcessFails
<1>5. CASE Crash
  BY <1>5 DEF Crash
<1> QED BY <1>1, <1>2, <1>3, <1>4, <1>5 DEF Next

LEMMA QueueKept ==
  ASSUME IInv, [Next]_vars, DocsType', DocsProgress
  PROVE  \A d \in Drafts, t \in JobTypes : QueuedOK(d, t)'
<1> USE DEF IInv, TypeOK
<1>1. CASE ~(\E w \in Watchers : ProcessOne(w))
  BY <1>1, QueueFrame, QueuedKept
<1>2. ASSUME NEW w \in Watchers, ProcessOne(w), NEW d \in Drafts, NEW t \in JobTypes
      PROVE  QueuedOK(d, t)'
  <2>1. PICK b \in wt[w].batch :
          queue' = IF MarkFor(b[2]) = "materialized" /\ queue[<<b[1], b[2].job_type>>] = None
                     THEN [queue EXCEPT ![<<b[1], b[2].job_type>>] = b[2].content] ELSE queue
    BY <1>2 DEF ProcessOne
  <2>2. b[1] \in Drafts /\ b[2] \in Doc /\ Snapshot(b[1], b[2])
    BY DEF WatcherOK, WatcherType
  <2>3. UNCHANGED <<docs, approvals, clobbered>>
    BY <1>2 DEF ProcessOne
  <2>4. CASE queue'[<<d, t>>] = queue[<<d, t>>]
    BY <2>4, QueuedKept
  <2>5. CASE queue'[<<d, t>>] # queue[<<d, t>>]
    <3>1. /\ d = b[1] /\ t = b[2].job_type
          /\ MarkFor(b[2]) = "materialized" /\ queue'[<<d, t>>] = b[2].content
      BY <2>1, <2>2, <2>5 DEF DocsType
    <3>2. Valid(b[2].content) /\ b[2].route # "no_action"
      BY <3>1 DEF MarkFor
    <3>3. /\ b[2].status = "approved"
          /\ <<d, t, b[2].content>> \in approvals
          /\ d \notin clobbered => SameDecision(docs[d], b[2])
      BY <2>2, <3>1 DEF Snapshot
    <3>4. d \notin clobbered => /\ docs[d].status = "approved" /\ docs[d].job_type = t
                                /\ docs[d].content = b[2].content /\ docs[d].route # "no_action"
      BY <3>1, <3>2, <3>3 DEF SameDecision
    <3> QED BY <2>3, <3>1, <3>2, <3>3, <3>4 DEF QueuedOK, Approved, Valid
  <2> QED BY <2>4, <2>5
<1> QED BY <1>1, <1>2

\* A document no step writes keeps its properties.
LEMMA DocKept ==
  ASSUME IInv, DocsType', DocsProgress, NEW d \in Drafts, docs'[d] = docs[d]
  PROVE  DocOK(d)'
<1>1. DocOK(d) /\ docs[d] \in Doc /\ docs[d].job_type \in JobTypes
  BY DEF IInv, TypeOK, DocsType, Doc
<1>2. queue[<<d, docs[d].job_type>>] # None => queue'[<<d, docs[d].job_type>>] # None
  BY <1>1 DEF DocsProgress
<1> QED BY <1>1, <1>2 DEF DocOK, Approved, DocsProgress

LEMMA DocsKept ==
  ASSUME IInv, [Next]_vars, DocsType', DocsProgress
  PROVE  \A d \in Drafts : DocOK(d)'
<1> USE DEF IInv, TypeOK
<1>1. CASE UNCHANGED docs
  BY <1>1, DocKept
<1>2. ASSUME NEW d \in Drafts, NEW doc \in Doc, Write(d, doc),
             doc.content \in Content, doc.status # "absent",
             doc.materialized => /\ doc.status = "approved"
                                 /\ doc.route = "no_action" \/ queue'[<<d, doc.job_type>>] # None
      PROVE  \A x \in Drafts : DocOK(x)'
  <2>1. /\ docs'[d].rev = docs[d].rev + 1 /\ docs[d].rev \in Nat
        /\ SameDecision(docs'[d], doc) /\ docs'[d].materialized = doc.materialized
        /\ \A x \in Drafts \ {d} : docs'[x] = docs[x]
        /\ doc.status = "approved" => <<d, doc.job_type, doc.content>> \in approvals'
    BY <1>2, WriteEffect
  <2>2. DocOK(d)'
    BY <1>2, <2>1 DEF DocOK, SameDecision, Approved
  <2> QED BY <2>1, <2>2, DocKept
<1>3. ASSUME NEW e \in Emitters, UpsertPut(e)
      PROVE  \A x \in Drafts : DocOK(x)'
  <2>1. Write(em[e].draft, FreshDraft(em[e].draft, em[e].base))
    BY <1>3 DEF UpsertPut
  <2> QED BY <1>2, <1>3, <2>1, UpsertWrites
<1>4. ASSUME NEW r \in Reviewers, ReviewPut(r), rv[r].rev = docs[rv[r].draft].rev
      PROVE  \A x \in Drafts : DocOK(x)'
  <2>1. Write(rv[r].draft, Reviewed(rv[r], docs[rv[r].draft]))
    BY <1>4 DEF ReviewPut
  <2>2. ~docs[rv[r].draft].materialized
    BY <1>4, ReviewWrites DEF DocOK, Pending, Approved
  <2> QED BY <1>2, <1>4, <2>1, <2>2, ReviewWrites
<1>5. ASSUME NEW w \in Watchers, MarkPut(w), docs[wt[w].draft].rev = wt[w].doc.rev
      PROVE  \A x \in Drafts : DocOK(x)'
  <2> DEFINE d == wt[w].draft
             doc == Marked(docs[d], wt[w].mark)
  <2>1. Write(d, doc) /\ queue' = queue
    BY <1>5 DEF MarkPut
  <2>2. /\ d \in Drafts /\ docs[d] = wt[w].doc /\ docs[d].status = "approved"
        /\ docs[d].content \in Content /\ doc \in Doc /\ SameDecision(doc, docs[d])
    BY <1>5, MarkWrites DEF Approved
  <2>3. /\ wt[w].mark = MarkFor(docs[d])
        /\ wt[w].mark = "materialized" => queue[<<d, docs[d].job_type>>] # None
    BY <1>5, <2>2 DEF WatcherOK, MarkPut
  <2>4. doc.materialized =>
          \/ docs[d].materialized
          \/ docs[d].route = "no_action" \/ queue[<<d, docs[d].job_type>>] # None
    <3>1. docs[d] \in Doc
      BY <2>2 DEF DocsType
    <3>2. CASE wt[w].mark = "error"
      BY <3>1, <3>2 DEF Marked, Doc
    <3>3. CASE wt[w].mark # "error"
      BY <2>3, <3>3 DEF MarkFor
    <3> QED BY <3>2, <3>3
  <2>5. doc.status = "approved" /\ doc.content \in Content
        /\ doc.route = docs[d].route /\ doc.job_type = docs[d].job_type
    BY <2>2 DEF SameDecision
  <2>6. docs[d].materialized => docs[d].route = "no_action" \/ queue[<<d, docs[d].job_type>>] # None
    BY <2>2 DEF DocOK
  <2> HIDE DEF doc
  <2> QED BY <1>2, <2>1, <2>2, <2>4, <2>5, <2>6
<1> QED
  <2>1. CASE UNCHANGED vars
    BY <1>1, <2>1 DEF vars
  <2>2. CASE \E e \in Emitters : EmitterStep(e)
    BY <1>1, <1>3, <2>2 DEF EmitterStep, EmissionStart, UpsertGet, UpsertConflict
  <2>3. CASE \E r \in Reviewers : ReviewerStep(r)
    BY <1>1, <1>4, <2>3 DEF ReviewerStep, ReviewSubmit, EditSubmit, ReviewRead, ReviewReread, ReviewPut
  <2>4. CASE \E w \in Watchers : WatcherStep(w) \/ ProcessFails(w)
    BY <1>1, <1>5, <2>4 DEF WatcherStep, PassStart, ProcessOne, MarkRead, MarkPut, ProcessFails
  <2>5. CASE Crash
    BY <1>1, <2>5 DEF Crash
  <2> QED BY <2>1, <2>2, <2>3, <2>4, <2>5 DEF Next

-----------------------------------------------------------------------------
(***************************************************************************)
(* The invariant and what follows from it                                   *)
(***************************************************************************)
LEMMA InitIInv ==
  ASSUME Init
  PROVE  IInv
<1> USE DraftAssumption DEF Init
<1>1. DocsType
  BY DEF DocsType, NoDoc, Doc, Contents
<1>2. EmitterType /\ \A e \in Emitters : EmitterOK(e)
  BY DEF EmitterType, EmitterOK, EmitterIdle
<1>3. ReviewerType /\ \A r \in Reviewers : ReviewOK(r)
  BY DEF ReviewerType, ReviewOK, ReviewerIdle, Contents
<1>4. WatcherType /\ \A w \in Watchers : WatcherOK(w)
  BY DEF WatcherType, WatcherOK, NextOf
<1>5. \A d \in Drafts : DocOK(d)
  BY DEF DocOK, NoDoc, Approved
<1>6. \A d \in Drafts, t \in JobTypes : QueuedOK(d, t)
  BY DEF QueuedOK
<1>7. edits \in 0 .. MaxEdits /\ faults \in 0 .. MaxFaults
  OBVIOUS
<1> QED BY <1>1, <1>2, <1>3, <1>4, <1>5, <1>6, <1>7 DEF IInv, TypeOK

LEMMA StepIInv ==
  ASSUME IInv, [Next]_vars
  PROVE  IInv'
<1>1. DocsType' /\ DocsProgress
  BY DocsTypeKept, StepProgress
<1> QED BY <1>1, EmitterKept, ReviewerKept, WatcherKept, CountsKept, DocsKept, QueueKept DEF IInv, TypeOK

THEOREM Invariant == Spec => []IInv
<1>1. IInv /\ [Next]_vars => IInv'
  BY StepIInv
<1> QED BY <1>1, InitIInv, PTL DEF Spec

\* Every variable keeps its type.
THEOREM TypeCorrect == Spec => []TypeOK
<1>1. IInv => TypeOK
  BY DEF IInv
<1> QED BY <1>1, Invariant, PTL

\* Nothing reaches btq_queue that was not approved, with the type and the payload it has there.
THEOREM ApprovedOnly == Spec => []QueuedWasApproved
<1>1. IInv => QueuedWasApproved
  BY DEF IInv, QueuedOK, QueuedWasApproved
<1> QED BY <1>1, Invariant, PTL

\* A draft marked materialized has its job, and the job has its payload unless an emission
\* rewrote the draft.
THEOREM MarkTrue == Spec => []MarkedIsQueued
<1>1. ASSUME IInv, NEW d \in Drafts, docs[d].materialized, docs[d].route # "no_action"
      PROVE  /\ queue[<<d, docs[d].job_type>>] # None
             /\ d \notin clobbered => queue[<<d, docs[d].job_type>>] = docs[d].content
  <2>1. DocOK(d) /\ docs[d].job_type \in JobTypes
    BY <1>1 DEF IInv, TypeOK, DocsType, Doc
  <2>2. queue[<<d, docs[d].job_type>>] # None
    BY <1>1, <2>1 DEF DocOK
  <2>3. QueuedOK(d, docs[d].job_type)
    BY <1>1, <2>1 DEF IInv
  <2> QED BY <2>2, <2>3 DEF QueuedOK
<1>2. IInv => MarkedIsQueued
  BY <1>1 DEF MarkedIsQueued
<1> QED BY <1>2, Invariant, PTL

\* A draft no emission rewrote gives at most one job, and none once settled as no_action or rejected.
THEOREM OneJob == Spec => []OneJobPerDraft
<1>1. ASSUME IInv, NEW d \in Drafts \ clobbered
      PROVE  /\ Cardinality(QueuedTypes(d)) <= 1
             /\ docs[d].route = "no_action" \/ docs[d].status = "rejected" => QueuedTypes(d) = {}
  <2>1. \A t \in QueuedTypes(d) : Approved(d) /\ docs[d].job_type = t /\ docs[d].route # "no_action"
    BY <1>1 DEF IInv, QueuedOK, QueuedTypes
  <2>2. QueuedTypes(d) = {} \/ QueuedTypes(d) = {docs[d].job_type}
    BY <2>1
  <2>3. Cardinality(QueuedTypes(d)) <= 1
    <3>1. Cardinality({}) = 0 /\ Cardinality({docs[d].job_type}) = 1
      BY FS_EmptySet, FS_Singleton, Zenon
    <3> QED BY <2>2, <3>1
  <2>4. docs[d].route = "no_action" \/ docs[d].status = "rejected" => QueuedTypes(d) = {}
    <3>1. ASSUME NEW t \in QueuedTypes(d)
          PROVE  docs[d].route # "no_action" /\ docs[d].status = "approved"
      BY <2>1 DEF Approved
    <3> QED BY <3>1
  <2> QED BY <2>3, <2>4
<1>2. IInv => OneJobPerDraft
  BY <1>1 DEF OneJobPerDraft
<1> QED BY <1>2, Invariant, PTL

\* No step but an emission takes a decision back or changes what was decided on.
THEOREM DecisionFinal == Spec => DecisionIsFinal
<1>1. ASSUME IInv, [Next]_vars, NEW d \in Drafts, Decided(d), d \notin clobbered'
      PROVE  /\ docs'[d].status = docs[d].status
             /\ docs'[d].content = docs[d].content
             /\ docs'[d].job_type = docs[d].job_type
  BY <1>1, StepProgress DEF DocsProgress, SameDecision
<1>2. IInv /\ [Next]_vars =>
        [\A d \in Drafts :
           Decided(d) => \/ d \in clobbered'
                         \/ /\ docs'[d].status = docs[d].status
                            /\ docs'[d].content = docs[d].content
                            /\ docs'[d].job_type = docs[d].job_type]_vars
  BY <1>1
<1> QED BY <1>2, Invariant, PTL DEF Spec, DecisionIsFinal

\* A decision submitted on the displayed revision decides the displayed payload.
THEOREM ShownDecided == Spec => ShownIsDecided
<1>1. ASSUME IInv, Next, NEW r \in Reviewers, rv[r].pc = "put", rv[r].tok, rv'[r].pc = "idle",
             docs' # docs, rv[r].act # "edit"
      PROVE  /\ docs[rv[r].draft].content = rv[r].shown
             /\ docs'[rv[r].draft].content
                  \in {rv[r].shown, [base |-> rv[r].shown.base, routed |-> TRUE]}
  <2> DEFINE o == rv[r]
             d == rv[r].draft
  <2>1. ReviewPut(r)
    <3>1. rv' # rv
      BY <1>1
    <3>2. PICK x \in Reviewers : ReviewerStep(x)
      BY <1>1, <3>1 DEF Next, EmitterStep, EmissionStart, UpsertGet, UpsertPut, UpsertConflict,
           WatcherStep, PassStart, ProcessOne, MarkRead, MarkPut, ProcessFails, Crash
    <3>3. ReviewPut(x)
      BY <1>1, <3>2 DEF ReviewerStep, ReviewSubmit, EditSubmit, ReviewRead, ReviewReread
    <3>4. rv' = [rv EXCEPT ![x] = ReviewerIdle]
      BY <3>3 DEF ReviewPut
    <3>5. x = r
      BY <1>1, <3>4 DEF IInv, TypeOK, ReviewerType
    <3> QED BY <3>3, <3>5
  <2>2. o.rev = docs[d].rev /\ Write(d, Reviewed(o, docs[d]))
    BY <1>1, <2>1 DEF ReviewPut
  <2>3. /\ d \in Drafts /\ docs[d].content = o.shown
        /\ o.act \in JobTypes => o.content = [base |-> o.shown.base, routed |-> TRUE]
    BY <1>1, <2>2 DEF IInv, ReviewOK
  <2>4. docs'[d].content = Reviewed(o, docs[d]).content
    BY <1>1, <2>1, <2>2, ReviewWrites, WriteEffect DEF IInv, TypeOK, SameDecision
  <2>5. docs[d] \in Doc /\ o.act \in Routes \cup {"approve", "reject"}
    BY <1>1, <2>3 DEF IInv, TypeOK, DocsType, ReviewerType, ReviewOK
  <2>6. Reviewed(o, docs[d]).content \in {docs[d].content, o.content}
    <3>1. CASE o.act \in JobTypes
      BY <2>5, <3>1, NoneAssumption DEF Reviewed, Doc
    <3>2. CASE o.act \in {"approve", "reject", "no_action"}
      BY <2>5, <3>2 DEF Reviewed, Doc
    <3> QED BY <2>5, <3>1, <3>2 DEF Routes
  <2>7. o.act \notin JobTypes => Reviewed(o, docs[d]).content = docs[d].content
    BY <2>5 DEF Reviewed, Doc, Routes
  <2> QED BY <2>3, <2>4, <2>6, <2>7
<1>2. IInv /\ [Next]_vars =>
        [\A r \in Reviewers :
           LET o == rv[r] IN
           o.pc = "put" /\ o.tok /\ rv'[r].pc = "idle" /\ docs' # docs /\ o.act # "edit" =>
             /\ docs[o.draft].content = o.shown
             /\ docs'[o.draft].content \in {o.shown, [base |-> o.shown.base, routed |-> TRUE]}]_vars
  BY <1>1
<1> QED BY <1>2, Invariant, PTL DEF Spec, ShownIsDecided
=============================================================================
