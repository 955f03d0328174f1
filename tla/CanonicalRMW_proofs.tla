------------------------- MODULE CanonicalRMW_proofs -------------------------
(***************************************************************************)
(* Proofs about CanonicalRMW, for every number of writers, jobs, documents, *)
(* runs and edits.                                                          *)
(*                                                                          *)
(* None of the safety properties is inductive by itself: a PUT replaces the *)
(* whole document by a body computed from a copy read earlier.  SnapsAreOld *)
(* says what that copy can be: an older revision (the PUT will conflict),   *)
(* or exactly the stored document, without the writer's own marker.         *)
(***************************************************************************)
EXTENDS CanonicalRMW, TLAPS

SnapsAreOld ==
    \A w \in Writer : pc[w] = "put" =>
        /\ snap[w].rev <= Stored(w).rev
        /\ RevIsCurrent(w) => snap[w] = Stored(w)
        /\ JobOf[w] \notin snap[w].ids

Safe == AppliedAtMostOnce /\ MarkerMatchesContent /\ NoLostEdit

\* A writer in the middle of its job has its marker in the documents before
\* its current target.
EarlierTargetsMarked ==
    \A w \in Writer : \A i \in 1 .. Len(Targets[JobOf[w]]) :
        i < target[w] => JobOf[w] \in docs[Targets[JobOf[w]][i]].ids

IInv == TypeOK /\ SnapsAreOld /\ Safe /\ EarlierTargetsMarked /\ DoneIsComplete

-----------------------------------------------------------------------------
(***************************************************************************)
(* Types                                                                    *)
(***************************************************************************)
\* A writer's job, its targets and its current document are what they should
\* be: apply_canonical_rmw is always called on one of the job's documents.
LEMMA CurrentType ==
    ASSUME TypeOK, NEW w \in Writer
    PROVE  /\ JobOf[w] \in Job
           /\ Len(Targets[JobOf[w]]) \in Nat \ {0}
           /\ \A i \in 1 .. Len(Targets[JobOf[w]]) : Targets[JobOf[w]][i] \in Doc
           /\ target[w] \in 1 .. Len(Targets[JobOf[w]])
           /\ Current(w) \in Doc
           /\ Stored(w) \in Body
           /\ snap[w] \in Body
<1>1. JobOf[w] \in Job /\ Targets[JobOf[w]] \in Seq(Doc) /\ Len(Targets[JobOf[w]]) > 0
  BY JobOfAssumption, TargetsAssumption
<1>2. /\ Len(Targets[JobOf[w]]) \in Nat \ {0}
      /\ \A i \in 1 .. Len(Targets[JobOf[w]]) : Targets[JobOf[w]][i] \in Doc
  BY <1>1
<1>3. target[w] \in 1 .. Len(Targets[JobOf[w]]) /\ snap[w] \in Body
  BY DEF TypeOK
<1>4. Current(w) \in Doc
  BY <1>2, <1>3 DEF Current
<1>5. Stored(w) \in Body
  BY <1>4 DEF Stored, TypeOK
<1> QED BY <1>1, <1>2, <1>3, <1>4, <1>5

\* The body a PUT carries is a document body of a newer revision.
LEMMA OutgoingType ==
    ASSUME TypeOK, NEW w \in Writer
    PROVE  Outgoing(w) \in Body
BY CurrentType DEF Outgoing, Body

\* The body another program's edit leaves behind is a document body.
LEMMA EditedType ==
    ASSUME NEW b \in Body
    PROVE  Edited(b) \in Body
<1>1. [b EXCEPT !.rev = @ + 1] \in Body
  BY DEF Body
<1>2. \A x \in Body : [x EXCEPT !.edits = @ + 1] \in Body
  BY DEF Body
<1>3. Edited(b) = [[b EXCEPT !.rev = @ + 1] EXCEPT !.edits = @ + 1]
  BY DEF Body, Edited
<1> QED BY <1>1, <1>2, <1>3

\* The two ways apply_canonical_rmw ends keep the types of the writers' state.
LEMMA EndsTyped ==
    ASSUME TypeOK, NEW w \in Writer, Return(w) \/ Fail(w)
    PROVE  /\ pc' \in [Writer -> Stopped \cup {"check", "fetch", "put"}]
           /\ target' \in [Writer -> Nat]
           /\ \A v \in Writer : target'[v] \in 1 .. Len(Targets[JobOf[v]])
           /\ snap' \in [Writer -> Body]
           /\ attempt' \in [Writer -> {0, 1}]
           /\ base' \in [Writer -> Nat]
<1>1. Missing \in Body
  BY DEF Missing, Body
<1>2. \A v \in Writer : Len(Targets[JobOf[v]]) \in Nat \ {0} /\ target[v] \in 1 .. Len(Targets[JobOf[v]])
  BY CurrentType
<1>3. snap' \in [Writer -> Body] /\ attempt' \in [Writer -> {0, 1}] /\ base' \in [Writer -> Nat]
  <2>1. DropLocals(w)
    BY DEF Return, Fail
  <2> QED BY <1>1, <2>1 DEF TypeOK, DropLocals
<1>4. CASE Fail(w)
  BY <1>2, <1>3, <1>4 DEF Fail, TypeOK, Stopped
<1>5. CASE Return(w)
  <2>1. CASE target[w] < Len(Targets[JobOf[w]])
    <3>1. pc' = [pc EXCEPT ![w] = "check"] /\ target' = [target EXCEPT ![w] = @ + 1]
      BY <1>5, <2>1 DEF Return
    <3>2. target[w] + 1 \in 1 .. Len(Targets[JobOf[w]])
      BY <1>2, <2>1
    <3> QED BY <1>2, <1>3, <3>1, <3>2 DEF TypeOK, Stopped
  <2>2. CASE ~ (target[w] < Len(Targets[JobOf[w]]))
    <3>1. pc' = [pc EXCEPT ![w] = "done"] /\ target' = [target EXCEPT ![w] = 1]
      BY <1>5, <2>2 DEF Return
    <3> QED BY <1>2, <1>3, <3>1 DEF TypeOK, Stopped
  <2> QED BY <2>1, <2>2
<1> QED BY <1>4, <1>5

\* The initial state is typed.
LEMMA InitTyped == Init => TypeOK
<1> SUFFICES ASSUME Init PROVE TypeOK
  OBVIOUS
<1>1. Missing \in Body /\ [Missing EXCEPT !.rev = 1] \in Body
  BY DEF Missing, Body
<1>2. \A w \in Writer : 1 \in 1 .. Len(Targets[JobOf[w]])
  BY JobOfAssumption, TargetsAssumption
<1> QED BY <1>1, <1>2 DEF Init, TypeOK, Stopped

\* Every request, failure and restart of a writer, and every edit of another
\* program, keeps the types.
LEMMA StepTyped == TypeOK /\ [Next]_vars => TypeOK'
<1> SUFFICES ASSUME TypeOK, [Next]_vars PROVE TypeOK'
  OBVIOUS
<1>1. ASSUME NEW w \in Writer, StartJob(w) PROVE TypeOK'
  BY <1>1 DEF StartJob, TypeOK
<1>2. ASSUME NEW w \in Writer, Check(w) PROVE TypeOK'
  <2>1. CASE Return(w) \/ Fail(w)
    BY <1>2, <2>1, EndsTyped DEF Check, TypeOK
  <2>2. CASE ~ (Return(w) \/ Fail(w))
    <3>1. Stored(w).rev \in Nat
      BY CurrentType DEF Body
    <3> QED BY <1>2, <2>2, <3>1 DEF Check, TypeOK
  <2> QED BY <2>1, <2>2
<1>3. ASSUME NEW w \in Writer, Fetch(w) PROVE TypeOK'
  <2>1. CASE Return(w) \/ Fail(w)
    BY <1>3, <2>1, EndsTyped DEF Fetch, TypeOK
  <2>2. CASE ~ (Return(w) \/ Fail(w))
    <3>1. Stored(w) \in Body
      BY CurrentType
    <3> QED BY <1>3, <2>2, <3>1 DEF Fetch, TypeOK
  <2> QED BY <2>1, <2>2
<1>4. ASSUME NEW w \in Writer, Put(w) PROVE TypeOK'
  <2>1. docs' \in [Doc -> Body]
    BY <1>4, OutgoingType DEF Put, TypeOK
  <2>2. Return(w) \/ Fail(w)
    BY <1>4 DEF Put
  <2> QED BY <1>4, <2>1, <2>2, EndsTyped DEF Put, TypeOK
<1>5. ASSUME NEW w \in Writer, PutConflict(w) PROVE TypeOK'
  <2>1. CASE Fail(w)
    BY <1>5, <2>1, EndsTyped DEF PutConflict, TypeOK
  <2>2. CASE ~ Fail(w)
    <3>1. Missing \in Body
      BY DEF Missing, Body
    <3> QED BY <1>5, <2>2, <3>1 DEF PutConflict, TypeOK
  <2> QED BY <2>1, <2>2
<1>6. ASSUME NEW w \in Writer, StopsShort(w) PROVE TypeOK'
  BY <1>6, EndsTyped DEF StopsShort, TypeOK
<1>7. ASSUME NEW d \in Doc, ForeignEdit(d) PROVE TypeOK'
  <2>1. docs' \in [Doc -> Body] /\ acked' \in [Doc -> Nat]
    <3>1. docs[d] \in Body /\ acked[d] \in Nat
      BY DEF TypeOK
    <3>2. Edited(docs[d]) \in Body
      BY <3>1, EditedType
    <3> QED BY <1>7, <3>1, <3>2 DEF ForeignEdit, TypeOK
  <2> QED BY <1>7, <2>1 DEF ForeignEdit, TypeOK
<1>8. CASE UNCHANGED vars
  BY <1>8 DEF vars, TypeOK
<1> QED BY <1>1, <1>2, <1>3, <1>4, <1>5, <1>6, <1>7, <1>8 DEF Next, WriterStep

\* Type correctness, and with it the bound of update_doc on its retries: at
\* most one refetch, whatever the other writers do.
THEOREM TypeCorrect == Spec => []TypeOK
BY InitTyped, StepTyped, PTL DEF Spec

-----------------------------------------------------------------------------
(***************************************************************************)
(* What a step does to the documents                                        *)
(***************************************************************************)
\* A document changes only into a newer revision, and keeps its markers.
Grows == \A d \in Doc :
    \/ docs'[d] = docs[d]
    \/ docs'[d].rev > docs[d].rev /\ docs[d].ids \subseteq docs'[d].ids

\* A PUT that CouchDB accepts replaces the body its writer had read, which by
\* then is still the stored one and lacks the writer's marker.
LEMMA PutEffect ==
    ASSUME TypeOK, SnapsAreOld, NEW w \in Writer, Put(w)
    PROVE  /\ Current(w) \in Doc /\ JobOf[w] \in Job
           /\ docs[Current(w)] \in Body
           /\ JobOf[w] \notin docs[Current(w)].ids
           /\ \A d \in Doc \ {Current(w)} : docs'[d] = docs[d]
           /\ docs'[Current(w)].rev = docs[Current(w)].rev + 1
           /\ docs'[Current(w)].ids = docs[Current(w)].ids \cup {JobOf[w]}
           /\ docs'[Current(w)].edits = docs[Current(w)].edits
           /\ docs'[Current(w)].content
                 = [docs[Current(w)].content EXCEPT ![JobOf[w]] = @ + 1]
<1>1. Current(w) \in Doc /\ JobOf[w] \in Job /\ docs[Current(w)] \in Body
  BY CurrentType DEF Stored
<1>2. snap[w] = docs[Current(w)] /\ JobOf[w] \notin snap[w].ids
  BY DEF Put, SnapsAreOld, Stored
<1>3. docs' = [docs EXCEPT ![Current(w)] = Outgoing(w)]
  BY DEF Put
<1>4. docs'[Current(w)] = Outgoing(w) /\ \A d \in Doc \ {Current(w)} : docs'[d] = docs[d]
  BY <1>1, <1>3 DEF TypeOK
<1> QED BY <1>1, <1>2, <1>4 DEF Outgoing

\* An edit of another program changes nothing but the revision and its count.
LEMMA EditEffect ==
    ASSUME TypeOK, NEW e \in Doc, ForeignEdit(e)
    PROVE  /\ \A d \in Doc \ {e} : docs'[d] = docs[d] /\ acked'[d] = acked[d]
           /\ docs'[e].rev = docs[e].rev + 1
           /\ docs'[e].edits = docs[e].edits + 1 /\ acked'[e] = acked[e] + 1
           /\ docs'[e].ids = docs[e].ids /\ docs'[e].content = docs[e].content
<1>1. docs[e] \in Body
  BY DEF TypeOK
<1>2. docs'[e] = Edited(docs[e]) /\ acked'[e] = acked[e] + 1
  BY DEF ForeignEdit, TypeOK
<1>3. \A d \in Doc \ {e} : docs'[d] = docs[d] /\ acked'[d] = acked[d]
  BY DEF ForeignEdit, TypeOK
<1> QED BY <1>1, <1>2, <1>3 DEF Edited, Body

\* The requests that only read, and the failures, write nothing.
Reads(w) == StartJob(w) \/ Check(w) \/ Fetch(w) \/ PutConflict(w) \/ StopsShort(w)

\* A request that only reads, a refused PUT and a failure leave CouchDB alone.
LEMMA ReadsWriteNothing ==
    ASSUME NEW w \in Writer, Reads(w)
    PROVE  UNCHANGED <<docs, acked>>
BY DEF Reads, StartJob, Check, Fetch, PutConflict, StopsShort

\* A document's revision never goes back, and its markers are never removed.
LEMMA StepGrows ==
    ASSUME TypeOK, SnapsAreOld, [Next]_vars
    PROVE  Grows
<1>1. \A d \in Doc : docs[d].rev \in Nat
  BY DEF TypeOK, Body
<1>2. ASSUME NEW w \in Writer, Put(w) PROVE Grows
  <2>1. docs'[Current(w)].rev > docs[Current(w)].rev
    <3>1. /\ Current(w) \in Doc
          /\ docs'[Current(w)].rev = docs[Current(w)].rev + 1
      BY <1>2, PutEffect
    <3>2. docs[Current(w)].rev \in Nat
      BY <1>1, <3>1
    <3> HIDE DEF Current
    <3> QED BY <3>1, <3>2
  <2>2. docs[Current(w)].ids \subseteq docs'[Current(w)].ids
    BY <1>2, PutEffect
  <2>3. \A d \in Doc \ {Current(w)} : docs'[d] = docs[d]
    BY <1>2, PutEffect
  <2> QED BY <2>1, <2>2, <2>3 DEF Grows
<1>3. ASSUME NEW e \in Doc, ForeignEdit(e) PROVE Grows
  <2>1. docs'[e].rev > docs[e].rev /\ docs[e].ids \subseteq docs'[e].ids
    BY <1>1, <1>3, EditEffect
  <2>2. \A d \in Doc \ {e} : docs'[d] = docs[d]
    BY <1>3, EditEffect
  <2> QED BY <2>1, <2>2 DEF Grows
<1>4. ASSUME NEW w \in Writer, Reads(w) PROVE Grows
  BY <1>4, ReadsWriteNothing DEF Grows
<1>5. CASE UNCHANGED vars
  BY <1>5 DEF vars, Grows
<1> QED BY <1>2, <1>3, <1>4, <1>5 DEF Next, WriterStep, Reads

-----------------------------------------------------------------------------
(***************************************************************************)
(* What a step does to a writer                                             *)
(***************************************************************************)
\* A writer about to PUT was there before, with the same copy of the same
\* document, or has just fetched it.
LEMMA PutPrepared ==
    ASSUME TypeOK, [Next]_vars, NEW v \in Writer, pc'[v] = "put"
    PROVE  \/ pc[v] = "put" /\ snap'[v] = snap[v] /\ target'[v] = target[v]
           \/ /\ Fetch(v) /\ docs' = docs /\ target'[v] = target[v]
              /\ snap'[v] = Stored(v) /\ JobOf[v] \notin Stored(v).ids
<1>1. ASSUME NEW w \in Writer, Return(w) \/ Fail(w)
      PROVE  pc[v] = "put" /\ snap'[v] = snap[v] /\ target'[v] = target[v]
  <2>1. w # v
    BY <1>1 DEF Return, Fail, TypeOK
  <2>2. CASE Return(w)
    BY <2>1, <2>2 DEF Return, DropLocals, TypeOK
  <2>3. CASE Fail(w)
    BY <2>1, <2>3 DEF Fail, DropLocals, TypeOK
  <2> QED BY <1>1, <2>2, <2>3
<1>2. ASSUME NEW w \in Writer, StartJob(w)
      PROVE  pc[v] = "put" /\ snap'[v] = snap[v] /\ target'[v] = target[v]
  BY <1>2 DEF StartJob, TypeOK
<1>3. ASSUME NEW w \in Writer, Check(w), ~ (Return(w) \/ Fail(w))
      PROVE  pc[v] = "put" /\ snap'[v] = snap[v] /\ target'[v] = target[v]
  BY <1>3 DEF Check, TypeOK
<1>4. ASSUME NEW w \in Writer, Fetch(w), ~ (Return(w) \/ Fail(w))
      PROVE  \/ pc[v] = "put" /\ snap'[v] = snap[v] /\ target'[v] = target[v]
             \/ /\ Fetch(v) /\ docs' = docs /\ target'[v] = target[v]
                /\ snap'[v] = Stored(v) /\ JobOf[v] \notin Stored(v).ids
  <2>1. CASE w = v
    BY <1>4, <2>1 DEF Fetch, AlreadyApplied, TypeOK
  <2>2. CASE w # v
    BY <1>4, <2>2 DEF Fetch, TypeOK
  <2> QED BY <2>1, <2>2
<1>5. ASSUME NEW w \in Writer, PutConflict(w), ~ Fail(w)
      PROVE  pc[v] = "put" /\ snap'[v] = snap[v] /\ target'[v] = target[v]
  BY <1>5 DEF PutConflict, TypeOK
<1>6. ASSUME NEW e \in Doc, ForeignEdit(e)
      PROVE  pc[v] = "put" /\ snap'[v] = snap[v] /\ target'[v] = target[v]
  BY <1>6 DEF ForeignEdit
<1>7. CASE UNCHANGED vars
  BY <1>7 DEF vars
<1>8. ASSUME NEW w \in Writer, Put(w) \/ StopsShort(w)
      PROVE  Return(w) \/ Fail(w)
  BY <1>8 DEF Put, StopsShort
<1> QED BY <1>1, <1>2, <1>3, <1>4, <1>5, <1>6, <1>7, <1>8 DEF Next, WriterStep

\* The copy a writer is about to PUT stays old or exact.
LEMMA SnapsStayOld ==
    ASSUME TypeOK, SnapsAreOld, [Next]_vars
    PROVE  SnapsAreOld'
<1> SUFFICES ASSUME NEW v \in Writer, pc'[v] = "put"
             PROVE  /\ snap'[v].rev <= Stored(v)'.rev
                    /\ snap'[v].rev = Stored(v)'.rev => snap'[v] = Stored(v)'
                    /\ JobOf[v] \notin snap'[v].ids
  BY DEF SnapsAreOld, RevIsCurrent
<1>1. target'[v] = target[v] /\ Stored(v)' = docs'[Current(v)]
  BY PutPrepared DEF Stored, Current
<1>2. Current(v) \in Doc /\ Stored(v) \in Body /\ snap[v] \in Body
  BY CurrentType
<1>3. TypeOK' /\ Grows
  BY StepTyped, StepGrows
<1>4. Stored(v)' \in Body
  BY <1>1, <1>2, <1>3 DEF TypeOK
<1>5. CASE pc[v] = "put" /\ snap'[v] = snap[v]
  <2>1. /\ snap[v].rev <= Stored(v).rev
        /\ snap[v].rev = Stored(v).rev => snap[v] = Stored(v)
        /\ JobOf[v] \notin snap[v].ids
    BY <1>5 DEF SnapsAreOld, RevIsCurrent
  <2>2. snap[v].rev \in Nat /\ Stored(v).rev \in Nat /\ Stored(v)'.rev \in Nat
    BY <1>2, <1>4 DEF Body
  <2>3. Stored(v)' = Stored(v) \/ Stored(v)'.rev > Stored(v).rev
    BY <1>1, <1>2, <1>3 DEF Grows, Stored
  <2> QED BY <1>5, <2>1, <2>2, <2>3
<1>6. CASE docs' = docs /\ snap'[v] = Stored(v) /\ JobOf[v] \notin Stored(v).ids
  <2>1. Stored(v)' = Stored(v)
    BY <1>1, <1>6 DEF Stored
  <2> QED BY <1>2, <1>6, <2>1 DEF Body
<1> QED BY <1>5, <1>6, PutPrepared

-----------------------------------------------------------------------------
(***************************************************************************)
(* The inductive invariant                                                  *)
(***************************************************************************)
\* A PUT enters a job that was not there, with its marker; an edit is counted.
LEMMA SafeKept ==
    ASSUME TypeOK, SnapsAreOld, Safe, [Next]_vars
    PROVE  Safe'
<1> USE DEF Safe, AppliedAtMostOnce, MarkerMatchesContent, NoLostEdit
<1>1. ASSUME NEW w \in Writer, Put(w) PROVE Safe'
  <2> DEFINE c == Current(w)
  <2>1. /\ c \in Doc /\ JobOf[w] \in Job /\ docs[c] \in Body
        /\ JobOf[w] \notin docs[c].ids
        /\ \A d \in Doc \ {c} : docs'[d] = docs[d]
        /\ docs'[c].ids = docs[c].ids \cup {JobOf[w]}
        /\ docs'[c].edits = docs[c].edits
        /\ docs'[c].content = [docs[c].content EXCEPT ![JobOf[w]] = @ + 1]
    BY <1>1, PutEffect
  <2> HIDE DEF c
  <2>2. docs[c].content \in [Job -> Nat]
    BY <2>1 DEF Body
  <2>3. docs[c].content[JobOf[w]] = 0
    BY <2>1, <2>2
  <2>4. docs'[c].content[JobOf[w]] = 1
    BY <2>1, <2>2, <2>3
  <2>5. \A j \in Job \ {JobOf[w]} : docs'[c].content[j] = docs[c].content[j]
    BY <2>1, <2>2
  <2>6. acked' = acked
    BY <1>1 DEF Put
  <2>7. AppliedAtMostOnce'
    <3> SUFFICES ASSUME NEW d \in Doc, NEW j \in Job
                 PROVE  docs'[d].content[j] <= 1
      OBVIOUS
    <3>1. CASE d # c
      BY <2>1, <3>1
    <3>2. CASE d = c /\ j = JobOf[w]
      BY <2>4, <3>2
    <3>3. CASE d = c /\ j # JobOf[w]
      BY <2>1, <2>5, <3>3
    <3> QED BY <3>1, <3>2, <3>3
  <2>8. MarkerMatchesContent'
    <3> SUFFICES ASSUME NEW d \in Doc, NEW j \in Job
                 PROVE  j \in docs'[d].ids <=> docs'[d].content[j] > 0
      OBVIOUS
    <3>1. CASE d # c
      BY <2>1, <3>1
    <3>2. CASE d = c /\ j = JobOf[w]
      BY <2>1, <2>4, <3>2
    <3>3. CASE d = c /\ j # JobOf[w]
      BY <2>1, <2>5, <3>3
    <3> QED BY <3>1, <3>2, <3>3
  <2>9. NoLostEdit'
    BY <2>1, <2>6
  <2> QED BY <2>7, <2>8, <2>9
<1>2. ASSUME NEW e \in Doc, ForeignEdit(e) PROVE Safe'
  <2>1. \A d \in Doc : docs'[d].ids = docs[d].ids /\ docs'[d].content = docs[d].content
    BY <1>2, EditEffect
  <2>2. \A d \in Doc : docs'[d].edits = acked'[d]
    <3>1. docs'[e].edits = acked'[e]
      BY <1>2, EditEffect
    <3>2. \A d \in Doc \ {e} : docs'[d].edits = acked'[d]
      BY <1>2, EditEffect
    <3> QED BY <3>1, <3>2
  <2> QED BY <2>1, <2>2
<1>3. ASSUME NEW w \in Writer, Reads(w) PROVE Safe'
  BY <1>3, ReadsWriteNothing
<1>4. CASE UNCHANGED vars
  BY <1>4 DEF vars
<1> QED BY <1>1, <1>2, <1>3, <1>4 DEF Next, WriterStep, Reads

\* A handler that goes on after a target, or ends, leaves its marker behind.
LEMMA ReturnKeeps ==
    ASSUME TypeOK, EarlierTargetsMarked, DoneIsComplete, Grows,
           NEW w \in Writer, Return(w), JobOf[w] \in docs'[Current(w)].ids
    PROVE  EarlierTargetsMarked' /\ DoneIsComplete'
<1>1. \A d \in Doc : docs[d].ids \subseteq docs'[d].ids
  BY DEF Grows
<1>2. \A v \in Writer : /\ Len(Targets[JobOf[v]]) \in Nat \ {0}
                        /\ target[v] \in 1 .. Len(Targets[JobOf[v]])
                        /\ \A i \in 1 .. Len(Targets[JobOf[v]]) : Targets[JobOf[v]][i] \in Doc
  BY CurrentType
<1>3. \A v \in Writer : \A i \in 1 .. Len(Targets[JobOf[v]]) :
         i < target[v] => JobOf[v] \in docs'[Targets[JobOf[v]][i]].ids
  BY <1>1, <1>2 DEF EarlierTargetsMarked
<1>4. \A i \in 1 .. Len(Targets[JobOf[w]]) :
         i <= target[w] => JobOf[w] \in docs'[Targets[JobOf[w]][i]].ids
  BY <1>2, <1>3 DEF Current
<1>5. \A v \in Writer \ {w} : target'[v] = target[v] /\ pc'[v] = pc[v]
  BY DEF Return, TypeOK
<1>6. \A v \in Writer \ {w} : pc[v] = "done" =>
         \A i \in 1 .. Len(Targets[JobOf[v]]) : JobOf[v] \in docs'[Targets[JobOf[v]][i]].ids
  BY <1>1, <1>2 DEF DoneIsComplete
<1>7. CASE target[w] < Len(Targets[JobOf[w]])
  <2>1. target'[w] = target[w] + 1 /\ pc'[w] = "check"
    BY <1>7 DEF Return, TypeOK
  <2>2. EarlierTargetsMarked'
    BY <1>2, <1>3, <1>4, <1>5, <2>1 DEF EarlierTargetsMarked
  <2>3. DoneIsComplete'
    BY <1>5, <1>6, <2>1 DEF DoneIsComplete
  <2> QED BY <2>2, <2>3
<1>8. CASE ~ (target[w] < Len(Targets[JobOf[w]]))
  <2>1. target'[w] = 1 /\ target[w] = Len(Targets[JobOf[w]])
    BY <1>2, <1>8 DEF Return, TypeOK
  <2>2. EarlierTargetsMarked'
    BY <1>2, <1>3, <1>5, <2>1 DEF EarlierTargetsMarked
  <2>3. DoneIsComplete'
    BY <1>2, <1>4, <1>5, <1>6, <2>1 DEF DoneIsComplete
  <2> QED BY <2>2, <2>3
<1> QED BY <1>7, <1>8

\* Every other step leaves the writers at their targets, or starts one over.
LEMMA OthersKeep ==
    ASSUME TypeOK, EarlierTargetsMarked, DoneIsComplete, Grows,
           \A v \in Writer : /\ target'[v] \in {target[v], 1}
                             /\ pc'[v] = "done" => pc[v] = "done"
    PROVE  EarlierTargetsMarked' /\ DoneIsComplete'
<1>1. \A d \in Doc : docs[d].ids \subseteq docs'[d].ids
  BY DEF Grows
<1>2. \A v \in Writer : /\ Len(Targets[JobOf[v]]) \in Nat \ {0}
                        /\ \A i \in 1 .. Len(Targets[JobOf[v]]) : Targets[JobOf[v]][i] \in Doc
  BY CurrentType
<1>3. EarlierTargetsMarked'
  BY <1>1, <1>2 DEF EarlierTargetsMarked
<1>4. DoneIsComplete'
  BY <1>1, <1>2 DEF DoneIsComplete
<1> QED BY <1>3, <1>4

\* A writer has its marker in every target it has passed, after every step.
LEMMA TargetsKept ==
    ASSUME TypeOK, SnapsAreOld, EarlierTargetsMarked, DoneIsComplete, [Next]_vars
    PROVE  EarlierTargetsMarked' /\ DoneIsComplete'
<1>1. Grows
  BY StepGrows
<1> DEFINE Stays == \A v \in Writer : /\ target'[v] \in {target[v], 1}
                                      /\ pc'[v] = "done" => pc[v] = "done"
<1>2. ASSUME NEW w \in Writer, Fail(w) PROVE Stays
  BY <1>2 DEF Fail, TypeOK
<1>3. ASSUME NEW w \in Writer, StartJob(w) PROVE Stays
  BY <1>3 DEF StartJob, TypeOK
<1>4. ASSUME NEW w \in Writer, Check(w) \/ Fetch(w), ~ Return(w), ~ Fail(w) PROVE Stays
  BY <1>4 DEF Check, Fetch, TypeOK
<1>5. ASSUME NEW w \in Writer, Check(w) \/ Fetch(w), Return(w), ~ Fail(w)
      PROVE  JobOf[w] \in docs'[Current(w)].ids
  <2>1. pc'[w] \in {"check", "done"}
    BY <1>5 DEF Return, TypeOK
  <2>2. AlreadyApplied(Stored(w), JobOf[w]) /\ docs' = docs
    BY <1>5, <2>1 DEF Check, Fetch, TypeOK
  <2> QED BY <2>2 DEF AlreadyApplied, Stored
<1>6. ASSUME NEW w \in Writer, Put(w), Return(w)
      PROVE  JobOf[w] \in docs'[Current(w)].ids
  BY <1>6, PutEffect
<1>7. ASSUME NEW w \in Writer, PutConflict(w), ~ Fail(w) PROVE Stays
  BY <1>7 DEF PutConflict, TypeOK
<1>8. ASSUME NEW e \in Doc, ForeignEdit(e) PROVE Stays
  BY <1>8 DEF ForeignEdit
<1>9. CASE UNCHANGED vars
  <2>1. Stays
    BY <1>9 DEF vars
  <2> QED BY <1>1, <2>1, OthersKeep
<1>10. ASSUME NEW w \in Writer, WriterStep(w)
       PROVE  EarlierTargetsMarked' /\ DoneIsComplete'
  <2>1. CASE Fail(w)
    BY <1>1, <1>2, <2>1, OthersKeep
  <2>2. CASE StartJob(w)
    BY <1>1, <1>3, <2>2, OthersKeep
  <2>3. CASE (Check(w) \/ Fetch(w)) /\ ~ Return(w) /\ ~ Fail(w)
    BY <1>1, <1>4, <2>3, OthersKeep
  <2>4. CASE (Check(w) \/ Fetch(w)) /\ Return(w) /\ ~ Fail(w)
    BY <1>1, <1>5, <2>4, ReturnKeeps
  <2>5. CASE Put(w) /\ Return(w)
    BY <1>1, <1>6, <2>5, ReturnKeeps
  <2>6. CASE PutConflict(w) /\ ~ Fail(w)
    BY <1>1, <1>7, <2>6, OthersKeep
  <2>7. Put(w) => Return(w) \/ Fail(w)
    BY DEF Put
  <2>8. StopsShort(w) => Fail(w)
    BY DEF StopsShort
  <2> QED BY <1>10, <2>1, <2>2, <2>3, <2>4, <2>5, <2>6, <2>7, <2>8 DEF WriterStep
<1>11. ASSUME NEW e \in Doc, ForeignEdit(e)
       PROVE  EarlierTargetsMarked' /\ DoneIsComplete'
  BY <1>1, <1>8, <1>11, OthersKeep
<1> QED BY <1>9, <1>10, <1>11 DEF Next

\* The initial state satisfies the inductive invariant.
LEMMA InitInvariant == Init => IInv
<1> SUFFICES ASSUME Init PROVE IInv
  OBVIOUS
<1>1. TypeOK
  BY InitTyped
<1>2. SnapsAreOld /\ DoneIsComplete
  BY DEF Init, SnapsAreOld, DoneIsComplete
<1>3. \A d \in Doc : docs[d].ids = {} /\ docs[d].edits = 0 /\ docs[d].content = [j \in Job |-> 0]
  BY DEF Init, Missing
<1>4. Safe
  <2>1. \A d \in Doc : acked[d] = 0
    BY DEF Init
  <2> QED BY <1>3, <2>1 DEF Safe, AppliedAtMostOnce, MarkerMatchesContent, NoLostEdit
<1>5. EarlierTargetsMarked
  <2>1. \A w \in Writer : target[w] = 1 /\ Len(Targets[JobOf[w]]) \in Nat
    BY <1>1, CurrentType DEF Init
  <2> QED BY <2>1 DEF EarlierTargetsMarked
<1> QED BY <1>1, <1>2, <1>4, <1>5 DEF IInv

\* Every step keeps the inductive invariant.
LEMMA InvariantKept == IInv /\ [Next]_vars => IInv'
BY StepTyped, SnapsStayOld, SafeKept, TargetsKept DEF IInv

\* The inductive invariant holds throughout: types, old copies, marked targets
\* and the safety properties that rest on them.
THEOREM Invariant == Spec => []IInv
BY InitInvariant, InvariantKept, PTL DEF Spec

\* A job's mutation enters a document at most once: for every number of
\* concurrent writers of the same job, every restart, lost answer and conflict.
THEOREM AppliedOnce == Spec => []AppliedAtMostOnce
BY Invariant, PTL DEF IInv, Safe

\* A document has a job's marker exactly when it has the job's mutation.
THEOREM MarkerTrue == Spec => []MarkerMatchesContent
BY Invariant, PTL DEF IInv, Safe

\* No acknowledged edit of another program is overwritten.
THEOREM NothingOverwritten == Spec => []NoLostEdit
BY Invariant, PTL DEF IInv, Safe

\* A handler that ends normally has left its marker in all its targets.
THEOREM Completion == Spec => []DoneIsComplete
BY Invariant, PTL DEF IInv

-----------------------------------------------------------------------------
(***************************************************************************)
(* Refinement: the protocol implements the ledger                           *)
(***************************************************************************)
Entered(d) == {j \in Job : docs[d].content[j] > 0}

\* The initial documents are an empty ledger.
LEMMA LedgerInitially == Init => Ledger!LedgerInit
<1> SUFFICES ASSUME Init PROVE Ledger!LedgerInit
  OBVIOUS
<1>1. \A d \in Doc : docs[d].content = [j \in Job |-> 0] /\ docs[d].edits = 0
  BY DEF Init, Missing
<1>2. \A d \in Doc : {j \in Job : docs[d].content[j] > 0} = {}
  BY <1>1
<1> QED BY <1>1, <1>2 DEF Ledger!LedgerInit

\* A PUT is the ledger's Enter, an edit its Absorb, and the rest stutters.
LEMMA LedgerStep ==
    ASSUME IInv, [Next]_vars
    PROVE  [Ledger!LedgerNext]_(Ledger!ledgerVars)
<1> USE DEF IInv
<1>1. ASSUME NEW w \in Writer, Put(w) PROVE Ledger!LedgerNext
  <2> DEFINE k == JobOf[w]
  <2>0. PICK c \in Doc : c = Current(w)
    BY CurrentType
  <2>1. /\ c \in Doc /\ k \in Job /\ docs[c] \in Body /\ k \notin docs[c].ids
        /\ \A d \in Doc \ {c} : docs'[d] = docs[d]
        /\ docs'[c].edits = docs[c].edits
        /\ docs'[c].content = [docs[c].content EXCEPT ![k] = @ + 1]
    BY <1>1, <2>0, PutEffect
  <2> HIDE DEF k
  <2>2. docs[c].content \in [Job -> Nat]
    BY <2>1 DEF Body
  <2>3. docs[c].content[k] = 0
    BY <2>1, <2>2 DEF Safe, MarkerMatchesContent
  <2>4. k \notin Entered(c) /\ Entered(c)' = Entered(c) \cup {k}
    BY <2>1, <2>2, <2>3 DEF Entered
  <2>5. \A d \in Doc \ {c} : Entered(d)' = Entered(d)
    BY <2>1 DEF Entered
  <2>6. [d \in Doc |-> Entered(d)]' = [[d \in Doc |-> Entered(d)] EXCEPT ![c] = @ \cup {k}]
    BY <2>1, <2>4, <2>5
  <2>7. [d \in Doc |-> docs[d].edits]' = [d \in Doc |-> docs[d].edits]
    BY <2>1
  <2>8. Ledger!Enter(c, k)
    BY <2>1, <2>4, <2>6, <2>7 DEF Ledger!Enter, Entered
  <2> QED BY <2>1, <2>8 DEF Ledger!LedgerNext
<1>2. ASSUME NEW e \in Doc, ForeignEdit(e) PROVE Ledger!LedgerNext
  <2>1. /\ \A d \in Doc \ {e} : docs'[d] = docs[d]
        /\ docs'[e].edits = docs[e].edits + 1
        /\ docs'[e].content = docs[e].content
    BY <1>2, EditEffect
  <2>2. \A d \in Doc : docs'[d].content = docs[d].content
    BY <2>1
  <2>3. [d \in Doc |-> docs[d].edits]' = [[d \in Doc |-> docs[d].edits] EXCEPT ![e] = @ + 1]
    BY <2>1
  <2>4. [d \in Doc |-> {j \in Job : docs[d].content[j] > 0}]'
           = [d \in Doc |-> {j \in Job : docs[d].content[j] > 0}]
    BY <2>2
  <2>5. Ledger!Absorb(e)
    BY <2>3, <2>4 DEF Ledger!Absorb
  <2> QED BY <2>5 DEF Ledger!LedgerNext
<1>3. ASSUME docs' = docs PROVE UNCHANGED Ledger!ledgerVars
  BY <1>3 DEF Ledger!ledgerVars
<1>4. ASSUME NEW w \in Writer, Reads(w) PROVE docs' = docs
  BY <1>4, ReadsWriteNothing
<1>5. UNCHANGED vars => docs' = docs
  BY DEF vars
<1> QED BY <1>1, <1>2, <1>3, <1>4, <1>5 DEF Next, WriterStep, Reads

\* The request-by-request protocol is the atomic ledger, for every number of
\* writers: nobody observes a job entered twice or an entry that vanished.
THEOREM Refinement == Spec => ImplementsLedger
BY Invariant, LedgerInitially, LedgerStep, PTL DEF Spec, ImplementsLedger, Ledger!LedgerSpec

-----------------------------------------------------------------------------
(***************************************************************************)
(* Giving up on a conflict                                                  *)
(***************************************************************************)
\* Every iteration of update_doc beyond the first saw one more revision of the
\* document than there was when update_doc began.
RetrySawWrite(w) ==
    /\ pc[w] = "fetch" => Stored(w).rev >= base[w] + attempt[w]
    /\ pc[w] = "put" => snap[w].rev >= base[w] + attempt[w]
    /\ pc[w] \notin {"fetch", "put"} => attempt[w] = 0

RetriesSawWrites == \A w \in Writer : RetrySawWrite(w)

\* Every step keeps the bound between a retry and the writes it has seen.
LEMMA RetriesKept ==
    ASSUME IInv, RetriesSawWrites, [Next]_vars
    PROVE  RetriesSawWrites'
<1> USE DEF IInv
<1>1. \A v \in Writer :
         /\ Current(v) \in Doc /\ Stored(v).rev \in Nat /\ snap[v].rev \in Nat
         /\ base[v] \in Nat /\ attempt[v] \in {0, 1}
  BY CurrentType DEF Body, TypeOK
<1>2. ASSUME NEW d \in Doc
      PROVE  /\ docs[d].rev \in Nat /\ docs'[d].rev \in Nat
             /\ docs'[d].rev >= docs[d].rev
  <2>1. docs[d].rev \in Nat /\ docs'[d].rev \in Nat
    BY StepTyped DEF TypeOK, Body
  <2> QED BY <2>1, StepGrows DEF Grows
\* A step that is not v's own only makes the stored revision newer.
<1>3. ASSUME NEW v \in Writer, pc'[v] = pc[v], target'[v] = target[v], snap'[v] = snap[v],
             attempt'[v] = attempt[v], base'[v] = base[v]
      PROVE  RetrySawWrite(v)'
  <2>1. Stored(v)' = docs'[Current(v)]
    BY <1>3 DEF Stored, Current
  <2>2. Stored(v)'.rev >= Stored(v).rev /\ Stored(v)'.rev \in Nat
    BY <1>1, <1>2, <2>1 DEF Stored
  <2>3. RetrySawWrite(v)
    BY DEF RetriesSawWrites
  <2> QED BY <1>1, <1>3, <2>2, <2>3 DEF RetrySawWrite
<1>4. ASSUME NEW w \in Writer, WriterStep(w), NEW v \in Writer \ {w}
      PROVE  RetrySawWrite(v)'
  <2>1. /\ pc'[v] = pc[v] /\ target'[v] = target[v] /\ snap'[v] = snap[v]
        /\ attempt'[v] = attempt[v] /\ base'[v] = base[v]
    BY <1>4 DEF WriterStep, StartJob, Check, Fetch, Put, PutConflict, StopsShort,
                Return, Fail, DropLocals, TypeOK
  <2> QED BY <1>3, <2>1
<1>5. ASSUME NEW w \in Writer, WriterStep(w)
      PROVE  RetrySawWrite(w)'
  <2>1. RetrySawWrite(w)
    BY DEF RetriesSawWrites
  <2>2. CASE Return(w) \/ Fail(w)
    BY <2>2 DEF Return, Fail, DropLocals, TypeOK, RetrySawWrite
  <2>3. CASE StartJob(w)
    BY <2>1, <2>3 DEF StartJob, TypeOK, RetrySawWrite, Stopped
  <2>4. CASE Check(w) /\ ~ (Return(w) \/ Fail(w))
    <3>1. /\ pc[w] = "check" /\ pc'[w] = "fetch" /\ base'[w] = Stored(w).rev
          /\ attempt'[w] = attempt[w] /\ Stored(w)' = Stored(w)
      BY <2>4 DEF Check, TypeOK, Stored, Current
    <3> QED BY <1>1, <2>1, <3>1 DEF RetrySawWrite
  <2>5. CASE Fetch(w) /\ ~ (Return(w) \/ Fail(w))
    <3>1. /\ pc[w] = "fetch" /\ pc'[w] = "put" /\ snap'[w] = Stored(w)
          /\ attempt'[w] = attempt[w] /\ base'[w] = base[w]
      BY <2>5 DEF Fetch, TypeOK
    <3> QED BY <2>1, <3>1 DEF RetrySawWrite
  <2>6. CASE PutConflict(w) /\ ~ Fail(w)
    <3>1. /\ pc[w] = "put" /\ attempt[w] = 0 /\ pc'[w] = "fetch" /\ attempt'[w] = 1
          /\ base'[w] = base[w] /\ Stored(w)' = Stored(w)
      BY <2>6 DEF PutConflict, TypeOK, Stored, Current
    <3>2. snap[w].rev < Stored(w).rev
      BY <1>1, <2>6, <3>1 DEF PutConflict, SnapsAreOld, RevIsCurrent
    <3> QED BY <1>1, <2>1, <3>1, <3>2 DEF RetrySawWrite
  <2>7. Put(w) \/ StopsShort(w) => Return(w) \/ Fail(w)
    BY DEF Put, StopsShort
  <2> QED BY <1>5, <2>2, <2>3, <2>4, <2>5, <2>6, <2>7 DEF WriterStep
<1>6. CASE (\E e \in Doc : ForeignEdit(e)) \/ UNCHANGED vars
  <2>1. UNCHANGED <<pc, target, snap, attempt, base>>
    BY <1>6 DEF ForeignEdit, vars
  <2> QED BY <1>3, <2>1 DEF RetriesSawWrites
<1>7. CASE \E w \in Writer : WriterStep(w)
  BY <1>4, <1>5, <1>7 DEF RetriesSawWrites
<1> QED BY <1>6, <1>7 DEF Next

\* update_doc gives up only after two writes by others: a single concurrent
\* write never fails a job.
THEOREM ConflictTolerance == Spec => ConflictNeedsTwoWrites
<1>1. Init => RetriesSawWrites
  BY DEF Init, RetriesSawWrites, RetrySawWrite
<1>2. ASSUME IInv, RetriesSawWrites, [Next]_vars
      PROVE  [\A w \in Writer :
                 (/\ pc[w] = "put" /\ pc'[w] = "failed" /\ attempt[w] = 1
                  /\ ~ RevIsCurrent(w))
                 => Stored(w).rev >= base[w] + 2]_vars
  <2> SUFFICES ASSUME NEW w \in Writer, pc[w] = "put", attempt[w] = 1, ~ RevIsCurrent(w)
               PROVE  Stored(w).rev >= base[w] + 2
    OBVIOUS
  <2>1. snap[w].rev >= base[w] + 1
    BY <1>2 DEF RetriesSawWrites, RetrySawWrite
  <2>2. snap[w].rev <= Stored(w).rev /\ snap[w].rev # Stored(w).rev
    BY <1>2 DEF IInv, SnapsAreOld, RevIsCurrent
  <2>3. Stored(w).rev \in Nat /\ snap[w].rev \in Nat /\ base[w] \in Nat
    BY <1>2, CurrentType DEF IInv, Body, TypeOK
  <2> QED BY <2>1, <2>2, <2>3
<1> QED BY <1>1, <1>2, RetriesKept, Invariant, PTL DEF Spec, ConflictNeedsTwoWrites
=============================================================================
