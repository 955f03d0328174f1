------------------------ MODULE QueueTransport_proofs ------------------------
(***************************************************************************)
(* Proofs about QueueTransport, for any number of documents, faults,        *)
(* overruns and attempts.                                                   *)
(*                                                                          *)
(* Every write of a document is conditional on its _rev.  The two lasting   *)
(* copies of a document, the change loop's and the sweep's, are described   *)
(* by FreshIsStored and CopiesAreProcessing: as long as a copy is the       *)
(* stored one, the document is in the state it was in when it was taken.    *)
(***************************************************************************)
EXTENDS QueueTransport, TLAPS

\* The change loop waits for the pass it runs, and nobody else runs one.
LoopWaits ==
    "worker" \in draining => pc \in {"drain", "startup"} /\ draining = {"worker"}

\* The change loop's copy, while current: claimed until it is marked, then
\* processing.
FreshIsStored ==
    fresh => /\ pc \in Busy
             /\ state[cur] = IF pc = "mark" THEN "claimed" ELSE "processing"

CopiesAreProcessing == \A d \in Doc : found[d] = "current" => state[d] = "processing"

\* What is archived, being archived, or reported as processed, was applied.
AppliedFirst ==
    /\ processed \subseteq applied
    /\ \A a \in Actor : handling[a] # None => handling[a] \in applied
    /\ outcome = "processed" => pc = "settle" /\ cur \in applied

Kept(d) == d \in queue \cup failed \cup applied

\* After process_one has materialized the job, its file or its effect is there.
JobDeposited ==
    pc \in {"drain", "lookup", "exists", "settle"} => Kept(cur) \/ faults > 0

\* Without faults a claimed document is the one the change loop is marking.
ClaimsHeld ==
    faults = 0 => \A d \in Doc : state[d] = "claimed" => pc = "mark" /\ cur = d /\ fresh

IInv ==
    /\ TypeOK /\ LoopWaits /\ FreshIsStored /\ CopiesAreProcessing /\ AppliedFirst
    /\ JobDeposited /\ ClaimsHeld /\ CompleteIsApplied /\ FailedKeepsJob

-----------------------------------------------------------------------------
(***************************************************************************)
(* What the shared parts of the actions do                                  *)
(***************************************************************************)
\* A write changes one document and makes every other copy of it stale.
LEMMA WriteEffect ==
    ASSUME CouchType, NEW d \in Doc, NEW s \in State, Write(d, s)
    PROVE  /\ CouchType'
           /\ state'[d] = s /\ found'[d] # "current"
           /\ \A e \in Doc \ {d} : state'[e] = state[e] /\ found'[e] = found[e]
<1>1. state' \in [Doc -> State] /\ state'[d] = s
  BY DEF Write, CouchType
<1>2. unseen' \subseteq Doc
  BY DEF Write, CouchType
<1>3. found' \in [Doc -> {"none", "current", "stale"}] /\ found'[d] # "current"
  BY DEF Write, CouchType
<1>4. \A e \in Doc \ {d} : state'[e] = state[e] /\ found'[e] = found[e]
  BY DEF Write, CouchType
<1> QED BY <1>1, <1>2, <1>3, <1>4 DEF CouchType

LEMMA CurIsDoc ==
    ASSUME LoopType, pc \in {"claim"} \cup Busy
    PROVE  cur \in Doc
BY NoneAssumption DEF LoopType

LEMMA VerdictIsState == Verdict \in State /\ Verdict \in Settled
BY DEF Verdict, State, Settled

\* The change loop's return to listen(), and the end of the daemon.
LEMMA ListenType ==
    ASSUME Listen
    PROVE  LoopType' /\ ~ fresh' /\ pc' = "listen" /\ outcome' = "none"
<1>1. fresh' = FALSE
  BY DEF Listen
<1>2. fresh' \in BOOLEAN /\ ~ fresh'
  BY <1>1, Zenon
<1> QED BY <1>2, NoneAssumption, AttemptsAssumption DEF Listen, LoopType, Busy

LEMMA ExitType ==
    ASSUME SpoolType, Exit
    PROVE  /\ LoopType' /\ ~ fresh' /\ pc' = "down" /\ outcome' = "none"
           /\ draining' \subseteq Actor
           /\ todo' \in [Actor -> SUBSET Doc]
           /\ handling' \in [Actor -> Doc \cup {None}]
           /\ \A a \in Actor : handling'[a] \in {None, handling[a]}
<1>1. LoopType' /\ ~ fresh' /\ pc' = "down" /\ outcome' = "none"
  <2>1. fresh' = FALSE
    BY DEF Exit
  <2>2. fresh' \in BOOLEAN /\ ~ fresh'
    BY <2>1, Zenon
  <2> QED BY <2>2, NoneAssumption, AttemptsAssumption DEF Exit, LoopType, Busy
<1>2. draining' \subseteq Actor /\ todo' \in [Actor -> SUBSET Doc]
  BY DEF Exit, SpoolType
<1>3. /\ handling' \in [Actor -> Doc \cup {None}]
      /\ \A a \in Actor : handling'[a] \in {None, handling[a]}
  BY DEF Exit, SpoolType
<1> QED BY <1>1, <1>2, <1>3

-----------------------------------------------------------------------------
(***************************************************************************)
(* Types                                                                    *)
(***************************************************************************)
LEMMA CouchTypeKept ==
    ASSUME TypeOK, [Next]_vars
    PROVE  CouchType'
<1> USE DEF TypeOK
<1>1. ASSUME UNCHANGED couch PROVE CouchType'
  BY <1>1 DEF CouchType, couch
<1>2. ASSUME NEW d \in Doc, Enqueue(d) PROVE CouchType'
  BY <1>2, WriteEffect DEF Enqueue, State
<1>3. ASSUME NEW d \in Doc, SweepFind(d) PROVE CouchType'
  BY <1>3 DEF SweepFind, CouchType
<1>4. ASSUME NEW d \in Doc, SweepReset(d) PROVE CouchType'
  BY <1>4 DEF SweepReset, CouchType, State
<1>5. ASSUME NEW d \in Doc, Deliver(d) PROVE CouchType'
  BY <1>5 DEF Deliver, CouchType
<1>6. ASSUME Claim \/ ClaimServerError \/ ClaimError PROVE CouchType'
  <2>1. cur \in Doc
    BY <1>6, CurIsDoc DEF Claim, ClaimServerError, ClaimError
  <2> QED BY <1>1, <1>6, <2>1, WriteEffect
          DEF Claim, ClaimServerError, ClaimError, ClaimStored, State
<1>7. ASSUME MarkProcessing \/ MarkError PROVE CouchType'
  <2>1. cur \in Doc
    BY <1>7, CurIsDoc DEF MarkProcessing, MarkError, Busy
  <2> QED BY <1>1, <1>7, <2>1, WriteEffect DEF MarkProcessing, MarkError, State
<1>8. ASSUME Settle \/ SettleError PROVE CouchType'
  <2>1. cur \in Doc
    BY <1>8, CurIsDoc DEF Settle, SettleError, Busy
  <2> QED BY <1>1, <1>8, <2>1, WriteEffect, VerdictIsState DEF Settle, SettleError
<1>9. ASSUME Restart PROVE CouchType'
  BY <1>9 DEF Restart, CouchType
<1>10. ASSUME \/ MarkConflict \/ Materialize \/ Lookup \/ Exists \/ SettleConflict
              \/ DrainRefused \/ MaterializeFails \/ Crash
       PROVE  CouchType'
  BY <1>1, <1>10 DEF MarkConflict, Materialize, Lookup, Exists, SettleConflict,
                     DrainRefused, MaterializeFails, Crash
<1>11. ASSUME NEW a \in Actor, BeginDrain(a) \/ DrainStep(a) PROVE CouchType'
  BY <1>1, <1>11 DEF BeginDrain, DrainStep, Apply, Archive, Reject, EndDrain
<1> QED BY <1>1, <1>2, <1>3, <1>4, <1>5, <1>6, <1>7, <1>8, <1>9, <1>10, <1>11
        DEF Next, ChangeLoop, Failure, vars

LEMMA LoopTypeKept ==
    ASSUME TypeOK, LoopWaits, [Next]_vars
    PROVE  LoopType'
<1> USE DEF TypeOK
<1>1. ASSUME UNCHANGED loop PROVE LoopType'
  BY <1>1 DEF LoopType, loop, Busy
<1>2. ASSUME NEW d \in Doc, Enqueue(d) \/ SweepFind(d) PROVE LoopType'
  BY <1>1, <1>2 DEF Enqueue, SweepFind
<1>3. ASSUME NEW d \in Doc, SweepReset(d) PROVE LoopType'
  BY <1>3 DEF SweepReset, LoopType, Busy
<1>4. ASSUME NEW d \in Doc, Deliver(d) PROVE LoopType'
  BY <1>4, NoneAssumption DEF Deliver, LoopType, Busy
<1>5. ASSUME Claim PROVE LoopType'
  <2>1. CASE state[cur] = "pending"
    BY <1>5, <2>1, AttemptsAssumption DEF Claim, LoopType, Busy
  <2> QED BY <1>5, <2>1, ListenType DEF Claim
<1>6. ASSUME ClaimServerError \/ Settle PROVE LoopType'
  BY <1>6, ListenType DEF ClaimServerError, Settle
<1>7. ASSUME ClaimError \/ SettleConflict \/ SettleError \/ Crash PROVE LoopType'
  BY <1>7, ExitType DEF ClaimError, SettleConflict, SettleError, Crash
<1>8. ASSUME MarkProcessing PROVE LoopType'
  BY <1>8, AttemptsAssumption DEF MarkProcessing, LoopType, Busy
<1>9. ASSUME MarkError \/ MarkConflict PROVE LoopType'
  <2>1. pc = "mark" /\ fresh' \in BOOLEAN /\ NextMarkAttempt
    BY <1>9 DEF MarkError, MarkConflict, LoopType
  <2>2. tries \in Nat
    BY AttemptsAssumption DEF LoopType
  <2>3. CASE tries < MarkAttempts
    BY <2>1, <2>2, <2>3, AttemptsAssumption DEF NextMarkAttempt, LoopType, Busy
  <2>4. CASE ~ (tries < MarkAttempts)
    BY <2>1, <2>4, AttemptsAssumption DEF NextMarkAttempt, LoopType, Busy
  <2> QED BY <2>3, <2>4
<1>10. ASSUME Materialize PROVE LoopType'
  BY <1>10, AttemptsAssumption DEF Materialize, LoopType, Busy
<1>11. ASSUME Exists PROVE LoopType'
  <2>1. tries \in Nat
    BY AttemptsAssumption DEF LoopType
  <2> QED BY <1>11, <2>1, AttemptsAssumption DEF Exists, LoopType, Busy
<1>12. ASSUME Lookup \/ DrainRefused \/ MaterializeFails PROVE LoopType'
  BY <1>12 DEF Lookup, DrainRefused, MaterializeFails, LoopType, Busy
<1>13. ASSUME Restart PROVE LoopType'
  BY <1>13 DEF Restart, LoopType, Busy
<1>14. ASSUME NEW a \in Actor, BeginDrain(a) \/ Apply(a) \/ Archive(a) \/ Reject(a)
       PROVE  LoopType'
  BY <1>1, <1>14 DEF BeginDrain, Apply, Archive, Reject
<1>15. ASSUME NEW a \in Actor, EndDrain(a) PROVE LoopType'
  BY <1>15 DEF EndDrain, LoopWaits, LoopType, Busy
<1> QED BY <1>1, <1>2, <1>3, <1>4, <1>5, <1>6, <1>7, <1>8, <1>9, <1>10, <1>11, <1>12,
           <1>13, <1>14, <1>15
        DEF Next, ChangeLoop, Failure, DrainStep, vars

LEMMA SpoolTypeKept ==
    ASSUME TypeOK, [Next]_vars
    PROVE  SpoolType'
<1> USE DEF TypeOK
<1>1. ASSUME UNCHANGED <<spool, drains>> PROVE SpoolType'
  BY <1>1 DEF SpoolType, spool, drains
<1>2. ASSUME NEW d \in Doc, Enqueue(d) \/ SweepFind(d) \/ SweepReset(d) \/ Deliver(d)
      PROVE  SpoolType'
  BY <1>1, <1>2 DEF Enqueue, SweepFind, SweepReset, Deliver
<1>3. ASSUME \/ Claim \/ MarkProcessing \/ MarkConflict \/ Lookup \/ Exists \/ Settle
             \/ DrainRefused \/ ClaimServerError \/ MarkError \/ MaterializeFails \/ Restart
      PROVE  SpoolType'
  BY <1>1, <1>3 DEF Claim, MarkProcessing, MarkConflict, Lookup, Exists, Settle,
                    DrainRefused, ClaimServerError, MarkError, MaterializeFails, Restart
<1>4. ASSUME Materialize PROVE SpoolType'
  <2>1. cur \in Doc
    BY <1>4, CurIsDoc DEF Materialize, Busy
  <2> QED BY <1>4, <2>1 DEF Materialize, SpoolType, drains
<1>5. ASSUME SettleConflict \/ ClaimError \/ SettleError \/ Crash PROVE SpoolType'
  <2>1. UNCHANGED spool /\ Exit
    BY <1>5 DEF SettleConflict, ClaimError, SettleError, Crash
  <2> QED BY <2>1, ExitType DEF SpoolType, spool
<1>6. ASSUME NEW a \in Actor, BeginDrain(a) PROVE SpoolType'
  BY <1>6 DEF BeginDrain, SpoolType, spool
<1>7. ASSUME NEW a \in Actor, Apply(a) PROVE SpoolType'
  BY <1>7 DEF Apply, SpoolType
<1>8. ASSUME NEW a \in Actor, Archive(a) PROVE SpoolType'
  BY <1>8 DEF Archive, SpoolType
<1>9. ASSUME NEW a \in Actor, Reject(a) PROVE SpoolType'
  <2>1. PICK d \in Doc : FailFile(d)
    BY <1>9 DEF Reject, SpoolType
  <2>2. queue' \subseteq Doc /\ failed' \subseteq Doc
    BY <2>1 DEF FailFile, SpoolType
  <2>3. todo' \in [Actor -> SUBSET Doc] /\ handling' \in [Actor -> Doc \cup {None}]
    BY <1>9 DEF Reject, SpoolType
  <2> QED BY <1>9, <2>2, <2>3 DEF Reject, SpoolType
<1>10. ASSUME NEW a \in Actor, EndDrain(a) PROVE SpoolType'
  BY <1>10 DEF EndDrain, SpoolType, spool
<1> QED BY <1>1, <1>2, <1>3, <1>4, <1>5, <1>6, <1>7, <1>8, <1>9, <1>10
        DEF Next, ChangeLoop, Failure, DrainStep, vars

LEMMA BoundTypeKept ==
    ASSUME TypeOK, [Next]_vars
    PROVE  BoundType' /\ faults' >= faults
<1> USE BoundsAssumption DEF TypeOK
<1>1. ASSUME UNCHANGED bounds PROVE BoundType' /\ faults' >= faults
  BY <1>1 DEF BoundType, bounds
<1>2. ASSUME NEW d \in Doc, Enqueue(d) \/ SweepReset(d) \/ Deliver(d)
      PROVE  BoundType' /\ faults' >= faults
  BY <1>1, <1>2 DEF Enqueue, SweepReset, Deliver
<1>3. ASSUME NEW d \in Doc, SweepFind(d)
      PROVE  BoundType' /\ faults' >= faults
  BY <1>3 DEF SweepFind, BoundType
<1>4. ASSUME \/ Claim \/ MarkProcessing \/ MarkConflict \/ Materialize \/ Lookup
             \/ Exists \/ Settle \/ SettleConflict \/ DrainRefused
      PROVE  BoundType' /\ faults' >= faults
  BY <1>1, <1>4 DEF Claim, MarkProcessing, MarkConflict, Materialize, Lookup, Exists,
                    Settle, SettleConflict, DrainRefused
<1>5. ASSUME Failure PROVE BoundType' /\ faults' >= faults
  <2>1. PICK ds \in SUBSET Doc : FaultSkipping(ds)
    <3>1. CASE ClaimServerError
      BY <3>1, CurIsDoc DEF ClaimServerError
    <3>2. CASE ClaimError \/ MarkError \/ MaterializeFails \/ SettleError \/ Crash
      BY <3>2 DEF ClaimError, MarkError, MaterializeFails, SettleError, Crash, Fault
    <3> QED BY <1>5, <3>1, <3>2 DEF Failure
  <2> QED BY <2>1 DEF FaultSkipping, BoundType
<1>6. ASSUME Restart PROVE BoundType' /\ faults' >= faults
  BY <1>6 DEF Restart, BoundType
<1>7. ASSUME NEW a \in Actor, BeginDrain(a) \/ DrainStep(a)
      PROVE  BoundType' /\ faults' >= faults
  BY <1>1, <1>7 DEF BeginDrain, DrainStep, Apply, Archive, Reject, EndDrain
<1> QED BY <1>1, <1>2, <1>3, <1>4, <1>5, <1>6, <1>7 DEF Next, ChangeLoop, vars

LEMMA TypeKept ==
    ASSUME TypeOK, LoopWaits, [Next]_vars
    PROVE  TypeOK'
BY CouchTypeKept, LoopTypeKept, SpoolTypeKept, BoundTypeKept DEF TypeOK

LEMMA LoopWaitsKept ==
    ASSUME LoopWaits, [Next]_vars
    PROVE  LoopWaits'
<1> USE DEF LoopWaits
<1>1. ASSUME UNCHANGED <<pc, draining>> PROVE LoopWaits'
  BY <1>1
\* Actions of the change loop that are not open to it while it waits.
<1>2. ASSUME draining' = draining, pc \notin {"drain", "startup"} PROVE LoopWaits'
  BY <1>2
<1>3. ASSUME NEW d \in Doc, Enqueue(d) \/ SweepFind(d) \/ SweepReset(d) \/ Deliver(d)
      PROVE  LoopWaits'
  BY <1>1, <1>2, <1>3 DEF Enqueue, SweepFind, SweepReset, Deliver, loop, drains
<1>4. ASSUME \/ Claim \/ MarkProcessing \/ MarkConflict \/ Materialize \/ Lookup
             \/ Exists \/ Settle \/ ClaimServerError \/ MarkError \/ MaterializeFails
             \/ Restart
      PROVE  LoopWaits'
  BY <1>2, <1>4 DEF Claim, MarkProcessing, MarkConflict, Materialize, Lookup, Exists,
                    Settle, ClaimServerError, MarkError, MaterializeFails, Restart, drains
<1>5. ASSUME SettleConflict \/ ClaimError \/ SettleError \/ Crash PROVE LoopWaits'
  BY <1>5 DEF SettleConflict, ClaimError, SettleError, Crash, Exit, Threads
<1>6. ASSUME DrainRefused PROVE LoopWaits'
  BY <1>6 DEF DrainRefused, drains
<1>7. ASSUME NEW a \in Actor, BeginDrain(a) PROVE LoopWaits'
  BY <1>7 DEF BeginDrain, loop
<1>8. ASSUME NEW a \in Actor, Apply(a) \/ Archive(a) \/ Reject(a) PROVE LoopWaits'
  BY <1>1, <1>8 DEF Apply, Archive, Reject, loop
<1>9. ASSUME NEW a \in Actor, EndDrain(a) PROVE LoopWaits'
  BY <1>9 DEF EndDrain
<1>10. CASE UNCHANGED vars
  BY <1>1, <1>10 DEF vars, loop, drains
<1> QED BY <1>3, <1>4, <1>5, <1>6, <1>7, <1>8, <1>9, <1>10
        DEF Next, ChangeLoop, Failure, DrainStep

-----------------------------------------------------------------------------
(***************************************************************************)
(* The documents                                                            *)
(***************************************************************************)
\* Both copies keep agreeing with the stored document while they are current.
LEMMA CopiesKept ==
    ASSUME TypeOK, LoopWaits, FreshIsStored, CopiesAreProcessing, [Next]_vars
    PROVE  FreshIsStored' /\ CopiesAreProcessing'
<1> USE DEF FreshIsStored, CopiesAreProcessing
<1>1. CouchType /\ LoopType /\ (fresh => cur \in Doc)
  BY CurIsDoc DEF TypeOK
\* A document the change loop does not hold a current copy of is written.
<1>2. ASSUME NEW d \in Doc, NEW s \in State, Write(d, s),
             fresh' => fresh /\ d # cur /\ cur' = cur /\ pc' = pc
      PROVE  FreshIsStored' /\ CopiesAreProcessing'
  <2>1. /\ found'[d] # "current"
        /\ \A e \in Doc \ {d} : state'[e] = state[e] /\ found'[e] = found[e]
    BY <1>1, <1>2, WriteEffect
  <2> QED BY <1>1, <1>2, <2>1
\* No document is written.
<1>3. ASSUME UNCHANGED couch, fresh' => fresh /\ cur' = cur /\ pc' \in Busy,
             fresh' => (pc = "mark" <=> pc' = "mark")
      PROVE  FreshIsStored' /\ CopiesAreProcessing'
  BY <1>1, <1>3 DEF couch
<1>4. ASSUME NEW d \in Doc, Enqueue(d)
      PROVE  FreshIsStored' /\ CopiesAreProcessing'
  <2>1. /\ Write(d, "pending") /\ "pending" \in State
        /\ fresh' = fresh /\ cur' = cur /\ pc' = pc
    BY <1>4 DEF Enqueue, loop, State
  <2>2. fresh => d # cur
    BY <1>4 DEF Enqueue
  <2> QED BY <1>2, <2>1, <2>2
<1>5. ASSUME NEW d \in Doc, SweepFind(d)
      PROVE  FreshIsStored' /\ CopiesAreProcessing'
  BY <1>1, <1>5 DEF SweepFind, CouchType, loop
<1>6. ASSUME NEW d \in Doc, SweepReset(d)
      PROVE  FreshIsStored' /\ CopiesAreProcessing'
  BY <1>1, <1>6 DEF SweepReset, CouchType
<1>7. ASSUME NEW d \in Doc, Deliver(d)
      PROVE  FreshIsStored' /\ CopiesAreProcessing'
  BY <1>1, <1>7 DEF Deliver, Busy
<1>8. ASSUME Claim
      PROVE  FreshIsStored' /\ CopiesAreProcessing'
  <2>1. CASE state[cur] = "pending"
    <3>1. cur \in Doc
      BY <1>1, <1>8, CurIsDoc DEF Claim
    <3>2. /\ state'[cur] = "claimed" /\ found'[cur] # "current"
          /\ \A e \in Doc \ {cur} : state'[e] = state[e] /\ found'[e] = found[e]
          /\ pc' = "mark" /\ cur' = cur
      BY <1>1, <1>8, <2>1, <3>1, WriteEffect DEF Claim, State
    <3> QED BY <1>1, <3>1, <3>2 DEF Busy
  <2>2. CASE state[cur] # "pending"
    BY <1>3, <1>8, <2>2, ListenType DEF Claim
  <2> QED BY <2>1, <2>2
<1>9. ASSUME ClaimServerError \/ ClaimError
      PROVE  FreshIsStored' /\ CopiesAreProcessing'
  <2>1. cur \in Doc /\ ClaimStored /\ ~ fresh'
    BY <1>1, <1>9, CurIsDoc, ListenType, ExitType DEF ClaimServerError, ClaimError, TypeOK
  <2> QED BY <1>2, <1>3, <2>1 DEF ClaimStored, State
<1>10. ASSUME MarkProcessing
       PROVE  FreshIsStored' /\ CopiesAreProcessing'
  <2>1. cur \in Doc
    BY <1>1, <1>10 DEF MarkProcessing
  <2>2. /\ state'[cur] = "processing" /\ found'[cur] # "current"
        /\ \A e \in Doc \ {cur} : state'[e] = state[e] /\ found'[e] = found[e]
        /\ pc' = "materialize" /\ cur' = cur
    BY <1>1, <1>10, <2>1, WriteEffect DEF MarkProcessing, State
  <2> QED BY <1>1, <2>1, <2>2 DEF Busy
<1>11. ASSUME MarkError
       PROVE  FreshIsStored' /\ CopiesAreProcessing'
  <2>1. CASE UNCHANGED couch /\ fresh' = (fresh /\ tries < MarkAttempts)
    <3>1. fresh' => fresh /\ cur' = cur /\ pc' = "mark" /\ pc = "mark"
      BY <1>11, <2>1 DEF MarkError, NextMarkAttempt
    <3> QED BY <1>3, <2>1, <3>1 DEF Busy
  <2>2. CASE fresh /\ Write(cur, "processing") /\ fresh' = FALSE
    BY <1>1, <1>2, <2>2 DEF State
  <2> QED BY <1>11, <2>1, <2>2 DEF MarkError
<1>12. ASSUME MarkConflict
       PROVE  FreshIsStored' /\ CopiesAreProcessing'
  BY <1>3, <1>12 DEF MarkConflict
<1>13. ASSUME Materialize \/ MaterializeFails \/ DrainRefused \/ Lookup \/ Exists
       PROVE  FreshIsStored' /\ CopiesAreProcessing'
  BY <1>3, <1>13 DEF Materialize, MaterializeFails, DrainRefused, Lookup, Exists, Busy
<1>14. ASSUME Settle \/ SettleConflict \/ SettleError \/ Crash
       PROVE  FreshIsStored' /\ CopiesAreProcessing'
  <2>1. ~ fresh'
    BY <1>14, ListenType, ExitType DEF Settle, SettleConflict, SettleError, Crash, TypeOK
  <2>2. UNCHANGED couch \/ (fresh /\ Write(cur, Verdict))
    BY <1>14 DEF Settle, SettleConflict, SettleError, Crash
  <2> QED BY <1>1, <1>2, <1>3, <2>1, <2>2, VerdictIsState
<1>15. ASSUME Restart
       PROVE  FreshIsStored' /\ CopiesAreProcessing'
  BY <1>15 DEF Restart, Busy
<1>16. ASSUME NEW a \in Actor, BeginDrain(a) \/ Apply(a) \/ Archive(a) \/ Reject(a)
       PROVE  FreshIsStored' /\ CopiesAreProcessing'
  BY <1>3, <1>16 DEF BeginDrain, Apply, Archive, Reject, loop
<1>17. ASSUME NEW a \in Actor, EndDrain(a)
       PROVE  FreshIsStored' /\ CopiesAreProcessing'
  BY <1>3, <1>17 DEF EndDrain, LoopWaits, Busy
<1>18. CASE UNCHANGED vars
  BY <1>3, <1>18 DEF vars, loop
<1> QED BY <1>4, <1>5, <1>6, <1>7, <1>8, <1>9, <1>10, <1>11, <1>12, <1>13, <1>14, <1>15,
           <1>16, <1>17, <1>18
        DEF Next, ChangeLoop, Failure, DrainStep

\* Without a fault nothing takes the claim away from the change loop before
\* the document is processing, so a claimed document is the one it marks.
LEMMA ClaimsHeldKept ==
    ASSUME TypeOK, LoopWaits, FreshIsStored, CopiesAreProcessing, ClaimsHeld, [Next]_vars
    PROVE  ClaimsHeld'
<1> SUFFICES ASSUME faults' = 0, NEW e \in Doc, state'[e] = "claimed"
             PROVE  pc' = "mark" /\ cur' = e /\ fresh'
  BY DEF ClaimsHeld
<1>1. /\ CouchType /\ LoopType /\ faults \in Nat /\ faults = 0
  BY BoundTypeKept, BoundsAssumption DEF TypeOK, BoundType
<1>2. state[e] = "claimed" => pc = "mark" /\ cur = e /\ fresh
  BY <1>1 DEF ClaimsHeld
<1>3. ASSUME UNCHANGED <<state, loop>> PROVE pc' = "mark" /\ cur' = e /\ fresh'
  BY <1>2, <1>3 DEF loop
<1>4. ASSUME NEW d \in Doc, Enqueue(d) PROVE pc' = "mark" /\ cur' = e /\ fresh'
  <2>1. d # e /\ state'[e] = state[e]
    BY <1>1, <1>4, WriteEffect DEF Enqueue, State
  <2> QED BY <1>2, <1>4, <2>1 DEF Enqueue, loop
<1>5. ASSUME NEW d \in Doc, SweepFind(d) PROVE pc' = "mark" /\ cur' = e /\ fresh'
  BY <1>3, <1>5 DEF SweepFind
<1>6. ASSUME NEW d \in Doc, SweepReset(d) PROVE pc' = "mark" /\ cur' = e /\ fresh'
  <2>1. state[e] = "claimed" /\ (found[d] = "current" => d # e)
    BY <1>1, <1>6 DEF SweepReset, CouchType, CopiesAreProcessing
  <2> QED BY <1>2, <1>6, <2>1 DEF SweepReset
<1>7. ASSUME NEW d \in Doc, Deliver(d) PROVE pc' = "mark" /\ cur' = e /\ fresh'
  BY <1>2, <1>7 DEF Deliver
<1>8. ASSUME Claim PROVE pc' = "mark" /\ cur' = e /\ fresh'
  <2>1. pc = "claim" /\ cur \in Doc
    BY <1>1, <1>8, CurIsDoc DEF Claim
  <2>2. CASE state[cur] = "pending"
    BY <1>1, <1>2, <1>8, <2>1, <2>2, WriteEffect DEF Claim, State
  <2>3. CASE state[cur] # "pending"
    BY <1>2, <1>8, <2>1, <2>3 DEF Claim, couch
  <2> QED BY <2>2, <2>3
<1>9. ASSUME MarkProcessing PROVE pc' = "mark" /\ cur' = e /\ fresh'
  <2>1. cur \in Doc /\ "processing" \in State
    BY <1>1, <1>9, CurIsDoc DEF MarkProcessing, Busy, State
  <2> QED BY <1>1, <1>2, <1>9, <2>1, WriteEffect DEF MarkProcessing
<1>10. ASSUME \/ MarkConflict \/ Materialize \/ Lookup \/ Exists \/ SettleConflict
              \/ DrainRefused
       PROVE  pc' = "mark" /\ cur' = e /\ fresh'
  BY <1>2, <1>10 DEF MarkConflict, Materialize, Lookup, Exists, SettleConflict,
                     DrainRefused, couch
<1>11. ASSUME Settle PROVE pc' = "mark" /\ cur' = e /\ fresh'
  <2>1. cur \in Doc /\ Verdict \in State /\ Verdict # "claimed" /\ pc = "settle"
    BY <1>1, <1>11, CurIsDoc, VerdictIsState DEF Settle, Busy, Settled
  <2> QED BY <1>1, <1>2, <1>11, <2>1, WriteEffect DEF Settle
<1>12. ~ Failure
  <2>1. \A ds \in SUBSET Doc : ~ FaultSkipping(ds)
    BY <1>1 DEF FaultSkipping
  <2>2. Failure => \E ds \in SUBSET Doc : FaultSkipping(ds)
    <3>1. ClaimServerError => \E ds \in SUBSET Doc : FaultSkipping(ds)
      BY <1>1, CurIsDoc DEF ClaimServerError
    <3>2. ClaimError \/ MarkError \/ MaterializeFails \/ SettleError \/ Crash => FaultSkipping({})
      BY DEF ClaimError, MarkError, MaterializeFails, SettleError, Crash, Fault
    <3> QED BY <3>1, <3>2 DEF Failure
  <2> QED BY <2>1, <2>2
<1>13. ASSUME Restart PROVE pc' = "mark" /\ cur' = e /\ fresh'
  BY <1>2, <1>13 DEF Restart
<1>14. ASSUME NEW a \in Actor, BeginDrain(a) \/ Apply(a) \/ Archive(a) \/ Reject(a)
       PROVE  pc' = "mark" /\ cur' = e /\ fresh'
  BY <1>3, <1>14 DEF BeginDrain, Apply, Archive, Reject, couch
<1>15. ASSUME NEW a \in Actor, EndDrain(a)
       PROVE  pc' = "mark" /\ cur' = e /\ fresh'
  BY <1>2, <1>15 DEF EndDrain, LoopWaits, couch
<1>16. CASE UNCHANGED vars
  BY <1>3, <1>16 DEF vars, couch
<1> QED BY <1>4, <1>5, <1>6, <1>7, <1>8, <1>9, <1>10, <1>11, <1>12, <1>13, <1>14, <1>15,
           <1>16
        DEF Next, ChangeLoop, DrainStep

-----------------------------------------------------------------------------
(***************************************************************************)
(* The jobs                                                                 *)
(***************************************************************************)
\* A job stays where it was found: its file moves to failed/ or its effect
\* stays in the vault.
LEMMA KeptKept ==
    ASSUME TypeOK, AppliedFirst, [Next]_vars
    PROVE  applied \subseteq applied' /\ \A d \in Doc : Kept(d) => Kept(d)'
<1> DEFINE Keeps == applied \subseteq applied' /\ \A d \in Doc : Kept(d) => Kept(d)'
<1>1. ASSUME UNCHANGED spool PROVE Keeps
  BY <1>1 DEF spool, Kept
<1>2. ASSUME Materialize PROVE Keeps
  BY <1>2 DEF Materialize, Kept
<1>3. ASSUME NEW a \in Actor, Apply(a) PROVE Keeps
  BY <1>3 DEF Apply, Kept
<1>4. ASSUME NEW a \in Actor, Archive(a) PROVE Keeps
  BY <1>4 DEF Archive, Kept, AppliedFirst
<1>5. ASSUME NEW a \in Actor, Reject(a) PROVE Keeps
  <2>1. PICK d : FailFile(d)
    BY <1>5 DEF Reject
  <2> QED BY <1>5, <2>1 DEF Reject, FailFile, Kept
<1>6. ASSUME NEW a \in Actor, BeginDrain(a) \/ EndDrain(a) PROVE Keeps
  BY <1>1, <1>6 DEF BeginDrain, EndDrain
<1>7. ASSUME NEW d \in Doc, Enqueue(d) \/ SweepFind(d) \/ SweepReset(d) \/ Deliver(d)
      PROVE  Keeps
  BY <1>1, <1>7 DEF Enqueue, SweepFind, SweepReset, Deliver
<1>8. ASSUME \/ Claim \/ MarkProcessing \/ MarkConflict \/ Lookup \/ Exists \/ Settle
             \/ SettleConflict \/ DrainRefused \/ Failure \/ Restart
      PROVE  Keeps
  BY <1>1, <1>8 DEF Claim, MarkProcessing, MarkConflict, Lookup, Exists, Settle,
                    SettleConflict, DrainRefused, Restart, Failure, ClaimServerError,
                    ClaimError, MarkError, MaterializeFails, SettleError, Crash
<1>9. CASE UNCHANGED vars
  BY <1>1, <1>9 DEF vars
<1> QED BY <1>2, <1>3, <1>4, <1>5, <1>6, <1>7, <1>8, <1>9 DEF Next, ChangeLoop, DrainStep

\* Only an applied job is archived, and only an archived one is reported as
\* processed.
LEMMA AppliedFirstKept ==
    ASSUME TypeOK, LoopWaits, AppliedFirst, [Next]_vars
    PROVE  AppliedFirst'
<1> USE DEF AppliedFirst
<1>1. SpoolType /\ LoopType /\ applied \subseteq applied'
  BY KeptKept DEF TypeOK
<1>2. ASSUME processed' = processed, handling' = handling, outcome' = "none"
      PROVE  AppliedFirst'
  BY <1>1, <1>2
<1>3. ASSUME processed' = processed, handling' = handling, outcome' = outcome, cur' = cur,
             pc' = pc \/ pc # "settle"
      PROVE  AppliedFirst'
  BY <1>1, <1>3
<1>4. ASSUME NEW d \in Doc, Enqueue(d) \/ SweepFind(d) \/ SweepReset(d)
      PROVE  AppliedFirst'
  BY <1>3, <1>4 DEF Enqueue, SweepFind, SweepReset, loop, spool, drains
<1>5. ASSUME NEW d \in Doc, Deliver(d) PROVE AppliedFirst'
  BY <1>1, <1>5 DEF Deliver, spool, drains
<1>6. ASSUME Claim \/ ClaimServerError \/ Settle PROVE AppliedFirst'
  BY <1>2, <1>3, <1>6, ListenType DEF Claim, ClaimServerError, Settle, spool, drains
<1>7. ASSUME ClaimError \/ SettleConflict \/ SettleError \/ Crash PROVE AppliedFirst'
  <2>1. /\ processed' = processed /\ applied' = applied /\ outcome' = "none"
        /\ \A a \in Actor : handling'[a] \in {None, handling[a]}
    BY <1>1, <1>7, ExitType DEF ClaimError, SettleConflict, SettleError, Crash, spool
  <2> QED BY <2>1
<1>8. ASSUME MarkProcessing \/ MarkConflict \/ MarkError PROVE AppliedFirst'
  <2>1. outcome # "processed" /\ outcome' = outcome
    BY <1>8 DEF MarkProcessing, MarkConflict, MarkError, NextMarkAttempt
  <2> QED BY <1>1, <1>8, <2>1
          DEF MarkProcessing, MarkConflict, MarkError, spool, drains
<1>9. ASSUME Materialize \/ MaterializeFails \/ DrainRefused PROVE AppliedFirst'
  BY <1>1, <1>9 DEF Materialize, MaterializeFails, DrainRefused, spool, drains
<1>10. ASSUME Lookup \/ Exists PROVE AppliedFirst'
  BY <1>1, <1>10 DEF Lookup, Exists, spool, drains
<1>11. ASSUME Restart PROVE AppliedFirst'
  BY <1>3, <1>11 DEF Restart, spool, drains
<1>12. ASSUME NEW a \in Actor, BeginDrain(a) PROVE AppliedFirst'
  BY <1>3, <1>12 DEF BeginDrain, loop, spool
<1>13. ASSUME NEW a \in Actor, Apply(a) PROVE AppliedFirst'
  BY <1>1, <1>13 DEF Apply, SpoolType, loop
<1>14. ASSUME NEW a \in Actor, Archive(a) PROVE AppliedFirst'
  BY <1>1, <1>14, NoneAssumption DEF Archive, SpoolType, loop
<1>15. ASSUME NEW a \in Actor, Reject(a) PROVE AppliedFirst'
  <2>1. \A b \in Actor : handling'[b] \in {None, handling[b]}
    BY <1>1, <1>15 DEF Reject, SpoolType
  <2> QED BY <1>1, <1>15, <2>1 DEF Reject, loop
<1>16. ASSUME NEW a \in Actor, EndDrain(a) PROVE AppliedFirst'
  BY <1>3, <1>16 DEF EndDrain, LoopWaits, spool
<1>17. CASE UNCHANGED vars
  BY <1>3, <1>17 DEF vars, loop, spool, drains
<1> QED BY <1>4, <1>5, <1>6, <1>7, <1>8, <1>9, <1>10, <1>11, <1>12, <1>13, <1>14, <1>15,
           <1>16, <1>17
        DEF Next, ChangeLoop, Failure, DrainStep

\* Once materialized, the current document's job is not lost sight of.
LEMMA JobDepositedKept ==
    ASSUME TypeOK, LoopWaits, AppliedFirst, JobDeposited, [Next]_vars
    PROVE  JobDeposited'
<1> DEFINE Deposited == {"drain", "lookup", "exists", "settle"}
<1> USE DEF JobDeposited
<1>1. LoopType /\ faults' >= faults /\ faults \in Nat /\ faults' \in Nat
  BY BoundTypeKept, BoundsAssumption DEF TypeOK, BoundType
<1>2. \A d \in Doc : Kept(d) => Kept(d)'
  BY KeptKept
\* A step after materialization goes on with the same document.
<1>3. ASSUME cur' = cur, pc \in Deposited PROVE JobDeposited'
  <2>1. cur \in Doc
    BY <1>1, <1>3, CurIsDoc DEF Busy
  <2> QED BY <1>1, <1>2, <1>3, <2>1 DEF Kept
<1>4. ASSUME pc' \notin Deposited PROVE JobDeposited'
  BY <1>4
<1>5. ASSUME UNCHANGED loop PROVE JobDeposited'
  BY <1>3, <1>4, <1>5 DEF loop
<1>6. ASSUME NEW d \in Doc, Enqueue(d) \/ SweepFind(d) PROVE JobDeposited'
  BY <1>5, <1>6 DEF Enqueue, SweepFind
<1>7. ASSUME NEW d \in Doc, SweepReset(d) PROVE JobDeposited'
  BY <1>3, <1>4, <1>7 DEF SweepReset
<1>8. ASSUME NEW d \in Doc, Deliver(d) PROVE JobDeposited'
  BY <1>4, <1>8 DEF Deliver
<1>9. ASSUME Claim \/ ClaimServerError \/ Settle PROVE JobDeposited'
  BY <1>4, <1>9, ListenType DEF Claim, ClaimServerError, Settle
<1>10. ASSUME ClaimError \/ SettleConflict \/ SettleError \/ Crash PROVE JobDeposited'
  BY <1>4, <1>10, ExitType DEF ClaimError, SettleConflict, SettleError, Crash, TypeOK
<1>11. ASSUME MarkProcessing \/ MarkConflict \/ MarkError \/ Restart PROVE JobDeposited'
  BY <1>4, <1>11 DEF MarkProcessing, MarkConflict, MarkError, NextMarkAttempt, Restart
<1>12. ASSUME Materialize PROVE JobDeposited'
  BY <1>12 DEF Materialize, Kept
<1>13. ASSUME MaterializeFails PROVE JobDeposited'
  BY <1>1, <1>13 DEF MaterializeFails, Fault, FaultSkipping
<1>14. ASSUME DrainRefused \/ Lookup \/ Exists PROVE JobDeposited'
  BY <1>3, <1>4, <1>14 DEF DrainRefused, Lookup, Exists
<1>15. ASSUME NEW a \in Actor, BeginDrain(a) \/ Apply(a) \/ Archive(a) \/ Reject(a)
       PROVE  JobDeposited'
  BY <1>5, <1>15 DEF BeginDrain, Apply, Archive, Reject
<1>16. ASSUME NEW a \in Actor, EndDrain(a) PROVE JobDeposited'
  BY <1>3, <1>4, <1>16 DEF EndDrain, LoopWaits
<1>17. CASE UNCHANGED vars
  BY <1>5, <1>17 DEF vars
<1> QED BY <1>6, <1>7, <1>8, <1>9, <1>10, <1>11, <1>12, <1>13, <1>14, <1>15, <1>16, <1>17
        DEF Next, ChangeLoop, Failure, DrainStep

-----------------------------------------------------------------------------
(***************************************************************************)
(* The outcomes                                                             *)
(***************************************************************************)
\* How a document's state can change: claim, mark, settle with the outcome
\* the change loop holds, and the way in; each from one state only.
LEMMA StateSteps ==
    ASSUME TypeOK, LoopWaits, FreshIsStored, CopiesAreProcessing, [Next]_vars, NEW e \in Doc
    PROVE  \/ state'[e] = state[e]
           \/ state[e] \notin Settled /\ state'[e] \notin Settled
           \/ state[e] = "processing" /\ state'[e] = Verdict /\ pc = "settle" /\ cur = e
<1> DEFINE Goal == \/ state'[e] = state[e]
                   \/ state[e] \notin Settled /\ state'[e] \notin Settled
                   \/ /\ state[e] = "processing" /\ state'[e] = Verdict
                      /\ pc = "settle" /\ cur = e
<1>1. CouchType /\ LoopType /\ (fresh => cur \in Doc)
  BY CurIsDoc DEF TypeOK, FreshIsStored
<1>2. ASSUME NEW d \in Doc, Write(d, "pending") \/ Write(d, "claimed") \/ Write(d, "processing"),
             state[d] \notin Settled
      PROVE  Goal
  BY <1>1, <1>2, WriteEffect DEF State, Settled
<1>3. ASSUME UNCHANGED couch PROVE Goal
  BY <1>3 DEF couch
<1>4. ASSUME NEW d \in Doc, Enqueue(d) PROVE Goal
  BY <1>2, <1>4 DEF Enqueue, Settled
<1>5. ASSUME NEW d \in Doc, SweepFind(d) \/ Deliver(d) PROVE Goal
  BY <1>5 DEF SweepFind, Deliver
<1>6. ASSUME NEW d \in Doc, SweepReset(d) PROVE Goal
  BY <1>1, <1>6 DEF SweepReset, CouchType, CopiesAreProcessing, Settled
<1>7. ASSUME Claim \/ ClaimServerError \/ ClaimError PROVE Goal
  <2>1. cur \in Doc
    BY <1>1, <1>7, CurIsDoc DEF Claim, ClaimServerError, ClaimError
  <2> QED BY <1>2, <1>3, <1>7, <2>1
          DEF Claim, ClaimServerError, ClaimError, ClaimStored, Settled
<1>8. ASSUME MarkProcessing \/ MarkError PROVE Goal
  <2>1. fresh => state[cur] = "claimed"
    BY <1>8 DEF MarkProcessing, MarkError, FreshIsStored
  <2> QED BY <1>1, <1>2, <1>3, <1>8, <2>1 DEF MarkProcessing, MarkError, Settled
<1>9. ASSUME Settle \/ SettleError PROVE Goal
  <2>1. pc = "settle" /\ (UNCHANGED couch \/ (fresh /\ Write(cur, Verdict)))
    BY <1>9 DEF Settle, SettleError
  <2>2. CASE fresh /\ Write(cur, Verdict)
    <3>1. cur \in Doc /\ state[cur] = "processing"
      BY <1>1, <2>1, <2>2 DEF FreshIsStored
    <3>2. state'[cur] = Verdict /\ \A d \in Doc \ {cur} : state'[d] = state[d]
      BY <1>1, <2>2, <3>1, WriteEffect, VerdictIsState
    <3> QED BY <2>1, <3>1, <3>2
  <2> QED BY <1>3, <2>1, <2>2
<1>10. ASSUME \/ MarkConflict \/ Materialize \/ MaterializeFails \/ DrainRefused
              \/ Lookup \/ Exists \/ SettleConflict \/ Crash \/ Restart
       PROVE  Goal
  BY <1>3, <1>10 DEF MarkConflict, Materialize, MaterializeFails, DrainRefused, Lookup,
                     Exists, SettleConflict, Crash, Restart
<1>11. ASSUME NEW a \in Actor, BeginDrain(a) \/ DrainStep(a) PROVE Goal
  BY <1>3, <1>11 DEF BeginDrain, DrainStep, Apply, Archive, Reject, EndDrain
<1>12. CASE UNCHANGED vars
  BY <1>3, <1>12 DEF vars
<1> QED BY <1>4, <1>5, <1>6, <1>7, <1>8, <1>9, <1>10, <1>11, <1>12
        DEF Next, ChangeLoop, Failure

LEMMA OutcomesKept ==
    ASSUME IInv, [Next]_vars
    PROVE  CompleteIsApplied' /\ FailedKeepsJob'
<1> USE DEF IInv
<1>1. /\ applied \subseteq applied' /\ \A d \in Doc : Kept(d) => Kept(d)'
      /\ faults' >= faults /\ faults \in Nat /\ faults' \in Nat
  BY KeptKept, BoundTypeKept, BoundsAssumption DEF TypeOK, BoundType
<1>2. ASSUME NEW e \in Doc, state'[e] = "complete" PROVE e \in applied'
  <2>1. CASE state[e] = "complete"
    BY <1>1, <2>1 DEF CompleteIsApplied
  <2>2. CASE state[e] # "complete"
    <3>1. state'[e] = Verdict /\ cur = e
      BY <1>2, <2>2, StateSteps DEF Settled
    <3>2. outcome = "processed"
      BY <1>2, <3>1 DEF Verdict
    <3> QED BY <1>1, <3>1, <3>2 DEF AppliedFirst
  <2> QED BY <2>1, <2>2
<1>3. ASSUME NEW e \in Doc, state'[e] = "failed" PROVE Kept(e)' \/ faults' > 0
  <2>1. CASE state[e] = "failed"
    BY <1>1, <2>1 DEF FailedKeepsJob, Kept
  <2>2. CASE state[e] # "failed"
    <3>1. pc = "settle" /\ cur = e
      BY <1>3, <2>2, StateSteps DEF Settled
    <3>2. Kept(e) \/ faults > 0
      BY <3>1 DEF JobDeposited
    <3> QED BY <1>1, <3>2
  <2> QED BY <2>1, <2>2
<1> QED BY <1>2, <1>3 DEF CompleteIsApplied, FailedKeepsJob, Kept

-----------------------------------------------------------------------------
(***************************************************************************)
(* The theorems                                                             *)
(***************************************************************************)
LEMMA InitHolds == Init => IInv
<1> SUFFICES ASSUME Init PROVE IInv
  OBVIOUS
<1>1. CouchType /\ SpoolType
  BY DEF Init, CouchType, SpoolType, State
<1>2. fresh = FALSE
  BY DEF Init
<1>3. fresh \in BOOLEAN /\ ~ fresh
  BY <1>2, Zenon
<1>4. LoopType /\ BoundType
  BY <1>3, NoneAssumption, AttemptsAssumption, BoundsAssumption
     DEF Init, LoopType, BoundType, Busy
<1>5. LoopWaits /\ FreshIsStored /\ CopiesAreProcessing /\ AppliedFirst /\ JobDeposited
  BY <1>3 DEF Init, LoopWaits, FreshIsStored, CopiesAreProcessing, AppliedFirst, JobDeposited
<1>6. ClaimsHeld /\ CompleteIsApplied /\ FailedKeepsJob
  BY DEF Init, ClaimsHeld, CompleteIsApplied, FailedKeepsJob
<1> QED BY <1>1, <1>4, <1>5, <1>6 DEF IInv, TypeOK

\* The inductive invariant of the transport: types, both copies of a document
\* agree with it while current, what is reported was applied, and a
\* materialized job is somewhere.
THEOREM Invariant == Spec => []IInv
<1>1. Init => IInv
  BY InitHolds
<1>2. IInv /\ [Next]_vars => IInv'
  BY TypeKept, LoopWaitsKept, CopiesKept, ClaimsHeldKept, AppliedFirstKept,
     JobDepositedKept, OutcomesKept
     DEF IInv
<1> QED BY <1>1, <1>2, PTL DEF Spec

\* Type correctness; with it, no retry loop of the daemon exceeds its tries.
THEOREM TypeCorrect == Spec => []TypeOK
<1>1. IInv => TypeOK
  BY DEF IInv
<1> QED BY <1>1, Invariant, PTL

\* A document is reported complete only if its job is in the vault, with any
\* number of crashes, sweeps, lost answers and concurrent drains.
THEOREM CompleteSound == Spec => []CompleteIsApplied
<1>1. IInv => CompleteIsApplied
  BY DEF IInv
<1> QED BY <1>1, Invariant, PTL

\* A document reported failed leaves its job's file or its effect behind,
\* unless a request or a file write failed or the daemon crashed.
THEOREM FailedSound == Spec => []FailedKeepsJob
<1>1. IInv => FailedKeepsJob
  BY DEF IInv
<1> QED BY <1>1, Invariant, PTL

\* Only a failed request or a crash leaves a document in claimed for good; no
\* interleaving of the sweep, the drains and the change loop does.
THEOREM StrandingNeedsFault == Spec => []OnlyFaultsStrand
<1>1. IInv => OnlyFaultsStrand
  BY BoundsAssumption DEF IInv, ClaimsHeld, OnlyFaultsStrand, Stranded, TypeOK, BoundType
<1> QED BY <1>1, Invariant, PTL

\* complete and failed are final, whatever the sweep or a retry does later.
THEOREM OutcomeIsFinal == Spec => SettledStaysSettled
<1>1. IInv /\ [Next]_vars
         => [\A d \in Doc : state[d] \in Settled => state'[d] = state[d]]_vars
  BY StateSteps DEF IInv, Settled
<1> QED BY <1>1, Invariant, PTL DEF Spec, SettledStaysSettled
=============================================================================
