------------------------- MODULE CaptureImport_proofs -------------------------
(***************************************************************************)
(* Proofs about the import of a capture (CaptureIngress, in CapturePath):  *)
(* a document marked complete was imported.  The watcher works on a copy   *)
(* of the document that submissions replace meanwhile, and the intake file *)
(* it leaves is kept, or rewritten, by the imports of later revisions.     *)
(***************************************************************************)
EXTENDS CapturePath_proofs

-----------------------------------------------------------------------------
(***************************************************************************)
(* The inductive invariant.                                                *)
(***************************************************************************)
\* All the media the phone did not lose.
Full(M) == Media \ lost \subseteq M

\* A medium that was not lost is in every request that is prepared, sent or served, or is
\* already in the document: then a request without it is refused.
RequestsFull ==
  \A m \in Media \ lost :
    /\ drain.phase = "preparing" => m \in drain.media \/ OnDoc(m)
    /\ \A c \in live : m \in body[c] \/ OnDoc(m)
    /\ \A c \in Conns : handler[c].phase \in Serving => m \in handler[c].media \/ OnDoc(m)

\* The watcher has a document in hand.
Working == watcher.phase \notin {"idle", "down"}

\* The revisions in being, their state aside: stored, in the watcher's hand, or about to be PUT.
Revision(d) == [media |-> d.media, noted |-> d.noted, repaired |-> d.repaired]
Revisions ==
  (IF doc = NoDoc THEN {} ELSE {Revision(doc)})
    \cup (IF Working THEN {Revision(watcher.doc)} ELSE {})
    \cup {Revision(handler[c].put) : c \in {x \in Conns : handler[x].phase \in Putting}}

\* A PUT makes the document pending; before the first one nothing was imported.
FirstThings ==
  /\ \A c \in Conns : handler[c].phase \in Putting => handler[c].put.state = "pending"
  /\ doc = NoDoc => ~Working /\ intake = None

\* R is a partial document of an upload cut short: whatever else there is was made from it by
\* repairs, which keep its note.
Root(R) ==
  /\ \A V \in Revisions : /\ ~V.noted /\ R.media \subseteq V.media
                          /\ V.repaired \/ V.media = R.media
  /\ intake # None => ~intake.noted /\ R.media \subseteq intake.media

\* What is not full is such a root.
Lineage ==
  /\ \A R \in Revisions : Full(R.media) \/ Root(R)
  /\ intake # None => Full(intake.media) \/ Root(intake)

\* How far the import in hand has come, and what the last one has left.
Progress ==
  /\ watcher.phase = "copy" =>
       /\ watcher.had <=> intake # None
       /\ watcher.had \/ \A m \in watcher.doc.media \ watcher.todo : local[m] = "whole"
  /\ watcher.phase = "complete" =>
       intake # None /\ watcher.doc.media \ lost \subseteq intake.media
  /\ doc.state = "complete" =>
       intake # None /\ doc.media \ lost \subseteq intake.media

\* Once there is an intake file, what a revision lists is whole here, unless it was repaired.
CopiesWhole ==
  intake # None =>
    \A V \in Revisions : V.repaired \/ \A m \in V.media \ lost : local[m] = "whole"

ImportInv == /\ IInv /\ RequestsFull /\ FirstThings /\ Lineage /\ Progress /\ CopiesWhole

-----------------------------------------------------------------------------
(***************************************************************************)
(* The requests.                                                           *)
(***************************************************************************)
LEMMA LossesStay ==
  ASSUME Next
  PROVE  lost \subseteq lost'
<1>1. CASE PhoneAction
  BY <1>1 DEF PhoneAction, DrainBegin, BeginUnsaved, PrepareFails, Confirm, ConfirmUnsaved, Release,
              TokenRejected, Unconfirmed, DrainEnd, EndUnsaved, EndRound, DrainList, DrainSkip,
              RecSnapshot, RecApply, RecUnsaved, RecRelease, Retry, UploadSurviving, DeleteCapture,
              TokenRefused, Reconnect, Relaunch, LoseMedia
<1>2. CASE UNCHANGED phoneVars \/ \E c \in Conns : Send(c)
  BY <1>2 DEF phoneVars, Send
<1>3. ASSUME NEW c \in Conns, Hears(c)
      PROVE  UNCHANGED lost
  BY <1>3 DEF Hears, Learns, TaskEnds, phoneVars
<1> QED BY Steps, <1>1, <1>2, <1>3 DEF clientVars

\* The drain takes a row that is pending.
LEMMA DrainTakesPending ==
  ASSUME TypeOK, Next, drain'.phase = "preparing"
  PROVE  \/ drain.phase = "preparing" /\ drain'.media = drain.media
         \/ row.status = "pending" /\ drain'.media = row.media
<1>a. UNCHANGED drain => drain.phase = "preparing" /\ drain'.media = drain.media
  OBVIOUS
<1>1. CASE DrainBegin
  BY <1>1 DEF DrainBegin, NoDrain
<1>2. CASE BeginUnsaved \/ PrepareFails \/ Confirm \/ ConfirmUnsaved \/ Release \/ Unconfirmed
           \/ TokenRejected \/ DrainList \/ DrainSkip \/ DrainEnd \/ EndUnsaved \/ Relaunch
  <2>1. \/ \E p \in {"closing", "stopping", "listed"} :
             drain' = [phase |-> p, media |-> {}, conn |-> None, answer |-> Again]
        \/ drain' = [phase |-> "releasing", media |-> row.media, conn |-> None, answer |-> Again]
        \/ drain' = NoDrain
    <3>1. CASE BeginUnsaved \/ PrepareFails \/ ConfirmUnsaved
      BY <3>1 DEF BeginUnsaved, PrepareFails, ConfirmUnsaved, NoDrain
    <3>2. CASE Confirm
      BY <3>2 DEF Confirm, NoDrain
    <3>3. CASE Release \/ Unconfirmed \/ TokenRejected \/ DrainList \/ DrainSkip
      BY <3>3 DEF Release, Unconfirmed, TokenRejected, DrainList, DrainSkip, NoDrain
    <3>4. CASE DrainEnd \/ EndUnsaved \/ Relaunch
      BY <3>4 DEF DrainEnd, EndUnsaved, EndRound, Relaunch, NoDrain
    <3> QED BY <1>2, <3>1, <3>2, <3>3, <3>4
  <2> QED BY <2>1 DEF NoDrain
<1>3. CASE RecSnapshot \/ RecApply \/ RecRelease \/ Retry \/ UploadSurviving \/ DeleteCapture
           \/ RecUnsaved \/ TokenRefused \/ Reconnect \/ \E m \in Media : LoseMedia(m)
  BY <1>3, <1>a DEF RecSnapshot, RecUnsaved, TokenRefused, Reconnect, RecApply, RecRelease, Retry, UploadSurviving, DeleteCapture, LoseMedia
<1>4. ASSUME NEW c \in Conns, Send(c)
      PROVE  FALSE
  BY <1>4 DEF Send, TypeOK, PhoneType
<1>5. ASSUME NEW c \in Conns, NEW a, TaskEnds(c, a)
      PROVE  UNCHANGED drain
  BY <1>5 DEF TaskEnds, TypeOK, PhoneType
<1>6. CASE UNCHANGED phoneVars
  BY <1>6, <1>a DEF phoneVars
<1>7. ASSUME NEW c \in Conns, Hears(c)
      PROVE  (\E a : TaskEnds(c, a)) \/ UNCHANGED phoneVars
  BY <1>7 DEF Hears, Learns
<1> QED BY Steps, <1>a, <1>1, <1>2, <1>3, <1>4, <1>5, <1>6, <1>7 DEF PhoneAction, clientVars

LEMMA RequestsFullKept ==
  ASSUME IInv, RequestsFull, Next
  PROVE  RequestsFull'
<1> SUFFICES ASSUME NEW m \in Media, m \notin lost'
             PROVE  /\ drain'.phase = "preparing" => m \in drain'.media \/ OnDoc(m)'
                    /\ \A c \in live' : m \in body'[c] \/ OnDoc(m)'
                    /\ \A c \in Conns : handler'[c].phase \in Serving =>
                         m \in handler'[c].media \/ OnDoc(m)'
  BY DEF RequestsFull
<1>1. /\ TypeOK /\ OneClient /\ RowsAgree /\ Backed /\ Held /\ Kept
      /\ m \notin lost
  BY LossesStay DEF IInv
<1>2. OnDoc(m) => OnDoc(m)'
  BY <1>1, ServerMoves, ServerSafe DEF TypeOK
<1>3. CASE OnDoc(m)
  BY <1>2, <1>3
<1>4. CASE ~OnDoc(m)
  <2>1. drain'.phase = "preparing" => m \in drain'.media
    BY <1>1, <1>4, DrainTakesPending DEF RequestsFull, Kept
  <2>2. ASSUME NEW c \in live'
        PROVE  m \in body'[c]
    BY <1>1, <1>4, <2>2, ClientMoves DEF RequestsFull
  <2>3. ASSUME NEW c \in Conns, handler'[c].phase \in Serving
        PROVE  m \in handler'[c].media
    BY <1>1, <1>4, <2>3, HandlerMoves DEF RequestsFull
  <2> QED BY <2>1, <2>2, <2>3
<1> QED BY <1>3, <1>4

\* What is about to be PUT is full.
LEMMA PutsFull ==
  ASSUME RequestsFull, Backed, NEW c \in Conns, handler[c].phase \in Putting
  PROVE  Full(handler[c].put.media)
BY DEF RequestsFull, Backed, Full, OnDoc, Serving, Putting

\* What a handler is about to prepare without a document, or from one that it extends, is full.
LEMMA PreparedFull ==
  ASSUME RequestsFull, NEW c \in Conns, handler[c].phase = "lookup",
         doc.media \subseteq handler[c].media
  PROVE  Full(handler[c].media)
BY DEF RequestsFull, Full, OnDoc, Serving

-----------------------------------------------------------------------------
(***************************************************************************)
(* What a step may do to the revisions, and what that keeps.               *)
(***************************************************************************)
\* The copies stay, and nothing is lost and found.
Steady == /\ lost \subseteq lost'
          /\ \A m \in Media : local[m] = "whole" => local'[m] = "whole"

\* A revision is handed on, or given up.
LEMMA HandedOnKeeps ==
  ASSUME TypeOK, Steady, UNCHANGED intake, Revisions' \subseteq Revisions, Lineage, CopiesWhole
  PROVE  Lineage' /\ CopiesWhole'
<1>1. \A M : Full(M) => Full(M)'
  BY DEF Full, Steady
<1>2. \A R : Root(R) => Root(R)'
  BY DEF Root
<1>3. Lineage'
  BY <1>1, <1>2 DEF Lineage
<1>4. \A V \in Revisions : V.media \subseteq Media
  BY DEF TypeOK, ServerType, Doc, Revisions, Revision
<1>5. CopiesWhole'
  BY <1>4 DEF CopiesWhole, Steady
<1> QED BY <1>3, <1>5

\* The revision a handler prepares: the first one, or a repair of the stored one.
LEMMA PreparedKeeps ==
  ASSUME TypeOK, Steady, UNCHANGED <<intake, local>>, Lineage, CopiesWhole, FirstThings,
         NEW P, Revisions' \subseteq Revisions \cup {P}, Full(P.media),
         \/ doc = NoDoc /\ \A V \in Revisions : Full(V.media)
         \/ /\ doc # NoDoc /\ P.noted = doc.noted /\ P.repaired
            /\ doc.media \subseteq P.media
  PROVE  Lineage' /\ CopiesWhole'
<1>1. \A M : Full(M) => Full(M)'
  BY DEF Full, Steady
<1>2. CASE doc = NoDoc /\ \A V \in Revisions : Full(V.media)
  <2>1. intake = None
    BY <1>2 DEF FirstThings
  <2> QED BY <1>1, <1>2, <2>1 DEF Lineage, CopiesWhole
<1>3. CASE /\ doc # NoDoc /\ P.noted = doc.noted /\ P.repaired
           /\ doc.media \subseteq P.media
  <2>1. Revision(doc) \in Revisions /\ Revision(doc).media = doc.media /\ Revision(doc).noted = doc.noted
    BY <1>3 DEF Revisions, Revision
  <2>2. \A R : Root(R) => Root(R)'
    BY <1>3, <2>1 DEF Root
  <2>3. Lineage'
    BY <1>1, <2>2 DEF Lineage
  <2>4. \A V \in Revisions : V.media \subseteq Media
    BY DEF TypeOK, ServerType, Doc, Revisions, Revision
  <2>5. CopiesWhole'
    BY <1>3, <2>4 DEF CopiesWhole, Steady
  <2> QED BY <2>3, <2>5
<1> QED BY <1>2, <1>3

\* A document that is written has a state, and so is not the missing one.
LEMMA WrittenIsThere ==
  ASSUME NEW d, d.state # "none"
  PROVE  d # NoDoc
BY DEF NoDoc

-----------------------------------------------------------------------------
(***************************************************************************)
(* The handlers.                                                           *)
(***************************************************************************)
\* All but the lookup of a handler.
LEMMA HandlerRevisions ==
  ASSUME ServerType, FirstThings, NEW c \in Conns,
         (HandlerAction(c) /\ ~Lookup(c)) \/ \E M \in SUBSET Media : Receive(c, M)
  PROVE  /\ Revisions' \subseteq Revisions /\ FirstThings'
         /\ UNCHANGED <<watcher, local, intake>>
         /\ UNCHANGED doc \/ doc'.state = "pending"
<1>a. DOMAIN handler = Conns
  BY DEF ServerType
<1>b. \A x \in Conns \ {c} : handler'[x] = handler[x]
  BY <1>a DEF HandlerAction, Receive, WriteMedia, GetRev, PutDoc, Answer, Conflict, Reply, CouchFails,
              Unauthorized
<1>c. UNCHANGED <<watcher, local, intake>>
  BY DEF HandlerAction, Receive, WriteMedia, GetRev, PutDoc, Reply, CouchFails, Unauthorized
<1>d. /\ handler'[c].phase \in Putting => handler[c].phase \in Putting /\ handler'[c].put = handler[c].put
      /\ \/ UNCHANGED doc
         \/ handler[c].phase \in Putting /\ doc' = handler[c].put
  <2>1. CASE WriteMedia(c) \/ GetRev(c)
    BY <2>1, <1>a DEF WriteMedia, GetRev, ServerType, Putting
  <2>2. ASSUME NEW a, Answer(c, a)
        PROVE  handler'[c].phase = "reply"
    BY <2>2, <1>a DEF Answer, NoHandler
  <2>3. CASE PutDoc(c)
    <3>1. CASE handler' = [handler EXCEPT ![c].phase = "rev", ![c].attempt = 2]
      BY <2>3, <3>1, <1>a DEF PutDoc, Write, ServerType, Putting
    <3>2. CASE \E a : Answer(c, a)
      BY <2>2, <2>3, <3>2 DEF PutDoc, Write, Putting
    <3> QED BY <2>3, <3>1, <3>2 DEF PutDoc, Conflict
  <2>4. CASE CouchFails(c) \/ Unauthorized(c)
    BY <2>2, <2>4 DEF CouchFails, Unauthorized, Write, Putting
  <2>5. CASE Reply(c)
    BY <2>5, <1>a DEF Reply, NoHandler, Putting
  <2>6. CASE \E M \in SUBSET Media : Receive(c, M)
    <3>1. PICK M \in SUBSET Media : handler' = [handler EXCEPT ![c].phase = "lookup", ![c].media = M]
      BY <2>6 DEF Receive
    <3>2. handler'[c].phase = "lookup"
      BY <3>1, <1>a DEF ServerType
    <3> QED BY <2>6, <3>2 DEF Receive, Putting
  <2> QED BY <2>1, <2>3, <2>4, <2>5, <2>6 DEF HandlerAction
<1>e. /\ UNCHANGED doc \/ doc'.state = "pending"
      /\ doc' = NoDoc => doc = NoDoc
  BY <1>d, WrittenIsThere DEF FirstThings
<1>f. Working' <=> Working
  BY <1>c DEF Working
<1>1. Revisions' \subseteq Revisions
  <2> SUFFICES ASSUME NEW V \in Revisions' PROVE V \in Revisions
    OBVIOUS
  <2>1. CASE doc' # NoDoc /\ V = Revision(doc')
    BY <2>1, <1>d DEF Revisions
  <2>2. CASE Working' /\ V = Revision(watcher'.doc)
    BY <2>2, <1>c, <1>f DEF Revisions
  <2>3. CASE \E x \in Conns : handler'[x].phase \in Putting /\ V = Revision(handler'[x].put)
    BY <2>3, <1>b, <1>d DEF Revisions
  <2> QED BY <2>1, <2>2, <2>3 DEF Revisions, Revision
<1>2. FirstThings'
  BY <1>b, <1>c, <1>d, <1>e, <1>f DEF FirstThings
<1> QED BY <1>c, <1>e, <1>1, <1>2

LEMMA LookupRevisions ==
  ASSUME TypeOK, Backed, RequestsFull, FirstThings, NEW c \in Conns, Lookup(c)
  PROVE  /\ FirstThings' /\ UNCHANGED <<doc, watcher, local, intake>>
         /\ \/ Revisions' \subseteq Revisions
            \/ \E P : /\ Revisions' \subseteq Revisions \cup {P} /\ Full(P.media)
                      /\ \/ doc = NoDoc /\ \A V \in Revisions : Full(V.media)
                         \/ /\ doc # NoDoc /\ P.noted = doc.noted /\ P.repaired
                            /\ doc.media \subseteq P.media
<1>a. DOMAIN handler = Conns /\ handler[c].media \in SUBSET Media
  BY DEF TypeOK, ServerType
<1>b. \A x \in Conns \ {c} : handler'[x] = handler[x]
  BY <1>a DEF Lookup, Prepared, Answer
<1>c. UNCHANGED <<doc, watcher, local, intake>>
  BY DEF Lookup
<1>1. CASE \E a : Answer(c, a)
  <2>1. handler'[c].phase = "reply"
    BY <1>1, <1>a DEF Answer, NoHandler
  <2>2. Revisions' \subseteq Revisions
    BY <1>b, <1>c, <2>1 DEF Revisions, Revision, Working, Putting
  <2>3. FirstThings'
    BY <1>b, <1>c, <2>1 DEF FirstThings, Working, Putting
  <2> QED BY <1>c, <2>2, <2>3
<1>2. ASSUME NEW d, NEW T, Prepared(c, d, T), d.state = "pending"
      PROVE  FirstThings' /\ Revisions' \subseteq Revisions \cup {Revision(d)}
  <2>1. handler'[c].phase = "write" /\ handler'[c].put = d
    BY <1>2, <1>a DEF Prepared, TypeOK, ServerType
  <2>2. FirstThings'
    BY <1>2, <1>b, <1>c, <2>1 DEF FirstThings, Working, Putting
  <2>3. Revisions' \subseteq Revisions \cup {Revision(d)}
    BY <1>b, <1>c, <2>1 DEF Revisions, Revision, Working, Putting
  <2> QED BY <2>2, <2>3
<1>3. CASE doc = NoDoc /\ Prepared(c, NewDoc(handler[c].media), handler[c].media)
  <2> DEFINE d == NewDoc(handler[c].media)
  <2>1. FirstThings' /\ Revisions' \subseteq Revisions \cup {Revision(d)}
    BY <1>2, <1>3 DEF NewDoc
  <2>2. Full(Revision(d).media)
    BY <1>3, PreparedFull DEF Lookup, NewDoc, Revision, NoDoc
  <2>3. \A V \in Revisions : Full(V.media)
    BY <1>3, PutsFull DEF FirstThings, Revisions, Revision
  <2> QED BY <1>c, <1>3, <2>1, <2>2, <2>3
<1>4. CASE doc # NoDoc /\ doc.media \subseteq handler[c].media
           /\ Prepared(c, Repair(doc, handler[c].media), handler[c].media \ doc.media)
  <2> DEFINE d == Repair(doc, handler[c].media)
  <2>0. /\ d.state = "pending" /\ d.media = handler[c].media /\ d.noted = doc.noted
        /\ d.repaired = TRUE
    BY DEF Repair, TypeOK, ServerType, Doc
  <2> HIDE DEF d
  <2>1. FirstThings' /\ Revisions' \subseteq Revisions \cup {Revision(d)}
    BY <1>2, <1>4, <2>0 DEF d
  <2>2. /\ Full(Revision(d).media) /\ Revision(d).noted = doc.noted /\ Revision(d).repaired
        /\ doc.media \subseteq Revision(d).media
    BY <1>4, <2>0, PreparedFull DEF Lookup, Revision
  <2> QED BY <1>c, <1>4, <2>1, <2>2
<1> QED BY <1>1, <1>3, <1>4 DEF Lookup

-----------------------------------------------------------------------------
(***************************************************************************)
(* The watcher.                                                            *)
(***************************************************************************)
\* What a step that leaves the intake file alone must show of the watcher.
HandsOn == /\ Revisions' \subseteq Revisions /\ FirstThings' /\ Progress'
           /\ Steady /\ UNCHANGED intake

LEMMA AtWorkIs ==
  ASSUME ServerType, NEW p \in {"down", "idle", "claim", "mark", "copy", "complete", "fail"}, AtWork(p)
  PROVE  /\ watcher'.phase = p
         /\ p \notin {"idle", "down"} => watcher'.doc = watcher.doc
<1> DEFINE w == IF p \in {"idle", "down"} THEN NoWork ELSE watcher
<1>1. watcher' = [w EXCEPT !.phase = p] /\ (p \notin {"idle", "down"} => w = watcher)
  BY DEF AtWork
<1>2. DOMAIN w = {"phase", "doc", "todo", "had"}
  BY DEF NoWork, ServerType
<1> HIDE DEF w
<1> QED BY <1>1, <1>2

\* Revisions, when the handlers do nothing.
LEMMA WatcherRevisions ==
  ASSUME UNCHANGED handler,
         doc' = NoDoc \/ Revision(doc') \in Revisions,
         Working' => Revision(watcher'.doc) \in Revisions
  PROVE  Revisions' \subseteq Revisions
<1> SUFFICES ASSUME NEW V \in Revisions' PROVE V \in Revisions
  OBVIOUS
<1>1. V \in {Revision(handler'[c].put) : c \in {x \in Conns : handler'[x].phase \in Putting}} => V \in Revisions
  BY DEF Revisions
<1>2. \/ doc' # NoDoc /\ V = Revision(doc')
      \/ Working' /\ V = Revision(watcher'.doc)
      \/ V \in {Revision(handler'[c].put) : c \in {x \in Conns : handler'[x].phase \in Putting}}
  BY DEF Revisions, Revision
<1> QED BY <1>1, <1>2

LEMMA TakeChangeHandsOn ==
  ASSUME TypeOK, FirstThings, Progress, Steady, TakeChange
  PROVE  HandsOn
<1>1. UNCHANGED <<doc, handler, local, intake>>
  BY DEF TakeChange
<1>2. CASE doc.state = "pending"
  <2>1. watcher' = [phase |-> "claim", doc |-> doc, todo |-> {}, had |-> FALSE]
    BY <1>2 DEF TakeChange, NoWork
  <2>2. watcher'.phase = "claim" /\ watcher'.doc = doc
    BY <2>1
  <2>3. doc # NoDoc /\ Revision(doc) \in Revisions
    BY <1>2 DEF NoDoc, Revisions
  <2>4. Revisions' \subseteq Revisions
    BY <1>1, <2>2, <2>3, WatcherRevisions DEF Revision
  <2>5. FirstThings' /\ Progress'
    BY <1>1, <1>2, <2>2, <2>3 DEF FirstThings, Progress
  <2> QED BY <1>1, <2>4, <2>5 DEF HandsOn
<1>3. CASE doc.state # "pending"
  <2>1. UNCHANGED <<doc, handler, local, intake, watcher>>
    BY <1>1, <1>3 DEF TakeChange
  <2>2. Revisions' \subseteq Revisions /\ FirstThings'
    BY <2>1 DEF Revisions, Revision, FirstThings, Working
  <2>3. Progress'
    BY <2>1 DEF Progress, Steady
  <2> QED BY <1>1, <2>2, <2>3 DEF HandsOn
<1> QED BY <1>2, <1>3

\* The document gets a new state, or not, and the watcher goes on with the one it has, or gives up.
LEMMA StateChangeHandsOn ==
  ASSUME TypeOK, FirstThings, Progress, Steady, Working, UNCHANGED <<handler, local, intake>>,
         \/ UNCHANGED doc
         \/ \E s \in DocStates \ {"none"} :
              /\ doc' = [watcher.doc EXCEPT !.state = s]
              /\ s = "complete" => watcher.phase = "complete",
         \/ watcher'.phase \in {"idle", "down", "mark", "fail"}
         \/ /\ watcher'.phase = "copy"
            /\ watcher'.had = (intake # None) /\ watcher'.todo = watcher'.doc.media,
         Working' => watcher'.doc = watcher.doc
  PROVE  HandsOn
<1>a. watcher.doc \in Doc /\ Revision(watcher.doc) \in Revisions
  BY DEF TypeOK, ServerType, Revisions
<1>b. doc # NoDoc /\ Revision(doc) \in Revisions
  BY DEF FirstThings, Revisions
<1>1. CASE UNCHANGED doc
  <2>1. Revisions' \subseteq Revisions
    BY <1>1, <1>a, <1>b, WatcherRevisions DEF Revision
  <2>2. FirstThings' /\ Progress'
    BY <1>1, <1>b DEF FirstThings, Progress, Steady
  <2> QED BY <2>1, <2>2 DEF HandsOn
<1>2. ASSUME NEW s \in DocStates \ {"none"}, doc' = [watcher.doc EXCEPT !.state = s],
             s = "complete" => watcher.phase = "complete"
      PROVE  HandsOn
  <2>1. /\ doc'.state = s /\ doc'.media = watcher.doc.media
        /\ doc'.noted = watcher.doc.noted /\ doc'.repaired = watcher.doc.repaired
    BY <1>2, <1>a DEF Doc
  <2>2. doc' # NoDoc
    BY <1>2, <2>1, WrittenIsThere
  <2>3. Revision(doc') = Revision(watcher.doc)
    BY <2>1 DEF Revision
  <2>4. Revisions' \subseteq Revisions
    BY <1>a, <2>3, WatcherRevisions DEF Revision
  <2>5. FirstThings'
    BY <2>2 DEF FirstThings
  <2>6. Progress'
    BY <1>2, <2>1 DEF Progress, Steady
  <2> QED BY <2>4, <2>5, <2>6 DEF HandsOn
<1> QED BY <1>1, <1>2

LEMMA StateSteps ==
  ASSUME TypeOK, FirstThings, Progress, Steady,
         Claim \/ MarkProcessing \/ Finish \/ WatcherCouchFails
  PROVE  HandsOn
<1>a. /\ DOMAIN Target = {"claim", "mark", "complete", "fail"}
      /\ Target["claim"] = "claimed" /\ Target["mark"] = "processing"
      /\ Target["complete"] = "complete" /\ Target["fail"] = "failed"
  BY DEF Target
<1>b. \A p \in DOMAIN Target : /\ Target[p] \in DocStates \ {"none"}
                               /\ Target[p] = "complete" => p = "complete"
  BY <1>a DEF DocStates
<1>c. Working /\ UNCHANGED <<handler, local, intake>>
  BY <1>a DEF Claim, MarkProcessing, Finish, WatcherCouchFails, Working
<1>d. ASSUME NEW p \in {"down", "idle", "mark"}, AtWork(p)
      PROVE  watcher'.phase = p /\ (Working' => watcher'.doc = watcher.doc)
  BY <1>d, AtWorkIs DEF TypeOK, Working
<1>1. CASE Claim \/ Finish \/ WatcherCouchFails
  <2>1. \/ UNCHANGED doc
        \/ \E s \in DocStates \ {"none"} :
             /\ doc' = [watcher.doc EXCEPT !.state = s]
             /\ s = "complete" => watcher.phase = "complete"
    <3>1. /\ watcher.phase \in DOMAIN Target
          /\ UNCHANGED doc \/ doc' = [watcher.doc EXCEPT !.state = Target[watcher.phase]]
      BY <1>1, <1>a DEF Claim, Finish, WatcherCouchFails, Advance, Write
    <3> QED BY <1>b, <3>1
  <2>2. \E p \in {"down", "idle", "mark"} : AtWork(p)
    BY <1>1 DEF Claim, Finish, WatcherCouchFails, Advance
  <2> QED BY <1>c, <1>d, <2>1, <2>2, StateChangeHandsOn
<1>2. CASE MarkProcessing
  <2>1. CASE Watcher \in fresh
    <3>1. doc' = [watcher.doc EXCEPT !.state = "processing"]
      BY <1>2, <2>1 DEF MarkProcessing, Write
    <3>2. PICK b \in BOOLEAN :
            /\ watcher' = [watcher EXCEPT !.phase = "copy", !.todo = watcher.doc.media, !.had = b]
            /\ b = (intake # None)
      BY <1>2, <2>1 DEF MarkProcessing
    <3>3. /\ watcher'.phase = "copy" /\ watcher'.doc = watcher.doc
          /\ watcher'.todo = watcher.doc.media /\ watcher'.had = b
      BY <3>2 DEF TypeOK, ServerType
    <3>4. "processing" \in DocStates \ {"none"}
      BY DEF DocStates
    <3> QED BY <1>c, <3>1, <3>2, <3>3, <3>4, StateChangeHandsOn
  <2>2. CASE Watcher \notin fresh
    <3>1. AtWork("idle") /\ UNCHANGED doc
      BY <1>2, <2>2 DEF MarkProcessing
    <3> QED BY <1>c, <1>d, <3>1, StateChangeHandsOn
  <2> QED BY <2>1, <2>2
<1> QED BY <1>1, <1>2

\* The watcher stops, is started again or gives up the copy; a partial file may be left.
LEMMA StopSteps ==
  ASSUME TypeOK, FirstThings, Progress, lost \subseteq lost',
         CopyFails \/ WatcherStops \/ WatcherStarts
  PROVE  HandsOn
<1>1. UNCHANGED <<doc, handler, intake>>
  BY DEF CopyFails, WatcherStops, WatcherStarts
<1>2. Steady
  BY DEF CopyFails, WatcherStops, WatcherStarts, NextFile, Steady, TypeOK, ServerType
<1>3. /\ watcher'.phase \in {"idle", "down", "fail"}
      /\ Working' => Working /\ watcher'.doc = watcher.doc
  <2>1. CASE CopyFails
    <3>1. AtWork("fail") /\ watcher.phase = "copy"
      BY <2>1 DEF CopyFails
    <3> QED BY <3>1, AtWorkIs DEF TypeOK, Working
  <2>2. CASE WatcherStops
    <3>1. AtWork("down")
      BY <2>2 DEF WatcherStops
    <3> QED BY <3>1, AtWorkIs DEF TypeOK, Working
  <2>3. CASE WatcherStarts
    BY <2>3 DEF WatcherStarts, NoWork, Working
  <2> QED BY <2>1, <2>2, <2>3
<1>4. Revisions' \subseteq Revisions
  <2>1. doc' = NoDoc \/ Revision(doc') \in Revisions
    BY <1>1 DEF Revisions
  <2>2. Working' => Revision(watcher'.doc) \in Revisions
    BY <1>3 DEF Revisions
  <2> QED BY <1>1, <2>1, <2>2, WatcherRevisions
<1>5. FirstThings' /\ Progress'
  BY <1>1, <1>2, <1>3 DEF FirstThings, Progress, Steady
<1> QED BY <1>1, <1>2, <1>4, <1>5 DEF HandsOn

LEMMA CopyHandsOn ==
  ASSUME TypeOK, FirstThings, Progress, lost \subseteq lost', CopyMedia
  PROVE  HandsOn
<1>1. UNCHANGED <<doc, handler, intake>> /\ watcher.phase = "copy"
  BY DEF CopyMedia
<1>2. PICK m \in Media :
        \/ /\ Trusted(m) \/ local[m] = "absent"
           /\ local' = [local EXCEPT ![m] = IF Trusted(m) THEN local[m] ELSE "whole"]
           /\ watcher' = [watcher EXCEPT !.todo = watcher.todo \ {m}]
        \/ AtWork("fail") /\ UNCHANGED local
  BY DEF CopyMedia, NextFile, TypeOK, ServerType
<1>3. Steady
  BY <1>2 DEF Steady, TypeOK, ServerType
<1>4. CASE AtWork("fail") /\ UNCHANGED local
  <2>1. watcher'.phase = "fail" /\ watcher'.doc = watcher.doc
    BY <1>4, AtWorkIs DEF TypeOK
  <2>2. Revisions' \subseteq Revisions
    BY <1>1, <2>1 DEF Revisions, Revision, Working
  <2>3. FirstThings' /\ Progress'
    BY <1>1, <1>3, <2>1 DEF FirstThings, Progress, Steady, Working
  <2> QED BY <1>1, <1>3, <2>2, <2>3 DEF HandsOn
<1>5. CASE /\ Trusted(m) \/ local[m] = "absent"
           /\ local' = [local EXCEPT ![m] = IF Trusted(m) THEN local[m] ELSE "whole"]
           /\ watcher' = [watcher EXCEPT !.todo = watcher.todo \ {m}]
  <2>1. /\ watcher'.phase = "copy" /\ watcher'.doc = watcher.doc
        /\ watcher'.had = watcher.had /\ watcher'.todo = watcher.todo \ {m}
    BY <1>1, <1>5 DEF TypeOK, ServerType
  <2>2. Revisions' \subseteq Revisions
    BY <1>1, <2>1 DEF Revisions, Revision, Working
  <2>3. watcher.had \/ local'[m] = "whole"
    BY <1>5 DEF Trusted, TypeOK, ServerType
  <2>4. watcher.doc.media \subseteq Media
    BY DEF TypeOK, ServerType, Doc
  <2>5. watcher.had \/ \A x \in watcher'.doc.media \ watcher'.todo : local'[x] = "whole"
    BY <1>1, <1>3, <2>1, <2>3, <2>4 DEF Progress, Steady
  <2>6. Progress'
    BY <1>1, <1>3, <2>1, <2>5 DEF Progress, Steady
  <2>7. FirstThings'
    BY <1>1, <2>1 DEF FirstThings, Working
  <2> QED BY <1>1, <1>3, <2>2, <2>6, <2>7 DEF HandsOn
<1> QED BY <1>2, <1>4, <1>5

\* The import ends.  An intake file that is kept has what the document in hand lists: it is full,
\* or it is a root that the document does not extend, and so has the same media.
LEMMA WriteIntakeKeeps ==
  ASSUME TypeOK, FirstThings, Lineage, Progress, CopiesWhole, lost \subseteq lost', WriteIntake
  PROVE  FirstThings' /\ Lineage' /\ Progress' /\ CopiesWhole'
<1> DEFINE D == watcher.doc
<1>1. /\ watcher.phase = "copy" /\ watcher.todo = {} /\ AtWork("complete")
      /\ UNCHANGED <<doc, handler, local>>
      /\ IF intake = None \/ Expands THEN intake' = [media |-> D.media, noted |-> D.noted]
                                     ELSE intake' = intake
  BY DEF WriteIntake
<1>2. watcher'.phase = "complete" /\ watcher'.doc = D
  BY <1>1, AtWorkIs DEF TypeOK
<1>3. /\ D \in Doc /\ D.media \subseteq Media /\ D.noted \in BOOLEAN
      /\ Revision(D) \in Revisions /\ Revision(D).media = D.media /\ Revision(D).noted = D.noted
  BY <1>1 DEF TypeOK, ServerType, Doc, Revisions, Revision, Working
<1>4. Revisions' = Revisions
  BY <1>1, <1>2 DEF Revisions, Revision, Working
<1>5. \A M : Full(M) => Full(M)'
  BY DEF Full
<1>6. \A V \in Revisions : V.media \subseteq Media
  BY DEF TypeOK, ServerType, Doc, Revisions, Revision
<1> HIDE DEF D
<1>7. CASE intake = None \/ Expands
  <2>1. intake' = [media |-> D.media, noted |-> D.noted] /\ intake'.media = D.media /\ intake'.noted = D.noted
    BY <1>1, <1>7
  <2>2. intake' # None
    BY <1>3, <2>1, NoneAssumption
  <2>3. Lineage'
    <3>1. ASSUME NEW R \in Revisions, Root(R)
          PROVE  Root(R)'
      BY <1>3, <1>4, <2>1, <3>1 DEF Root
    <3>2. Root(Revision(D)) => Root(intake)'
      BY <1>3, <1>4, <2>1 DEF Root
    <3> QED BY <1>3, <1>4, <1>5, <2>1, <3>1, <3>2 DEF Lineage
  <2>4. CopiesWhole'
    <3>1. CASE intake # None
      BY <1>1, <1>4, <1>6, <3>1 DEF CopiesWhole
    <3>2. CASE intake = None
      <4>1. \A m \in D.media : local[m] = "whole"
        BY <1>1, <3>2 DEF Progress, D
      <4>2. ASSUME NEW V \in Revisions, ~V.repaired
            PROVE  V.media \ lost \subseteq D.media
        BY <1>3, <1>6, <4>2 DEF Lineage, Full, Root
      <4> QED BY <1>1, <1>4, <4>1, <4>2 DEF CopiesWhole
    <3> QED BY <3>1, <3>2
  <2>5. FirstThings' /\ Progress'
    <3>1. doc # NoDoc
      BY <1>1 DEF FirstThings, Working
    <3>2. doc.state = "complete" => doc.media \ lost \subseteq intake'.media
      <4> SUFFICES ASSUME doc.state = "complete" PROVE doc.media \ lost \subseteq intake'.media
        OBVIOUS
      <4>1. intake # None /\ doc.media \ lost \subseteq intake.media /\ Expands
        BY <1>7 DEF Progress
      <4> QED BY <2>1, <4>1 DEF Expands, D
    <3> QED BY <1>1, <1>2, <2>1, <2>2, <3>1, <3>2 DEF FirstThings, Progress
  <2> QED BY <2>3, <2>4, <2>5
<1>8. CASE intake # None /\ ~Expands
  <2>1. intake' = intake
    BY <1>1, <1>8
  <2>2. D.media \ lost \subseteq intake.media
    <3>1. CASE Full(intake.media)
      BY <1>3, <3>1 DEF Full
    <3>2. CASE Root(intake)
      <4>1. ~intake.noted /\ ~D.noted /\ intake.media \subseteq D.media
        BY <1>3, <1>8, <3>2 DEF Root
      <4>2. intake.noted \in BOOLEAN
        BY <1>8 DEF TypeOK, ServerType, Intake
      <4>3. intake.media = D.media
        BY <1>3, <1>8, <4>1, <4>2 DEF Expands, D
      <4> QED BY <4>3
    <3> QED BY <1>8, <3>1, <3>2 DEF Lineage
  <2>3. Lineage' /\ CopiesWhole'
    <3>1. \A R : Root(R) => Root(R)'
      BY <1>4, <2>1 DEF Root
    <3> QED BY <1>1, <1>4, <1>5, <1>6, <2>1, <3>1 DEF Lineage, CopiesWhole
  <2>4. doc # NoDoc
    BY <1>1 DEF FirstThings, Working
  <2> QED BY <1>1, <1>2, <1>8, <2>1, <2>2, <2>3, <2>4 DEF FirstThings, Progress
<1> QED BY <1>7, <1>8

-----------------------------------------------------------------------------
(***************************************************************************)
(* The invariant holds, and what it gives.                                 *)
(***************************************************************************)
ImportParts == RequestsFull /\ FirstThings /\ Lineage /\ Progress /\ CopiesWhole

LEMMA WatcherKeeps ==
  ASSUME TypeOK, ImportParts, lost \subseteq lost', WatcherAction
  PROVE  FirstThings' /\ Lineage' /\ Progress' /\ CopiesWhole'
<1>1. FirstThings /\ Lineage /\ Progress /\ CopiesWhole
  BY DEF ImportParts
<1>2. CASE WriteIntake
  BY <1>1, <1>2, WriteIntakeKeeps
<1>3. CASE HandsOn
  BY <1>1, <1>3, HandedOnKeeps DEF HandsOn
<1>4. CASE TakeChange \/ Claim \/ MarkProcessing \/ Finish \/ WatcherCouchFails
  <2>1. Steady
    BY <1>4 DEF TakeChange, Claim, MarkProcessing, Finish, WatcherCouchFails, Steady
  <2> QED BY <1>1, <1>3, <1>4, <2>1, TakeChangeHandsOn, StateSteps
<1>5. CASE CopyMedia \/ CopyFails \/ WatcherStops \/ WatcherStarts
  BY <1>1, <1>3, <1>5, CopyHandsOn, StopSteps
<1> QED BY <1>2, <1>4, <1>5 DEF WatcherAction

LEMMA HandlerKeeps ==
  ASSUME TypeOK, Backed, ImportParts, lost \subseteq lost', NEW c \in Conns,
         HandlerAction(c) \/ \E M \in SUBSET Media : Receive(c, M)
  PROVE  FirstThings' /\ Lineage' /\ Progress' /\ CopiesWhole'
<1>1. RequestsFull /\ FirstThings /\ Lineage /\ Progress /\ CopiesWhole
  BY DEF ImportParts
<1>2. CASE Lookup(c)
  <2>1. FirstThings' /\ UNCHANGED <<doc, watcher, local, intake>>
    BY <1>1, <1>2, LookupRevisions
  <2>2. Steady
    BY <2>1 DEF Steady
  <2>3. Progress'
    BY <1>1, <2>1 DEF Progress
  <2>4. Lineage' /\ CopiesWhole'
    BY <1>1, <1>2, <2>1, <2>2, LookupRevisions, HandedOnKeeps, PreparedKeeps
  <2> QED BY <2>1, <2>3, <2>4
<1>3. CASE ~Lookup(c)
  <2>1. /\ Revisions' \subseteq Revisions /\ FirstThings'
        /\ UNCHANGED <<watcher, local, intake>>
        /\ UNCHANGED doc \/ doc'.state = "pending"
    BY <1>1, <1>3, HandlerRevisions DEF TypeOK
  <2>2. Steady
    BY <2>1 DEF Steady
  <2>3. Progress'
    BY <1>1, <2>1 DEF Progress
  <2> QED BY <1>1, <2>1, <2>2, <2>3, HandedOnKeeps
<1> QED BY <1>2, <1>3

LEMMA ImportStart ==
  ASSUME Init
  PROVE  ImportInv
<1>1. /\ drain.phase = "idle" /\ live = {} /\ lost = {}
      /\ (\A c \in Conns : handler[c].phase = "none")
      /\ watcher.phase = "idle"
  <2>1. drain.phase = "idle" /\ live = {} /\ lost = {}
    BY DEF Init, PhoneInit, NoDrain
  <2>2. (\A c \in Conns : handler[c].phase = "none") /\ watcher.phase = "idle"
    BY DEF Init, ServerInit, NoHandler, NoWork
  <2> QED BY <2>1, <2>2
<1>2. RequestsFull
  BY <1>1 DEF RequestsFull, Serving
<1>3. Revisions = IF doc = NoDoc THEN {} ELSE {Revision(doc)}
  BY <1>1 DEF Revisions, Working, Putting
<1>4. CASE doc = NoDoc /\ intake = None
  <2>1. doc.state # "complete"
    BY <1>4 DEF NoDoc
  <2> QED BY <1>1, <1>2, <1>3, <1>4, <2>1, InvariantAtStart
          DEF ImportInv, FirstThings, Lineage, Progress, CopiesWhole, Working, Putting
<1>5. ASSUME NEW P \in Truncated, NEW s \in {"pending", "complete"},
             doc = [NoDoc EXCEPT !.state = s, !.media = P],
             intake = IF s = "complete" THEN [media |-> P, noted |-> FALSE] ELSE None
      PROVE  ImportInv
  <2>1. /\ doc = [state |-> s, media |-> P, noted |-> FALSE, repaired |-> FALSE]
        /\ P \subseteq Media
    BY <1>5, TruncatedAssumption DEF NoDoc
  <2>2. /\ doc.state = s /\ doc.media = P /\ doc.noted = FALSE /\ doc.repaired = FALSE
        /\ doc # NoDoc
    BY <1>5, <2>1 DEF NoDoc
  <2>3. intake # None => /\ s = "complete" /\ intake.media = P /\ intake.noted = FALSE
    BY <1>5
  <2>4. s = "complete" => intake # None
    <3>1. [media |-> P, noted |-> FALSE] \in [media : SUBSET Media, noted : BOOLEAN]
      BY <2>1
    <3> QED BY <1>5, <3>1, NoneAssumption
  <2>5. Revisions = {Revision(doc)} /\ Revision(doc).media = P /\ Revision(doc).noted = FALSE
    BY <1>3, <2>2 DEF Revision
  <2>6. Lineage
    BY <2>3, <2>5 DEF Lineage, Root
  <2>7. CopiesWhole
    <3>1. intake # None => \A m \in P : local[m] = "whole"
      BY <2>1, <2>2 DEF Init, ServerInit
    <3> QED BY <2>5, <3>1 DEF CopiesWhole
  <2>8. FirstThings /\ Progress
    BY <1>1, <2>2, <2>3, <2>4 DEF FirstThings, Progress, Putting
  <2> QED BY <1>2, <2>6, <2>7, <2>8, InvariantAtStart DEF ImportInv
<1> QED BY <1>4, <1>5 DEF Init, ServerInit

LEMMA ImportKept ==
  ASSUME ImportInv, [Next]_vars
  PROVE  ImportInv'
<1>a. /\ TypeOK /\ Backed /\ ImportParts /\ IInv
      /\ FirstThings /\ Lineage /\ Progress /\ CopiesWhole
  BY DEF ImportInv, ImportParts, IInv
<1>b. IInv'
  BY InvariantKept DEF ImportInv
<1>1. CASE UNCHANGED vars
  <2>1. UNCHANGED <<lost, drain, live, body, doc, handler, watcher, local, intake>>
    BY <1>1 DEF vars, clientVars, phoneVars, serverVars
  <2>2. RequestsFull' /\ FirstThings' /\ Progress'
    BY <2>1, <1>a DEF ImportParts, RequestsFull, OnDoc, FirstThings, Working, Progress
  <2>3. Revisions' = Revisions
    BY <2>1 DEF Revisions, Revision, Working
  <2>4. Lineage' /\ CopiesWhole'
    BY <1>a, <2>1, <2>3, HandedOnKeeps DEF Steady
  <2> QED BY <1>b, <2>2, <2>4 DEF ImportInv
<1>2. CASE Next
  <2>1. lost \subseteq lost' /\ RequestsFull'
    BY <1>2, <1>a, LossesStay, RequestsFullKept DEF ImportParts
  <2>2. CASE UNCHANGED serverVars
    <3>1. UNCHANGED <<doc, handler, watcher, local, intake>>
      BY <2>2 DEF serverVars
    <3>2. Revisions' = Revisions
      BY <3>1 DEF Revisions, Revision, Working
    <3>3. FirstThings' /\ Progress' /\ Lineage' /\ CopiesWhole'
      <4>1. FirstThings'
        BY <1>a, <3>1 DEF FirstThings, Working
      <4>2. Progress'
        BY <1>a, <2>1, <3>1 DEF Progress
      <4> QED BY <1>a, <2>1, <3>1, <3>2, <4>1, <4>2, HandedOnKeeps DEF Steady
    <3> QED BY <1>b, <2>1, <3>3 DEF ImportInv
  <2>3. CASE ServerStops
    <3>1. UNCHANGED <<doc, watcher, local, intake>> /\ \A c \in Conns : handler'[c].phase = "none"
      BY <2>3 DEF ServerStops, NoHandler
    <3>2. Revisions' \subseteq Revisions
      BY <3>1 DEF Revisions, Revision, Working, Putting
    <3>3. FirstThings' /\ Progress' /\ Lineage' /\ CopiesWhole'
      <4>1. FirstThings'
        BY <1>a, <3>1 DEF FirstThings, Working, Putting
      <4>2. Progress'
        BY <1>a, <2>1, <3>1 DEF Progress
      <4> QED BY <1>a, <2>1, <3>1, <3>2, <4>1, <4>2, HandedOnKeeps DEF Steady
    <3> QED BY <1>b, <2>1, <3>3 DEF ImportInv
  <2>4. CASE WatcherAction
    BY <1>a, <1>b, <2>1, <2>4, WatcherKeeps DEF ImportInv
  <2>5. ASSUME NEW c \in Conns, HandlerAction(c) \/ \E M \in SUBSET Media : Receive(c, M)
        PROVE  ImportInv'
    BY <1>a, <1>b, <2>1, <2>5, HandlerKeeps DEF ImportInv
  <2> QED BY <1>2, <1>a, <2>2, <2>3, <2>4, <2>5, ServerMoves DEF ServerMove
<1> QED BY <1>1, <1>2

\* The watcher works on a revision of the document that is, or was, the stored one, and what is
\* not full among revisions and intake file is the root of all the others.
THEOREM ImportInvariant == Spec => []ImportInv
  BY ImportStart, ImportKept, PTL DEF Spec

\* A document marked complete was imported: what it lists and the phone did not lose is in the
\* intake file, and whole on the processing host unless the document was repaired, for any media,
\* overlapping submissions, interrupted copies and restarts.
THEOREM Imported == Spec => []CompleteIsImported
<1>1. ImportInv => CompleteIsImported
  <2> SUFFICES ASSUME ImportInv, doc.state = "complete", NEW m \in doc.media \ lost
               PROVE  m \in intake.media /\ (doc.repaired \/ local[m] = "whole")
    BY DEF CompleteIsImported
  <2>1. intake # None /\ m \in intake.media
    BY DEF ImportInv, Progress
  <2>2. /\ Revision(doc) \in Revisions
        /\ Revision(doc).media = doc.media /\ Revision(doc).repaired = doc.repaired
    BY DEF NoDoc, Revisions, Revision
  <2> QED BY <2>1, <2>2 DEF ImportInv, CopiesWhole
<1> QED BY <1>1, ImportInvariant, PTL
=============================================================================
