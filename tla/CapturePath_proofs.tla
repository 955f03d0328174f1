-------------------------- MODULE CapturePath_proofs --------------------------
(***************************************************************************)
(* Proofs about CapturePath, for any media, connections, failures and      *)
(* partial documents: type correctness, and that the evidence is kept and  *)
(* what a client reports stored is stored.                                 *)
(***************************************************************************)
EXTENDS CapturePath, TLAPS

-----------------------------------------------------------------------------
(***************************************************************************)
(* The steps, by whose state they change.                                  *)
(***************************************************************************)
PhoneAction ==
  \/ DrainList \/ DrainSkip \/ DrainBegin \/ BeginUnsaved \/ PrepareFails \/ Confirm
  \/ ConfirmUnsaved \/ Release \/ TokenRejected \/ Unconfirmed \/ DrainEnd \/ EndUnsaved
  \/ RecSnapshot \/ RecApply \/ RecUnsaved \/ RecRelease
  \/ Retry \/ UploadSurviving \/ DeleteCapture \/ TokenRefused \/ Reconnect \/ Relaunch
  \/ \E m \in Media : LoseMedia(m)

WebAction == \/ RequeueList \/ TokenCleared \/ PasteToken
             \/ \E d \in Agents : AgentStep(d)
             \/ \E d \in Drains : AgentDies(d)

HandlerAction(c) == Lookup(c) \/ WriteMedia(c) \/ GetRev(c) \/ PutDoc(c) \/ Reply(c)
                    \/ CouchFails(c) \/ Unauthorized(c)

WatcherAction ==
  \/ TakeChange \/ Claim \/ MarkProcessing \/ CopyMedia \/ CopyFails \/ WriteIntake \/ Finish
  \/ WatcherCouchFails \/ WatcherStops \/ WatcherStarts

ServerAction == WatcherAction \/ \E c \in Conns : HandlerAction(c)

\* A request handed over: what the app sends, or the page's whole row.
Handover(c) == (c \in live /\ Receive(c, body[c])) \/ (c \in Fetching /\ Receive(c, Media))

\* The client learns the server's answer, or that there is none.
Hears(c) == \/ Reply(c) /\ Learns(c, handler[c].answer)
            \/ (Reply(c) \/ UNCHANGED serverVars) /\ (Learns(c, Again) \/ Learns(c, Refused))

\* Every step is one of these.
LEMMA Steps ==
  ASSUME Next
  PROVE  \/ PhoneAction /\ UNCHANGED <<webVars, serverVars>>
         \/ WebAction /\ UNCHANGED <<phoneVars, serverVars>>
         \/ ServerAction /\ UNCHANGED clientVars
         \/ ServerStops /\ FetchesBreak /\ UNCHANGED phoneVars
         \/ \E c \in Conns : Free(c) /\ Send(c) /\ UNCHANGED <<webVars, serverVars>>
         \/ \E c \in Conns, d \in Agents :
              Free(c) /\ Upload(d, c) /\ UNCHANGED <<phoneVars, serverVars>>
         \/ \E c \in Conns : Handover(c) /\ UNCHANGED clientVars
         \/ \E c \in Conns : Hears(c)
<1>1. CASE DrainStep \/ RecStep \/ UserStep \/ Phone(Reconnect)
  BY <1>1 DEF DrainStep, RecStep, UserStep, Phone, PhoneAction
<1>2. CASE PhoneFault
  BY <1>2 DEF PhoneFault, PhoneAction
<1>3. CASE PageStep \/ WorkerStep \/ WebUser \/ WebFault \/ Web(PasteToken)
  BY <1>3 DEF PageStep, WorkerStep, WebUser, WebFault, Web, WebAction, Agents, Drains
<1>4. CASE WatcherStep
  BY <1>4 DEF WatcherStep, Server, ServerAction, WatcherAction
<1>5. CASE ServerFault
  BY <1>5 DEF ServerFault, ServerAction, WatcherAction, HandlerAction, clientVars
<1>6. ASSUME NEW c \in Conns,
             Submit(c) \/ WorkerSubmits(c) \/ Transfer(c) \/ Disconnect(c) \/ LoseAnswer(c)
      PROVE  \/ ServerAction /\ UNCHANGED clientVars
             \/ Free(c) /\ Send(c) /\ UNCHANGED <<webVars, serverVars>>
             \/ \E d \in Agents : Free(c) /\ Upload(d, c) /\ UNCHANGED <<phoneVars, serverVars>>
             \/ Handover(c) /\ UNCHANGED clientVars
             \/ Hears(c)
  <2>1. CASE Submit(c) \/ WorkerSubmits(c)
    BY <2>1 DEF Submit, WorkerSubmits, Chosen, Phone, Web, Agents, Drains
  <2>2. CASE Arrive(c)
    BY <2>2 DEF Arrive, Server, Handover
  <2>3. CASE Deliver(c) \/ LoseAnswer(c)
    BY <2>3 DEF Deliver, LoseAnswer, Hears
  <2>4. CASE Unheard(c) \/ HandlerStep(c) \/ TurnAway(c)
    BY <2>4 DEF Unheard, HandlerStep, TurnAway, Server, ServerAction, HandlerAction
  <2>5. CASE Disconnect(c)
    BY <2>5 DEF Disconnect, Hears, Learns
  <2> QED BY <1>6, <2>1, <2>2, <2>3, <2>4, <2>5 DEF Transfer
<1> QED BY <1>1, <1>2, <1>3, <1>4, <1>5, <1>6 DEF Next, NewToken

-----------------------------------------------------------------------------
(***************************************************************************)
(* Type correctness.                                                       *)
(***************************************************************************)
LEMMA AnswerTypes == Again \in Answers /\ Refused \in Answers /\ AuthLost \in Answers
                     /\ \A M \in SUBSET Media : Stored(M) \in Answers
  BY DEF Again, Refused, AuthLost, Stored, Answers

LEMMA PhoneTypes ==
  ASSUME PhoneType, PhoneAction
  PROVE  PhoneType'
<1> DEFINE DrainType == [phase : {"idle", "listed", "preparing", "waiting", "answered", "releasing",
                                  "closing", "stopping"},
                         media : SUBSET Media, conn : Conns \cup {None}, answer : Answers]
           RecType == [phase : {"idle", "seen", "releasing"}, alive : BOOLEAN,
                       receipt : SUBSET SUBSET Media, media : SUBSET Media]
<1>a. /\ row \in Row /\ saved \in Row /\ drain \in DrainType /\ rec \in RecType
      /\ row.media \in SUBSET Media
  BY DEF PhoneType, Row
<1>b. /\ Status("pending") \in Row /\ Status("uploading") \in Row
      /\ Status("failed") \in Row /\ Status("done") \in Row
  BY <1>a DEF Status, Row
<1>c. /\ NoDrain \in DrainType /\ NoRec \in RecType
      /\ \A p \in {"closing", "stopping", "listed"} : [NoDrain EXCEPT !.phase = p] \in DrainType
  BY AnswerTypes DEF NoDrain, NoRec
<1>e. Again \in Answers /\ row.media \in SUBSET Media
  BY <1>a, AnswerTypes
<1> HIDE DEF DrainType, RecType
<1>0. SUFFICES /\ row' \in Row /\ saved' \in Row /\ drain' \in DrainType /\ rec' \in RecType
               /\ evidence' \subseteq Media /\ lost' \subseteq Media
               /\ live' \subseteq Conns /\ body' \in [Conns -> SUBSET Media]
               /\ receipts' \subseteq SUBSET Media /\ connected' \in BOOLEAN
  BY DEF PhoneType, DrainType, RecType
<1>d. /\ evidence \subseteq Media /\ lost \subseteq Media
      /\ live \subseteq Conns /\ body \in [Conns -> SUBSET Media]
      /\ receipts \subseteq SUBSET Media /\ connected \in BOOLEAN
  BY DEF PhoneType
<1> USE DEF Persist
<1>1. CASE DrainBegin \/ BeginUnsaved
  <2>1. \/ drain' = [phase |-> "preparing", media |-> row.media, conn |-> None, answer |-> Again]
        \/ \E p \in {"closing", "stopping"} :
             drain' = [phase |-> p, media |-> {}, conn |-> None, answer |-> Again]
    BY <1>1 DEF DrainBegin, BeginUnsaved, NoDrain
  <2>2. drain' \in DrainType
    BY <2>1, <1>e DEF DrainType
  <2> QED BY <1>1, <1>a, <1>b, <1>d, <2>2 DEF DrainBegin, BeginUnsaved
<1>2. CASE Confirm \/ ConfirmUnsaved
  <2>1. /\ (row' = Status("done") /\ saved' = Status("done")) \/ UNCHANGED <<row, saved>>
        /\ UNCHANGED <<evidence, lost, live, body, receipts, connected, rec>>
    BY <1>2 DEF Confirm, ConfirmUnsaved
  <2>2. \/ drain' = [phase |-> "releasing", media |-> row.media, conn |-> None, answer |-> Again]
        \/ drain' = [phase |-> "stopping", media |-> {}, conn |-> None, answer |-> Again]
    BY <1>2 DEF Confirm, ConfirmUnsaved, NoDrain
  <2>3. drain' \in DrainType
    BY <2>2, <1>e DEF DrainType
  <2> QED BY <1>a, <1>b, <1>d, <2>1, <2>3
<1>3. CASE Release \/ PrepareFails
  BY <1>3, <1>a, <1>b, <1>c, <1>d DEF Release, PrepareFails
<1>4. CASE Unconfirmed \/ TokenRejected
  BY <1>4, <1>a, <1>b, <1>c, <1>d DEF Unconfirmed, TokenRejected
<1>11. CASE DrainList \/ DrainSkip \/ DrainEnd \/ EndUnsaved
  BY <1>11, <1>a, <1>c, <1>d DEF DrainList, DrainSkip, DrainEnd, EndUnsaved, EndRound
<1>12. CASE RecUnsaved \/ TokenRefused \/ Reconnect
  BY <1>12, <1>a, <1>c, <1>d DEF RecUnsaved, TokenRefused, Reconnect
<1>5. CASE RecSnapshot
  <2>1. PICK R \in IF receipts = {} THEN {{}} ELSE {{r} : r \in receipts} :
          rec' = [NoRec EXCEPT !.phase = "seen", !.alive = live # {} \/ Reserved, !.receipt = R]
    BY <1>5 DEF RecSnapshot
  <2>2. R \in SUBSET SUBSET Media
    BY <1>d, <2>1
  <2>3. (live # {} \/ Reserved) \in BOOLEAN
    BY DEF Reserved
  <2>4. rec' = [phase |-> "seen", alive |-> (live # {} \/ Reserved), receipt |-> R, media |-> {}]
    BY <2>1 DEF NoRec
  <2>5. rec' \in RecType
    BY <2>2, <2>3, <2>4 DEF RecType
  <2> QED BY <1>5, <1>a, <1>d, <2>5 DEF RecSnapshot
<1>6. CASE RecApply
  <2>1. \/ row' = Status("done") /\ saved' = Status("done")
        \/ row' = Status("failed") /\ saved' = Status("failed")
        \/ row' = Status("pending") /\ saved' = Status("pending")
        \/ UNCHANGED <<row, saved>>
    BY <1>6 DEF RecApply
  <2>2. \E p \in {"idle", "releasing"}, M \in SUBSET Media :
          rec' = [phase |-> p, alive |-> FALSE, receipt |-> {}, media |-> M]
    <3>1. CASE rec' = NoRec
      BY <3>1 DEF NoRec
    <3>2. CASE rec' = [NoRec EXCEPT !.phase = "releasing"]
      <4>1. rec' = [phase |-> "releasing", alive |-> FALSE, receipt |-> {}, media |-> {}]
        BY <3>2 DEF NoRec
      <4> QED BY <4>1
    <3>3. CASE rec' = [NoRec EXCEPT !.phase = "releasing", !.media = row.media]
      <4>1. rec' = [phase |-> "releasing", alive |-> FALSE, receipt |-> {}, media |-> row.media]
        BY <3>3 DEF NoRec
      <4> QED BY <4>1, <1>e
    <3> QED BY <1>6, <3>1, <3>2, <3>3 DEF RecApply
  <2>3. UNCHANGED <<evidence, lost, live, body, receipts, connected, drain>>
    BY <1>6 DEF RecApply
  <2>4. rec' \in RecType
    BY <2>2 DEF RecType
  <2> QED BY <1>a, <1>b, <1>d, <2>1, <2>3, <2>4
<1>7. CASE RecRelease
  BY <1>7, <1>a, <1>c, <1>d DEF RecRelease
<1>8. CASE Retry \/ UploadSurviving \/ DeleteCapture
  <2>1. /\ [status |-> "pending", media |-> row.media \cap evidence] \in Row
        /\ [status |-> "gone", media |-> {}] \in Row
    BY <1>a DEF Row
  <2> QED BY <1>8, <1>a, <1>b, <1>d, <2>1 DEF Retry, UploadSurviving, DeleteCapture
<1>9. CASE Relaunch
  BY <1>9, <1>a, <1>c, <1>d DEF Relaunch
<1>10. CASE \E m \in Media : LoseMedia(m)
  BY <1>10, <1>a, <1>d DEF LoseMedia
<1> QED BY <1>1, <1>2, <1>3, <1>4, <1>5, <1>6, <1>7, <1>8, <1>9, <1>10, <1>11, <1>12 DEF PhoneAction

LEMMA SendTypes ==
  ASSUME PhoneType, NEW c \in Conns, Send(c)
  PROVE  PhoneType'
  BY DEF PhoneType, Send

LEMMA TaskTypes ==
  ASSUME PhoneType, NEW c \in Conns, NEW a \in Answers, TaskEnds(c, a)
  PROVE  PhoneType'
  BY DEF PhoneType, TaskEnds, Answers

LEMMA WebTypes ==
  ASSUME WebType,
         \/ WebAction
         \/ \E c \in Conns, d \in Agents : Upload(d, c)
         \/ \E c \in Conns : \E a \in Answers : Record(c, a)
         \/ FetchesBreak
  PROVE  WebType'
<1> USE DEF WebType, Become, Patch, NoAgent
<1>1. CASE RequeueList
  BY <1>1 DEF RequeueList, Agents
<1>2. ASSUME NEW d \in Agents, AgentStep(d)
      PROVE  WebType'
  BY <1>2 DEF AgentStep, List, PatchListed, UploadRejected, DeleteDone
<1>6. CASE TokenCleared \/ PasteToken
  BY <1>6 DEF TokenCleared, PasteToken
<1>7. ASSUME NEW d \in Drains, AgentDies(d)
      PROVE  WebType'
  <2>1. agent' = [x \in Agents |-> IF x \in Process(d) THEN NoAgent ELSE agent[x]]
    BY <1>7 DEF AgentDies
  <2>2. UNCHANGED <<item, token>>
    BY <1>7 DEF AgentDies
  <2> QED BY <2>1, <2>2
<1>3. ASSUME NEW d \in Agents, NEW c \in Conns, Upload(d, c)
      PROVE  WebType'
  BY <1>3 DEF Upload
<1>4. ASSUME NEW c \in Conns, NEW a \in Answers, Record(c, a)
      PROVE  WebType'
  <2>1. Outcome(a) \in {"done", "failed", "pending"}
    BY DEF Outcome, Answers
  <2> QED BY <1>4, <2>1 DEF Record
<1>5. CASE FetchesBreak
  BY <1>5 DEF FetchesBreak
<1> QED BY <1>1, <1>2, <1>3, <1>4, <1>5, <1>6, <1>7 DEF WebAction

LEMMA HandlerTypes ==
  ASSUME ServerType, NEW c \in Conns,
         HandlerAction(c) \/ \E M \in SUBSET Media : Receive(c, M)
  PROVE  ServerType'
<1> DEFINE OneHandler == [phase : {"none", "lookup", "write", "rev", "put", "reply"},
                          media : SUBSET Media, put : Doc, todo : SUBSET Media,
                          attempt : {1, 2}, answer : Answers]
<1>a. handler \in [Conns -> OneHandler] /\ handler[c] \in OneHandler
  BY DEF ServerType
<1>b. NoDoc \in Doc
  BY DEF NoDoc, Doc, DocStates
<1>c. \A a \in Answers : [NoHandler EXCEPT !.phase = "reply", !.answer = a] \in OneHandler
  BY <1>b DEF NoHandler
<1>d. NoHandler \in OneHandler
  BY <1>b, AnswerTypes DEF NoHandler
<1> HIDE DEF OneHandler
<1>e. /\ files \subseteq Media /\ doc \in Doc /\ fresh \subseteq Conns \cup {Watcher}
      /\ feed \in BOOLEAN /\ doc.media \in SUBSET Media
  BY DEF ServerType, Doc
<1>f. /\ handler[c].media \in SUBSET Media /\ handler[c].todo \in SUBSET Media
      /\ handler[c].put \in Doc
  BY <1>a DEF OneHandler
<1>g. \A h \in OneHandler : [handler EXCEPT ![c] = h] \in [Conns -> OneHandler]
  BY <1>a
<1>0. SUFFICES /\ files' \subseteq Media /\ doc' \in Doc /\ fresh' \subseteq Conns \cup {Watcher}
               /\ handler' \in [Conns -> OneHandler] /\ feed' \in BOOLEAN
               /\ UNCHANGED <<watcher, local, intake>>
  BY DEF ServerType, OneHandler
<1>1. CASE Lookup(c)
  <2>1. \A M \in SUBSET Media : NewDoc(M) \in Doc /\ Repair(doc, M) \in Doc
    BY <1>e DEF NewDoc, Repair, Doc, DocStates
  <2>2. handler' \in [Conns -> OneHandler]
    <3>1. ASSUME NEW d \in Doc, NEW T \in SUBSET Media, Prepared(c, d, T)
          PROVE  handler' \in [Conns -> OneHandler]
      BY <1>a, <3>1 DEF Prepared, OneHandler
    <3>2. ASSUME NEW a \in Answers, Answer(c, a)
          PROVE  handler' \in [Conns -> OneHandler]
      BY <1>c, <1>g, <3>2 DEF Answer
    <3> QED BY <1>1, <1>e, <1>f, <2>1, <3>1, <3>2, AnswerTypes DEF Lookup
  <2> QED BY <1>1, <1>e, <2>2 DEF Lookup
<1>2. CASE WriteMedia(c) \/ GetRev(c)
  <2>1. handler' \in [Conns -> OneHandler]
    BY <1>2, <1>a DEF WriteMedia, GetRev, OneHandler
  <2> QED BY <1>2, <1>e, <1>f, <2>1 DEF WriteMedia, GetRev
<1>3. CASE PutDoc(c)
  <2>1. handler' \in [Conns -> OneHandler]
    <3>1. CASE handler' = [handler EXCEPT ![c].phase = "rev", ![c].attempt = 2]
      BY <1>a, <3>1 DEF OneHandler
    <3>2. ASSUME NEW a \in Answers, Answer(c, a)
          PROVE  handler' \in [Conns -> OneHandler]
      BY <1>c, <1>g, <3>2 DEF Answer
    <3> QED BY <1>3, <1>f, <3>1, <3>2, AnswerTypes DEF PutDoc, Conflict
  <2> QED BY <1>3, <1>e, <1>f, <2>1 DEF PutDoc, Write
<1>4. CASE CouchFails(c) \/ Unauthorized(c)
  <2>1. handler' \in [Conns -> OneHandler]
    <3>1. handler' \in {[handler EXCEPT ![c] = h] : h \in OneHandler}
      BY <1>4, <1>c, AnswerTypes DEF CouchFails, Unauthorized, Answer
    <3> QED BY <1>g, <3>1
  <2> QED BY <1>4, <1>e, <1>f, <2>1 DEF CouchFails, Unauthorized, Write
<1>5. CASE Reply(c)
  BY <1>5, <1>d, <1>e, <1>g DEF Reply
<1>6. CASE \E M \in SUBSET Media : Receive(c, M)
  <2>1. handler' \in [Conns -> OneHandler]
    <3>1. PICK M \in SUBSET Media : handler' = [handler EXCEPT ![c].phase = "lookup", ![c].media = M]
      BY <1>6 DEF Receive
    <3> QED BY <1>a, <3>1 DEF OneHandler
  <2> QED BY <1>6, <1>e, <2>1 DEF Receive
<1> QED BY <1>1, <1>2, <1>3, <1>4, <1>5, <1>6 DEF HandlerAction

LEMMA StopTypes == ServerType /\ ServerStops => ServerType'
<1> SUFFICES ASSUME ServerType, ServerStops PROVE ServerType'
  OBVIOUS
<1>1. NoDoc \in Doc
  BY DEF NoDoc, Doc, DocStates
<1>2. handler' = [c \in Conns |-> [phase |-> "none", media |-> {}, put |-> NoDoc, todo |-> {},
                                  attempt |-> 1, answer |-> Again]]
  BY DEF ServerStops, NoHandler
<1>3. handler' \in [Conns -> [phase : {"none", "lookup", "write", "rev", "put", "reply"},
                              media : SUBSET Media, put : Doc, todo : SUBSET Media,
                              attempt : {1, 2}, answer : Answers]]
  BY <1>1, <1>2, AnswerTypes
<1> QED BY <1>3 DEF ServerType, ServerStops

LEMMA WatcherTypes ==
  ASSUME ServerType, WatcherAction
  PROVE  ServerType'
<1> DEFINE Work == [phase : {"down", "idle", "claim", "mark", "copy", "complete", "fail"},
                    doc : Doc, todo : SUBSET Media, had : BOOLEAN]
<1>a. watcher \in Work /\ NoWork \in Work
  BY DEF ServerType, NoWork, NoDoc, Doc, DocStates
<1>b. /\ doc \in Doc /\ fresh \subseteq Conns \cup {Watcher} /\ feed \in BOOLEAN
      /\ local \in [Media -> {"absent", "part", "whole"}] /\ intake \in Intake \cup {None}
      /\ doc.media \in SUBSET Media /\ watcher.doc \in Doc /\ watcher.todo \in SUBSET Media
  BY DEF ServerType, Doc
<1>c. ASSUME NEW p \in {"down", "idle", "claim", "mark", "copy", "complete", "fail"}, AtWork(p)
      PROVE  watcher' \in Work
  BY <1>a, <1>c DEF AtWork
<1>d. \A s \in DocStates : [watcher.doc EXCEPT !.state = s] \in Doc
  BY <1>b DEF Doc
<1>e. watcher.phase \in DOMAIN Target => Target[watcher.phase] \in DocStates
  BY DEF Target, DocStates
<1>0. SUFFICES /\ doc' \in Doc /\ fresh' \subseteq Conns \cup {Watcher} /\ feed' \in BOOLEAN
               /\ watcher' \in Work /\ local' \in [Media -> {"absent", "part", "whole"}]
               /\ intake' \in Intake \cup {None} /\ UNCHANGED <<files, handler>>
  BY DEF ServerType
<1> HIDE DEF Work
<1>1. CASE TakeChange
  <2>1. watcher' \in Work
    BY <1>1, <1>a, <1>b DEF TakeChange, NoWork, Work
  <2> QED BY <1>1, <1>b, <2>1 DEF TakeChange
<1>2. CASE Claim \/ Finish
  BY <1>2, <1>b, <1>c, <1>d, <1>e DEF Claim, Finish, Advance, Write, Target
<1>3. CASE MarkProcessing
  <2>1. watcher' \in Work
    <3>1. CASE Watcher \in fresh
      <4>1. PICK b \in BOOLEAN :
              watcher' = [watcher EXCEPT !.phase = "copy", !.todo = watcher.doc.media, !.had = b]
        BY <1>3, <3>1 DEF MarkProcessing
      <4>2. watcher.doc.media \in SUBSET Media
        BY <1>b DEF Doc
      <4> QED BY <1>a, <4>1, <4>2 DEF Work
    <3>2. CASE Watcher \notin fresh
      BY <1>3, <1>c, <3>2 DEF MarkProcessing
    <3> QED BY <3>1, <3>2
  <2> QED BY <1>3, <1>b, <1>d, <2>1 DEF MarkProcessing, Write, DocStates
<1>4. CASE CopyMedia
  <2>1. PICK m \in Media :
          \/ /\ local' = [local EXCEPT ![m] = IF Trusted(m) THEN local[m] ELSE "whole"]
             /\ watcher' = [watcher EXCEPT !.todo = watcher.todo \ {m}]
          \/ AtWork("fail") /\ UNCHANGED local
    BY <1>4, <1>b DEF CopyMedia, NextFile
  <2>2. local' \in [Media -> {"absent", "part", "whole"}]
    BY <1>b, <2>1
  <2>3. watcher' \in Work
    <3>1. CASE watcher' = [watcher EXCEPT !.todo = watcher.todo \ {m}]
      BY <1>a, <1>b, <3>1 DEF Work
    <3>2. CASE AtWork("fail")
      BY <1>c, <3>2
    <3> QED BY <2>1, <3>1, <3>2
  <2> QED BY <1>4, <1>b, <2>2, <2>3 DEF CopyMedia
<1>5. CASE CopyFails
  <2>1. PICK m \in Media : /\ local' = [local EXCEPT ![m] = "part"] \/ UNCHANGED local
                           /\ AtWork("fail")
    BY <1>5, <1>b DEF CopyFails, NextFile
  <2>2. local' \in [Media -> {"absent", "part", "whole"}]
    BY <1>b, <2>1
  <2> QED BY <1>5, <1>b, <1>c, <2>1, <2>2 DEF CopyFails
<1>6. CASE WriteIntake
  <2>1. intake' \in Intake \cup {None}
    BY <1>6, <1>b DEF WriteIntake, Intake, Doc
  <2> QED BY <1>6, <1>b, <1>c, <2>1 DEF WriteIntake
<1>7. CASE WatcherCouchFails
  <2>1. watcher' \in Work
    BY <1>7, <1>c DEF WatcherCouchFails
  <2> QED BY <1>7, <1>b, <1>d, <1>e, <2>1 DEF WatcherCouchFails, Write
<1>8. CASE WatcherStops \/ WatcherStarts
  <2>1. local' \in [Media -> {"absent", "part", "whole"}]
    BY <1>8, <1>b DEF WatcherStops, WatcherStarts, NextFile
  <2>2. watcher' \in Work
    BY <1>8, <1>a, <1>c DEF WatcherStops, WatcherStarts
  <2> QED BY <1>8, <1>b, <2>1, <2>2 DEF WatcherStops, WatcherStarts
<1> QED BY <1>1, <1>2, <1>3, <1>4, <1>5, <1>6, <1>7, <1>8 DEF WatcherAction
LEMMA CountTypes ==
  ASSUME Next, drops \in 0 .. MaxDrops, faults \in 0 .. MaxFaults
  PROVE  drops' \in 0 .. MaxDrops /\ faults' \in 0 .. MaxFaults
<1>1. UNCHANGED <<drops, faults>> \/ Drop \/ Fault
  BY DEF Next, DrainStep, RecStep, UserStep, PhoneFault, PageStep, WorkerStep, WebUser, WebFault,
         NewToken, Submit, WorkerSubmits, TurnAway, Transfer, Arrive, Deliver, Unheard, HandlerStep, Disconnect, LoseAnswer, WatcherStep,
         ServerFault, Phone, Web, Server
<1> QED BY <1>1, FaultAssumption DEF Drop, Fault

LEMMA TypesAtStart == Init => TypeOK
<1> SUFFICES ASSUME Init PROVE TypeOK
  OBVIOUS
<1>1. PhoneType
  <2>1. \/ row = [status |-> "pending", media |-> Media]
        \/ row = [status |-> "gone", media |-> {}]
    BY DEF Init, PhoneInit
  <2>2. row \in Row /\ saved \in Row /\ evidence \subseteq Media
    BY <2>1 DEF Init, PhoneInit, Row
  <2>3. drain = [phase |-> "idle", media |-> {}, conn |-> None, answer |-> Again]
    BY DEF Init, PhoneInit, NoDrain
  <2>4. drain \in [phase : {"idle", "listed", "preparing", "waiting", "answered", "releasing",
                            "closing", "stopping"},
                   media : SUBSET Media, conn : Conns \cup {None}, answer : Answers]
    BY <2>3, AnswerTypes
  <2>5. rec \in [phase : {"idle", "seen", "releasing"}, alive : BOOLEAN,
                 receipt : SUBSET SUBSET Media, media : SUBSET Media]
    <3>1. rec = [phase |-> "idle", alive |-> FALSE, receipt |-> {}, media |-> {}]
      BY DEF Init, PhoneInit, NoRec
    <3> QED BY <3>1
  <2> QED BY <2>2, <2>4, <2>5 DEF Init, PhoneInit, PhoneType
<1>2. WebType
  <2>1. item \in {"none", "pending"} /\ token = TRUE /\ agent = [d \in Agents |-> [phase |-> "idle", conn |-> None]]
    BY DEF Init, WebInit, NoAgent
  <2> QED BY <2>1 DEF WebType
<1>3. ServerType
  <2>1. doc \in Doc /\ doc.media \in SUBSET Media
    <3>1. CASE doc = NoDoc
      BY <3>1 DEF NoDoc, Doc, DocStates
    <3>2. ASSUME NEW P \in Truncated, NEW s \in {"pending", "complete"},
                 doc = [NoDoc EXCEPT !.state = s, !.media = P]
          PROVE  doc \in Doc /\ doc.media \in SUBSET Media
      <4>1. doc = [state |-> s, media |-> P, noted |-> FALSE, repaired |-> FALSE]
        BY <3>2 DEF NoDoc
      <4> QED BY <4>1, TruncatedAssumption DEF Doc, DocStates
    <3> QED BY <3>1, <3>2 DEF Init, ServerInit
  <2>2. intake \in Intake \cup {None}
    <3>1. intake = None \/ \E P \in SUBSET Media : intake = [media |-> P, noted |-> FALSE]
      BY TruncatedAssumption DEF Init, ServerInit
    <3>2. ASSUME NEW P \in SUBSET Media, intake = [media |-> P, noted |-> FALSE]
          PROVE  intake \in Intake
      BY <3>2 DEF Intake
    <3> QED BY <3>1, <3>2
  <2>3. handler \in [Conns -> [phase : {"none", "lookup", "write", "rev", "put", "reply"},
                               media : SUBSET Media, put : Doc, todo : SUBSET Media,
                               attempt : {1, 2}, answer : Answers]]
    <3>1. handler = [c \in Conns |-> [phase |-> "none", media |-> {}, put |-> NoDoc, todo |-> {},
                                     attempt |-> 1, answer |-> Again]]
      BY DEF Init, ServerInit, NoHandler
    <3>2. NoDoc \in Doc
      BY DEF NoDoc, Doc, DocStates
    <3> QED BY <3>1, <3>2, AnswerTypes
  <2>4. watcher \in [phase : {"down", "idle", "claim", "mark", "copy", "complete", "fail"},
                     doc : Doc, todo : SUBSET Media, had : BOOLEAN]
    BY DEF Init, ServerInit, NoWork, NoDoc, Doc, DocStates
  <2>5. /\ files \subseteq Media /\ fresh \subseteq Conns \cup {Watcher} /\ feed \in BOOLEAN
        /\ local \in [Media -> {"absent", "part", "whole"}]
    BY <2>1 DEF Init, ServerInit
  <2> QED BY <2>1, <2>2, <2>3, <2>4, <2>5 DEF ServerType
<1> QED BY <1>1, <1>2, <1>3, FaultAssumption DEF Init, TypeOK

LEMMA TypesKept == TypeOK /\ [Next]_vars => TypeOK'
<1> SUFFICES ASSUME TypeOK, [Next]_vars PROVE TypeOK'
  OBVIOUS
<1>1. CASE UNCHANGED vars
  BY <1>1 DEF TypeOK, vars, clientVars, phoneVars, webVars, serverVars, PhoneType, WebType, ServerType
<1>2. CASE Next
  <2>a. PhoneType /\ WebType /\ ServerType
    BY DEF TypeOK
  <2>b. /\ UNCHANGED phoneVars => PhoneType'
        /\ UNCHANGED webVars => WebType'
        /\ UNCHANGED serverVars => ServerType'
    BY <2>a DEF phoneVars, webVars, serverVars, PhoneType, WebType, ServerType
  <2>0. SUFFICES PhoneType' /\ WebType' /\ ServerType'
    BY <1>2, CountTypes DEF TypeOK
  <2>1. CASE PhoneAction /\ UNCHANGED <<webVars, serverVars>>
    BY <2>1, <2>a, <2>b, PhoneTypes
  <2>2. CASE WebAction /\ UNCHANGED <<phoneVars, serverVars>>
    BY <2>2, <2>a, <2>b, WebTypes
  <2>3. CASE ServerAction /\ UNCHANGED clientVars
    BY <2>3, <2>a, <2>b, HandlerTypes, WatcherTypes DEF ServerAction, clientVars
  <2>4. CASE ServerStops /\ FetchesBreak /\ UNCHANGED phoneVars
    BY <2>4, <2>a, <2>b, StopTypes, WebTypes
  <2>5. ASSUME NEW c \in Conns, Send(c), UNCHANGED <<webVars, serverVars>>
        PROVE  PhoneType' /\ WebType' /\ ServerType'
    BY <2>5, <2>a, <2>b, SendTypes
  <2>6. ASSUME NEW c \in Conns, NEW d \in Agents, Upload(d, c), UNCHANGED <<phoneVars, serverVars>>
        PROVE  PhoneType' /\ WebType' /\ ServerType'
    BY <2>6, <2>a, <2>b, WebTypes
  <2>7. ASSUME NEW c \in Conns, Handover(c), UNCHANGED clientVars
        PROVE  PhoneType' /\ WebType' /\ ServerType'
    <3>1. \E M \in SUBSET Media : Receive(c, M)
      BY <2>7, <2>a DEF Handover, PhoneType
    <3> QED BY <2>7, <3>1, <2>a, <2>b, HandlerTypes DEF clientVars
  <2>8. ASSUME NEW c \in Conns, Hears(c)
        PROVE  PhoneType' /\ WebType' /\ ServerType'
    <3>1. PICK a \in Answers : Learns(c, a)
      <4>1. handler[c].answer \in Answers
        BY <2>a DEF ServerType
      <4> QED BY <2>8, <4>1, AnswerTypes DEF Hears
    <3>2. ServerType'
      BY <2>8, <2>a, <2>b, HandlerTypes DEF Hears, HandlerAction
    <3>3. CASE TaskEnds(c, a) /\ UNCHANGED webVars
      BY <3>2, <3>3, <2>a, <2>b, TaskTypes
    <3>4. CASE Record(c, a) /\ UNCHANGED phoneVars
      BY <3>2, <3>4, <2>a, <2>b, WebTypes
    <3> QED BY <3>1, <3>3, <3>4 DEF Learns
  <2> QED BY <1>2, Steps, <2>1, <2>2, <2>3, <2>4, <2>5, <2>6, <2>7, <2>8
<1> QED BY <1>1, <1>2

\* Every variable keeps its type, whatever fails: in particular no PUT of the server is tried a
\* third time.
THEOREM TypeCorrect == Spec => []TypeOK
  BY TypesAtStart, TypesKept, PTL DEF Spec
-----------------------------------------------------------------------------
(***************************************************************************)
(* The inductive invariant.  An answer, a receipt or a status is an old    *)
(* observation of the server, and a handler works for a submission its     *)
(* client may have given up.  What carries a medium through is that every  *)
(* request in progress still has it, until the document lists it; from     *)
(* then on a submission without it is refused.                             *)
(***************************************************************************)
Serving == {"lookup", "write", "rev", "put"}
Putting == {"write", "rev", "put"}

\* A capture is in one client; the page submits all of its media.
OneClient ==
  /\ item # "none" => /\ row.status = "gone" /\ live = {} /\ drain.phase = "idle"
                      /\ \A c \in Conns : handler[c].phase \in Serving => handler[c].media = Media
  /\ item = "none" => token /\ agent = [d \in Agents |-> NoAgent]

\* The stored row and the row in memory differ in their status at most.
RowsAgree ==
  /\ saved.media = row.media
  /\ row.status = "gone" <=> saved.status = "gone"
  /\ row.status = "gone" => row.media = {}

\* What the row consists of is in every request that is prepared, sent or served.
Carried ==
  /\ drain.phase = "preparing" => row.media \subseteq drain.media
  /\ \A c \in live : row.media \subseteq body[c]
  /\ \A c \in Conns : handler[c].phase \in Serving => row.media \subseteq handler[c].media

\* Files come before the document that lists them.
Backed ==
  /\ doc.media \subseteq files
  /\ \A c \in Conns :
       /\ handler[c].phase \in Putting => handler[c].put.media = handler[c].media
       /\ handler[c].phase = "write" => handler[c].media \subseteq files \cup handler[c].todo
       /\ handler[c].phase \in {"rev", "put"} => handler[c].media \subseteq files

\* While the watcher's revision is current, so is its copy.
Held == Watcher \in fresh /\ watcher.phase \in {"claim", "mark", "copy", "complete", "fail"}
          => watcher.doc.media = doc.media

\* The document lists m, and no PUT under way forgets it.
OnDoc(m) ==
  m \in doc.media /\ \A c \in Conns : handler[c].phase \in Putting => m \in handler[c].media

\* The server's success was answered, received or believed.
Reported ==
  \/ row.status = "done" \/ saved.status = "done" \/ receipts # {}
  \/ drain.phase = "answered" /\ drain.answer.kind = "stored"
  \/ rec.phase = "seen" /\ rec.receipt # {}
  \/ \E c \in Conns : handler[c].phase = "reply" /\ handler[c].answer.kind = "stored"

ReportedIsStored == Reported => \A m \in row.media : OnDoc(m)

\* What is released, or about to be, is on the server.
Kept ==
  row.status # "gone" =>
    \A m \in Media \ lost :
      /\ m \in row.media \cap evidence \/ OnDoc(m)
      /\ drain.phase = "releasing" /\ m \in drain.media => OnDoc(m)
      /\ rec.phase = "releasing" /\ m \in rec.media => OnDoc(m)

ReportedToPage ==
  \/ item \in {"done", "gone"}
  \/ \E d \in Agents : agent[d].phase = "delete"
  \/ /\ item # "none"
     /\ \E c \in Conns : handler[c].phase = "reply" /\ handler[c].answer.kind = "stored"

PageIsStored == ReportedToPage => \A m \in Media : OnDoc(m)

IInv == /\ TypeOK /\ OneClient /\ RowsAgree /\ Carried /\ Backed /\ Held
        /\ ReportedIsStored /\ Kept /\ PageIsStored

-----------------------------------------------------------------------------
(***************************************************************************)
(* The server: files before documents, and a document never loses what no  *)
(* PUT under way lacks.                                                    *)
(***************************************************************************)
ServerMove ==
  \/ \E c \in Conns : HandlerAction(c) \/ \E M \in SUBSET Media : Receive(c, M)
  \/ WatcherAction \/ ServerStops \/ UNCHANGED serverVars

LEMMA LookupSafe ==
  ASSUME ServerType, Backed, Held, NEW c \in Conns, Lookup(c)
  PROVE  Backed' /\ Held' /\ \A m \in Media : OnDoc(m) => OnDoc(m)'
<1>1. UNCHANGED <<files, doc, fresh, watcher>>
  BY DEF Lookup
<1>2. Held'
  BY <1>1 DEF Held
<1>3. handler[c].media \in SUBSET Media /\ DOMAIN handler = Conns
  BY DEF ServerType
<1>4. CASE \E a \in Answers : Answer(c, a)
  <2>1. handler'[c].phase = "reply" /\ \A x \in Conns \ {c} : handler'[x] = handler[x]
    BY <1>4, <1>3 DEF Answer, NoHandler
  <2> QED BY <1>1, <1>2, <2>1 DEF Backed, OnDoc, Putting
<1>5. CASE \E d \in Doc : /\ Prepared(c, d, handler[c].media \ doc.media)
                           /\ d.media = handler[c].media /\ doc.media \subseteq handler[c].media
  <2>1. /\ \A x \in Conns \ {c} : handler'[x] = handler[x]
        /\ handler'[c].phase = "write" /\ handler'[c].media = handler[c].media
        /\ handler'[c].put.media = handler[c].media
        /\ handler'[c].todo = handler[c].media \ doc.media
    BY <1>5, <1>3 DEF Prepared, ServerType
  <2> QED BY <1>1, <1>2, <1>5, <2>1 DEF Backed, OnDoc, Putting
<1> QED
  <2>1. ASSUME doc = NoDoc, Prepared(c, NewDoc(handler[c].media), handler[c].media)
        PROVE  \E d \in Doc : /\ Prepared(c, d, handler[c].media \ doc.media)
                              /\ d.media = handler[c].media /\ doc.media \subseteq handler[c].media
    <3>1. doc.media = {} /\ handler[c].media \ doc.media = handler[c].media
      BY <2>1 DEF NoDoc
    <3>2. NewDoc(handler[c].media) \in Doc /\ NewDoc(handler[c].media).media = handler[c].media
      BY <1>3 DEF NewDoc, Doc, DocStates
    <3> QED BY <2>1, <3>1, <3>2
  <2>2. /\ Repair(doc, handler[c].media) \in Doc
        /\ Repair(doc, handler[c].media).media = handler[c].media
    BY <1>3 DEF Repair, Doc, DocStates, ServerType
  <2>3. Refused \in Answers /\ Stored(doc.media) \in Answers
    BY AnswerTypes DEF ServerType, Doc
  <2> QED BY <1>4, <1>5, <2>1, <2>2, <2>3 DEF Lookup
LEMMA HandlerSafe ==
  ASSUME ServerType, Backed, Held, NEW c \in Conns,
         HandlerAction(c) \/ \E M \in SUBSET Media : Receive(c, M)
  PROVE  Backed' /\ Held' /\ \A m \in Media : OnDoc(m) => OnDoc(m)'
<1>a. DOMAIN handler = Conns /\ Watcher \notin Conns
  BY WatcherAssumption DEF ServerType
<1>b. \A x \in Conns \ {c} : handler'[x] = handler[x]
  BY <1>a DEF HandlerAction, Receive, Lookup, Prepared, Answer, WriteMedia, GetRev, PutDoc, Conflict,
              Reply, CouchFails, Unauthorized
<1>1. CASE Lookup(c)
  BY <1>1, LookupSafe
<1>2. CASE WriteMedia(c)
  <2>1. /\ handler[c].phase = "write" /\ handler'[c].phase = "rev"
        /\ handler'[c].media = handler[c].media /\ handler'[c].put = handler[c].put
        /\ files' = files \cup handler[c].todo /\ UNCHANGED <<doc, fresh, watcher>>
    BY <1>2, <1>a DEF WriteMedia, ServerType
  <2> QED BY <1>b, <2>1 DEF Backed, Held, OnDoc, Putting
<1>3. CASE GetRev(c)
  <2>1. /\ handler[c].phase = "rev" /\ handler'[c].phase = "put"
        /\ handler'[c].media = handler[c].media /\ handler'[c].put = handler[c].put
        /\ fresh' = fresh \cup {c} /\ UNCHANGED <<doc, files, watcher>>
    BY <1>3, <1>a DEF GetRev, ServerType
  <2> QED BY <1>a, <1>b, <2>1 DEF Backed, Held, OnDoc, Putting
<1>4. CASE /\ handler[c].phase = "put" /\ doc' = handler[c].put /\ fresh' = {}
           /\ (\E a : Answer(c, a)) /\ UNCHANGED files
  <2>1. handler'[c].phase = "reply"
    BY <1>4, <1>a DEF Answer, NoHandler
  <2> QED BY <1>4, <1>b, <2>1 DEF Backed, Held, OnDoc, Putting
<1>5. CASE /\ UNCHANGED <<files, doc, watcher>> /\ fresh' \subseteq fresh
           /\ (\E a : Answer(c, a)) \/ Reply(c) \/ \E M \in SUBSET Media : Receive(c, M)
  <2>1. handler'[c].phase \in {"reply", "none", "lookup"}
    <3>1. CASE \E a : Answer(c, a)
      BY <3>1, <1>a DEF Answer, NoHandler
    <3>2. CASE Reply(c)
      BY <3>2, <1>a DEF Reply, NoHandler
    <3>3. CASE \E M \in SUBSET Media : Receive(c, M)
      <4>1. PICK M \in SUBSET Media : handler' = [handler EXCEPT ![c].phase = "lookup", ![c].media = M]
        BY <3>3 DEF Receive
      <4>2. handler'[c] = [handler[c] EXCEPT !.phase = "lookup", !.media = M]
        BY <1>a, <4>1
      <4>3. DOMAIN handler[c] = {"phase", "media", "put", "todo", "attempt", "answer"}
        BY DEF ServerType
      <4> QED BY <4>2, <4>3
    <3> QED BY <1>5, <3>1, <3>2, <3>3
  <2> QED BY <1>5, <1>b, <2>1 DEF Backed, Held, OnDoc, Putting
<1>6. CASE /\ handler[c].phase = "put" /\ UNCHANGED <<files, doc, fresh, watcher>>
           /\ handler' = [handler EXCEPT ![c].phase = "rev", ![c].attempt = 2]
  <2>1. /\ handler'[c].phase = "rev"
        /\ handler'[c].media = handler[c].media /\ handler'[c].put = handler[c].put
    BY <1>6, <1>a DEF ServerType
  <2> QED BY <1>6, <1>b, <2>1 DEF Backed, Held, OnDoc, Putting
<1>7. CASE PutDoc(c)
  BY <1>4, <1>5, <1>6, <1>7 DEF PutDoc, Conflict, Write
<1>8. CASE CouchFails(c) \/ Unauthorized(c) \/ Reply(c)
  BY <1>4, <1>5, <1>8 DEF CouchFails, Unauthorized, Reply, Write
<1>9. CASE \E M \in SUBSET Media : Receive(c, M)
  BY <1>5, <1>9 DEF Receive
<1> QED BY <1>1, <1>2, <1>3, <1>7, <1>8, <1>9 DEF HandlerAction

LEMMA WatcherSafe ==
  ASSUME ServerType, Backed, Held, WatcherAction
  PROVE  Backed' /\ Held' /\ \A m \in Media : OnDoc(m) => OnDoc(m)'
<1>a. UNCHANGED <<files, handler>>
  BY DEF WatcherAction, TakeChange, Claim, MarkProcessing, CopyMedia, CopyFails, WriteIntake, Finish,
         WatcherCouchFails, WatcherStops, WatcherStarts
<1>b. /\ doc'.media = doc.media
      /\ \/ Watcher \notin fresh'
         \/ watcher'.phase \in {"idle", "down"}
         \/ Watcher \in fresh /\ watcher.phase \in {"claim", "mark", "copy"} /\ watcher'.doc = watcher.doc
         \/ watcher'.doc = doc' 
  <2>a. /\ watcher.doc \in Doc
        /\ \A s \in DocStates : [watcher.doc EXCEPT !.state = s].media = watcher.doc.media
    BY DEF ServerType, Doc
  <2>b. ASSUME NEW p \in {"down", "idle", "claim", "mark", "copy", "complete", "fail"}, AtWork(p)
        PROVE  /\ watcher'.phase = p
               /\ p \notin {"idle", "down"} => watcher'.doc = watcher.doc
    <3> DEFINE w == IF p \in {"idle", "down"} THEN NoWork ELSE watcher
    <3>1. watcher' = [w EXCEPT !.phase = p] /\ (p \notin {"idle", "down"} => w = watcher)
      BY <2>b DEF AtWork
    <3>2. DOMAIN w = {"phase", "doc", "todo", "had"}
      BY DEF NoWork, ServerType
    <3> HIDE DEF w
    <3> QED BY <3>1, <3>2
  <2>c. Watcher \in fresh /\ watcher.phase \in {"claim", "mark", "copy", "complete", "fail"}
          => watcher.doc.media = doc.media
    BY DEF Held
  <2>d. /\ DOMAIN Target = {"claim", "mark", "complete", "fail"}
        /\ \A p \in DOMAIN Target : Target[p] \in DocStates
    BY DEF Target, DocStates
  <2>1. CASE TakeChange
    BY <2>1 DEF TakeChange, NoWork
  <2>2. CASE Claim \/ Finish
    <3>1. PICK p \in {"mark", "idle", "down"} : AtWork(p)
      BY <2>2 DEF Claim, Finish, Advance
    <3>2. /\ watcher.phase \in DOMAIN Target
          /\ p = "mark" => watcher.phase = "claim"
          /\ \/ Watcher \in fresh /\ doc' = [watcher.doc EXCEPT !.state = Target[watcher.phase]]
             \/ UNCHANGED doc /\ p # "mark"
      <4>1. CASE Claim
        BY <2>d, <2>b, <3>1, <4>1 DEF Claim, Advance, Write
      <4>2. CASE Finish
        BY <2>d, <2>b, <3>1, <4>2 DEF Finish, Advance, Write
      <4> QED BY <2>2, <4>1, <4>2
    <3> QED BY <3>1, <3>2, <2>a, <2>b, <2>c, <2>d
  <2>3. CASE MarkProcessing
    BY <2>3, <2>a, <2>b, <2>c DEF MarkProcessing, Write, DocStates, ServerType
  <2>4. CASE CopyMedia \/ CopyFails \/ WriteIntake
    <3>1. /\ watcher.phase = "copy" /\ UNCHANGED <<doc, fresh>>
          /\ \/ AtWork("fail") \/ AtWork("complete")
             \/ \E m \in Media : watcher' = [watcher EXCEPT !.todo = watcher.todo \ {m}]
      BY <2>4 DEF CopyMedia, CopyFails, WriteIntake, NextFile, ServerType
    <3>2. watcher'.doc = watcher.doc
      BY <2>b, <3>1 DEF ServerType
    <3> QED BY <3>1, <3>2
  <2>5. CASE WatcherCouchFails
    BY <2>5, <2>a, <2>b, <2>c, <2>d DEF WatcherCouchFails, Write
  <2>6. CASE WatcherStops \/ WatcherStarts
    BY <2>6, <2>b DEF WatcherStops, WatcherStarts, NoWork
  <2> QED BY <2>1, <2>2, <2>3, <2>4, <2>5, <2>6 DEF WatcherAction
<1> QED BY <1>a, <1>b DEF Backed, Held, OnDoc

LEMMA ServerSafe ==
  ASSUME ServerType, Backed, Held, ServerMove
  PROVE  Backed' /\ Held' /\ \A m \in Media : OnDoc(m) => OnDoc(m)'
<1>1. CASE ServerStops
  <2>1. /\ UNCHANGED <<files, doc, watcher>> /\ fresh' \subseteq fresh
        /\ \A c \in Conns : handler'[c].phase = "none"
    BY <1>1 DEF ServerStops, NoHandler
  <2> QED BY <2>1 DEF Backed, Held, OnDoc, Putting
<1>2. CASE UNCHANGED serverVars
  BY <1>2 DEF serverVars, Backed, Held, OnDoc
<1> QED BY <1>1, <1>2, HandlerSafe, WatcherSafe DEF ServerMove

\* Every step of the system is such a move.
LEMMA ServerMoves ==
  ASSUME TypeOK, Next
  PROVE  ServerMove
<1>1. ASSUME NEW c \in Conns, Handover(c)
      PROVE  ServerMove
  BY <1>1 DEF Handover, ServerMove, TypeOK, PhoneType
<1>2. ASSUME NEW c \in Conns, Hears(c)
      PROVE  ServerMove
  BY <1>2 DEF Hears, ServerMove, HandlerAction
<1> QED BY Steps, <1>1, <1>2 DEF ServerAction, ServerMove

-----------------------------------------------------------------------------
(***************************************************************************)
(* The clients.                                                            *)
(***************************************************************************)
\* A capture in the app leaves the page alone.
LEMMA PageAtRest ==
  ASSUME TypeOK, OneClient, item = "none"
  PROVE  /\ ~WebAction /\ Fetching = {}
         /\ \A c \in Conns, d \in Agents : ~Upload(d, c)
         /\ \A c \in Conns : \A a : ~Record(c, a)
         /\ FetchesBreak => UNCHANGED <<item, token, agent>>
<1>1. \A d \in Agents : agent[d].phase = "idle" /\ agent[d].conn = None
  BY DEF OneClient, NoAgent
<1>2. None \notin Conns
  BY NoneAssumption
<1>3. ~WebAction
  <2>1. token /\ \A d \in Drains : Process(d) \subseteq Agents
    BY DEF OneClient, Process, Drains, Agents
  <2>2. \A d \in Drains : ~AgentDies(d)
    BY <1>1, <2>1 DEF AgentDies
  <2>3. ~TokenCleared /\ ~PasteToken /\ ~RequeueList
    BY <2>1 DEF TokenCleared, PasteToken, RequeueList
  <2> QED BY <1>1, <2>2, <2>3 DEF WebAction, AgentStep, List, Orphan, PatchListed, UploadRejected,
                                  DeleteDone
<1>4. Fetching = {}
  BY <1>1 DEF Fetching
<1>5. \A c \in Conns, d \in Agents : ~Upload(d, c)
  BY <1>1 DEF Upload
<1>6. \A c \in Conns : \A a : ~Record(c, a)
  BY <1>1, <1>2 DEF Record
<1>7. FetchesBreak => UNCHANGED <<item, token, agent>>
  <2> HAVE FetchesBreak
  <2>1. agent' = [d \in Agents |-> agent[d]]
    BY <1>1 DEF FetchesBreak
  <2> QED BY <1>4, <2>1 DEF FetchesBreak, TypeOK, WebType
<1> QED BY <1>3, <1>4, <1>5, <1>6, <1>7

\* A step of the phone: the row never grows, nothing that was not reported becomes so.
LEMMA PhoneEffects ==
  ASSUME TypeOK, RowsAgree, PhoneAction
  PROVE  /\ UNCHANGED <<live, body>> /\ row'.media \subseteq row.media
         /\ RowsAgree'
         /\ row.status = "gone" => row'.status = "gone"
         /\ row.status = "gone" /\ drain.phase = "idle" => drain'.phase = "idle"
         /\ drain'.phase = "preparing" => \/ drain.phase = "preparing" /\ drain'.media = drain.media
                                          \/ drain'.media = row.media
<1>1. CASE DrainBegin \/ BeginUnsaved
  BY <1>1 DEF DrainBegin, BeginUnsaved, Persist, Status, RowsAgree, TypeOK, PhoneType, Row, NoDrain
<1>2. CASE PrepareFails
  <2>1. drain'.phase = "closing" /\ UNCHANGED <<live, body, saved>>
    BY <1>2 DEF PrepareFails, NoDrain
  <2>2. /\ row'.media = row.media /\ (row'.status = "gone" <=> row.status = "gone")
    BY <1>2 DEF PrepareFails, Status, TypeOK, PhoneType, Row
  <2> QED BY <1>2, <2>1, <2>2 DEF RowsAgree, PrepareFails
<1>3. CASE Confirm \/ ConfirmUnsaved
  BY <1>3 DEF Confirm, ConfirmUnsaved, Persist, Status, RowsAgree, TypeOK, PhoneType, Row, NoDrain
<1>4. CASE Release \/ DrainEnd \/ EndUnsaved
  BY <1>4 DEF Release, DrainEnd, EndUnsaved, EndRound, RowsAgree, NoDrain
<1>5. CASE Unconfirmed \/ TokenRejected
  BY <1>5 DEF Unconfirmed, TokenRejected, Persist, Status, RowsAgree, TypeOK, PhoneType, Row, NoDrain
<1>6. CASE RecSnapshot \/ RecUnsaved \/ RecRelease
  BY <1>6 DEF RecSnapshot, RecUnsaved, RecRelease, RowsAgree
<1>11. CASE DrainList \/ DrainSkip \/ TokenRefused \/ Reconnect
  BY <1>11 DEF DrainList, DrainSkip, TokenRefused, Reconnect, RowsAgree, NoDrain
<1>7. CASE RecApply
  BY <1>7 DEF RecApply, Abandoned, Persist, Status, RowsAgree, TypeOK, PhoneType, Row
<1>8. CASE Retry \/ UploadSurviving \/ DeleteCapture
  <2>1. UNCHANGED <<live, body, drain>> /\ saved' = row'
    BY <1>8 DEF Retry, UploadSurviving, DeleteCapture, Persist
  <2>2. row'.media \subseteq row.media /\ row.status # "gone"
    BY <1>8 DEF Retry, UploadSurviving, DeleteCapture, Persist, Status, TypeOK, PhoneType, Row
  <2>3. row'.status = "gone" => row'.media = {}
    BY <1>8 DEF Retry, UploadSurviving, DeleteCapture, Persist, Status, TypeOK, PhoneType, Row
  <2> QED BY <2>1, <2>2, <2>3 DEF RowsAgree
<1>9. CASE Relaunch
  BY <1>9 DEF Relaunch, RowsAgree, NoDrain
<1>10. CASE \E m \in Media : LoseMedia(m)
  BY <1>10 DEF LoseMedia, RowsAgree
<1> QED BY <1>1, <1>2, <1>3, <1>4, <1>5, <1>6, <1>7, <1>8, <1>9, <1>10, <1>11 DEF PhoneAction

\* How the answer of a handler comes about: stored means that the document lists the submission.
LEMMA HandlerEffects ==
  ASSUME TypeOK, Backed, NEW c \in Conns, HandlerAction(c)
  PROVE  /\ \A x \in Conns \ {c} : handler'[x] = handler[x]
         /\ handler'[c].phase \in Serving =>
              handler[c].phase \in Serving /\ handler'[c].media = handler[c].media
         /\ handler'[c].phase = "reply" /\ handler'[c].answer.kind = "stored" =>
              handler[c].phase \in Serving /\ doc'.media = handler[c].media
<1>a. DOMAIN handler = Conns /\ handler[c].media \in SUBSET Media
  BY DEF TypeOK, ServerType
<1>b. \A x \in Conns \ {c} : handler'[x] = handler[x]
  BY <1>a DEF HandlerAction, Lookup, Prepared, Answer, WriteMedia, GetRev, PutDoc, Conflict,
              Reply, CouchFails, Unauthorized
<1>c. ASSUME NEW a \in Answers, Answer(c, a)
      PROVE  handler'[c].phase = "reply" /\ handler'[c].answer = a
  BY <1>a, <1>c DEF Answer, NoHandler
<1>d. Refused.kind # "stored" /\ Again.kind # "stored" /\ AuthLost.kind # "stored"
  BY DEF Refused, Again, AuthLost
<1>1. CASE Lookup(c)
  <2>1. ASSUME NEW d, NEW T, Prepared(c, d, T)
        PROVE  handler'[c].phase = "write" /\ handler'[c].media = handler[c].media
    BY <1>a, <2>1 DEF Prepared, TypeOK, ServerType
  <2>2. CASE Answer(c, Refused)
    BY <1>b, <1>c, <1>d, <2>2, AnswerTypes DEF Serving
  <2>3. CASE IsReplay(handler[c].media) /\ Answer(c, Stored(doc.media)) /\ UNCHANGED doc
    BY <1>1, <1>a, <1>b, <1>c, <2>3, AnswerTypes DEF Lookup, IsReplay, Serving
  <2> QED BY <1>1, <1>b, <2>1, <2>2, <2>3 DEF Lookup, Serving
<1>2. CASE WriteMedia(c) \/ GetRev(c)
  <2>1. /\ handler[c].phase \in Serving /\ handler'[c].phase \in Serving
        /\ handler'[c].media = handler[c].media
    BY <1>2, <1>a DEF WriteMedia, GetRev, Serving, TypeOK, ServerType
  <2> QED BY <1>b, <2>1 DEF Serving
<1>3. CASE PutDoc(c)
  <2>1. CASE c \in fresh
    <3>1. handler[c].phase = "put" /\ doc' = handler[c].put /\ Answer(c, Stored(handler[c].media))
      BY <1>3, <2>1 DEF PutDoc, Write
    <3> QED BY <1>a, <1>b, <1>c, <3>1, AnswerTypes DEF Backed, Serving, Putting
  <2>2. CASE handler' = [handler EXCEPT ![c].phase = "rev", ![c].attempt = 2]
    <3>1. handler'[c].phase = "rev" /\ handler'[c].media = handler[c].media /\ handler[c].phase = "put"
      BY <1>3, <1>a, <2>2 DEF PutDoc, TypeOK, ServerType
    <3> QED BY <1>b, <3>1 DEF Serving
  <2>3. CASE Answer(c, Again)
    BY <1>b, <1>c, <1>d, <2>3, AnswerTypes DEF Serving
  <2> QED BY <1>3, <2>1, <2>2, <2>3 DEF PutDoc, Conflict
<1>4. CASE CouchFails(c) \/ Unauthorized(c)
  BY <1>4, <1>b, <1>c, <1>d, AnswerTypes DEF CouchFails, Unauthorized, Serving
<1>5. CASE Reply(c)
  <2>1. handler'[c].phase = "none"
    BY <1>5, <1>a DEF Reply, NoHandler
  <2> QED BY <1>b, <2>1 DEF Serving
<1> QED BY <1>1, <1>2, <1>3, <1>4, <1>5 DEF HandlerAction

LEMMA OneClientKept ==
  ASSUME TypeOK, OneClient, RowsAgree, Backed, Next
  PROVE  OneClient'
<1>a. ASSUME item # "none", item' # "none", UNCHANGED <<live, handler>>,
             row'.status = "gone", drain'.phase = "idle"
      PROVE  OneClient'
  BY <1>a DEF OneClient
<1>b. ASSUME UNCHANGED <<phoneVars, webVars>>,
             \A c \in Conns : handler'[c].phase \in Serving =>
               \/ handler[c].phase \in Serving /\ handler'[c].media = handler[c].media
               \/ handler'[c].media = Media
               \/ item = "none"
      PROVE  OneClient'
  BY <1>b DEF OneClient, phoneVars, webVars
<1>1. CASE PhoneAction /\ UNCHANGED <<webVars, serverVars>>
  BY <1>1, PhoneEffects DEF OneClient, webVars, serverVars
<1>2. CASE WebAction /\ UNCHANGED <<phoneVars, serverVars>>
  <2>1. item # "none"
    BY <1>2, PageAtRest
  <2>2. item' # "none"
    BY <1>2, <2>1 DEF WebAction, RequeueList, TokenCleared, PasteToken, AgentStep, AgentDies, List,
                      PatchListed, UploadRejected, DeleteDone, Patch
  <2> QED BY <1>2, <2>1, <2>2 DEF OneClient, phoneVars, serverVars
<1>3. CASE ServerAction /\ UNCHANGED clientVars
  <2>1. CASE WatcherAction
    <3>1. UNCHANGED handler
      BY <2>1 DEF WatcherAction, TakeChange, Claim, MarkProcessing, CopyMedia, CopyFails, WriteIntake,
                  Finish, WatcherCouchFails, WatcherStops, WatcherStarts
    <3> QED BY <1>3, <1>b, <3>1 DEF clientVars
  <2>2. ASSUME NEW c \in Conns, HandlerAction(c)
        PROVE  OneClient'
    BY <1>3, <1>b, <2>2, HandlerEffects DEF clientVars
  <2> QED BY <1>3, <2>1, <2>2 DEF ServerAction
<1>4. CASE ServerStops /\ FetchesBreak /\ UNCHANGED phoneVars
  <2>1. \A c \in Conns : handler'[c].phase \notin Serving
    BY <1>4 DEF ServerStops, NoHandler, Serving
  <2>2. CASE item = "none"
    BY <1>4, <2>1, <2>2, PageAtRest DEF OneClient, phoneVars
  <2>3. CASE item # "none"
    BY <1>4, <2>1, <2>3 DEF OneClient, phoneVars, FetchesBreak, Patch
  <2> QED BY <2>2, <2>3
<1>5. ASSUME NEW c \in Conns, Send(c), UNCHANGED <<webVars, serverVars>>
      PROVE  OneClient'
  BY <1>5 DEF OneClient, Send, webVars
<1>6. ASSUME NEW c \in Conns, NEW d \in Agents, Upload(d, c), UNCHANGED <<phoneVars, serverVars>>
      PROVE  OneClient'
  <2>1. item # "none"
    BY <1>6, PageAtRest
  <2> QED BY <1>6, <2>1 DEF OneClient, Upload, Patch, phoneVars, serverVars
<1>7. ASSUME NEW c \in Conns, Handover(c), UNCHANGED clientVars
      PROVE  OneClient'
  <2>1. PICK M \in SUBSET Media : Receive(c, M) /\ (c \in live \/ M = Media)
    BY <1>7 DEF Handover, TypeOK, PhoneType
  <2>2. /\ \A x \in Conns \ {c} : handler'[x] = handler[x]
        /\ handler'[c].media = M
    BY <2>1 DEF Receive, TypeOK, ServerType
  <2>3. item # "none" => M = Media
    BY <2>1 DEF OneClient
  <2> QED BY <1>7, <1>b, <2>2, <2>3 DEF clientVars
<1>8. ASSUME NEW c \in Conns, Hears(c)
      PROVE  OneClient'
  <2>1. \A x \in Conns : handler'[x] = handler[x] \/ handler'[x].phase = "none"
    BY <1>8 DEF Hears, Reply, NoHandler, serverVars, TypeOK, ServerType
  <2>2. PICK a : Learns(c, a)
    BY <1>8 DEF Hears
  <2>3. CASE TaskEnds(c, a) /\ UNCHANGED webVars
    BY <2>1, <2>3 DEF TaskEnds, OneClient, webVars
  <2>4. CASE Record(c, a) /\ UNCHANGED phoneVars
    <3>1. item # "none"
      BY <2>4, PageAtRest
    <3>2. item' # "none"
      BY <2>4, <3>1 DEF Record, Patch, Outcome
    <3> QED BY <2>1, <2>4, <3>1, <3>2 DEF OneClient, phoneVars, Serving
  <2> QED BY <2>2, <2>3, <2>4 DEF Learns
<1> QED BY Steps, <1>1, <1>2, <1>3, <1>4, <1>5, <1>6, <1>7, <1>8

\* What any step does to a handler: it serves what it served or what the client hands over, and
\* a success is an old one or says that the document lists the submission.
LEMMA HandlerMoves ==
  ASSUME TypeOK, Backed, Next, NEW c \in Conns
  PROVE  /\ handler'[c].phase \in Serving =>
              \/ handler[c].phase \in Serving /\ handler'[c].media = handler[c].media
              \/ c \in live /\ handler'[c].media = body[c]
              \/ handler'[c].media = Media
         /\ handler'[c].phase = "reply" /\ handler'[c].answer.kind = "stored" =>
              \/ handler[c].phase = "reply" /\ handler[c].answer.kind = "stored"
              \/ handler[c].phase \in Serving /\ doc'.media = handler[c].media /\ UNCHANGED clientVars
<1>1. CASE UNCHANGED handler
  BY <1>1
<1>2. ASSUME NEW x \in Conns, HandlerAction(x), UNCHANGED clientVars
      PROVE  /\ handler'[c].phase \in Serving =>
                  handler[c].phase \in Serving /\ handler'[c].media = handler[c].media
             /\ handler'[c].phase = "reply" /\ handler'[c].answer.kind = "stored" =>
                  \/ handler[c].phase = "reply" /\ handler[c].answer.kind = "stored"
                  \/ handler[c].phase \in Serving /\ doc'.media = handler[c].media /\ UNCHANGED clientVars
  BY <1>2, HandlerEffects
<1>3. CASE WatcherAction
  BY <1>1, <1>3 DEF WatcherAction, TakeChange, Claim, MarkProcessing, CopyMedia, CopyFails, WriteIntake,
                    Finish, WatcherCouchFails, WatcherStops, WatcherStarts
<1>4. CASE ServerStops
  BY <1>4 DEF ServerStops, NoHandler, Serving
<1>5. ASSUME NEW x \in Conns, Handover(x)
      PROVE  /\ handler'[c].phase \in Serving =>
                  \/ handler[c].phase \in Serving /\ handler'[c].media = handler[c].media
                  \/ c \in live /\ handler'[c].media = body[c]
                  \/ handler'[c].media = Media
             /\ handler'[c].phase = "reply" /\ handler'[c].answer.kind = "stored" =>
                  handler[c].phase = "reply" /\ handler[c].answer.kind = "stored"
  <2>1. PICK M \in SUBSET Media : Receive(x, M) /\ ((x \in live /\ M = body[x]) \/ M = Media)
    BY <1>5 DEF Handover, TypeOK, PhoneType
  <2>2. /\ \A y \in Conns \ {x} : handler'[y] = handler[y]
        /\ handler'[x].phase = "lookup" /\ handler'[x].media = M
    BY <2>1 DEF Receive, TypeOK, ServerType
  <2> QED BY <2>1, <2>2
<1>6. ASSUME NEW x \in Conns, Hears(x)
      PROVE  handler'[c] = handler[c] \/ handler'[c].phase = "none"
  BY <1>6 DEF Hears, Reply, NoHandler, serverVars, TypeOK, ServerType
<1> QED BY Steps, <1>1, <1>2, <1>3, <1>4, <1>5, <1>6 DEF ServerAction, serverVars, Serving

\* What any step does to the row and to what carries it.
LEMMA ClientMoves ==
  ASSUME TypeOK, OneClient, RowsAgree, Next
  PROVE  /\ RowsAgree' /\ row'.media \subseteq row.media
         /\ row.status = "gone" => row'.status = "gone"
         /\ \A c \in live' : \/ c \in live /\ body'[c] = body[c]
                             \/ drain.phase = "preparing" /\ body'[c] = drain.media
         /\ drain'.phase = "preparing" => \/ drain.phase = "preparing" /\ drain'.media = drain.media
                                          \/ drain'.media = row.media
<1>1. CASE PhoneAction
  BY <1>1, PhoneEffects
<1>2. CASE UNCHANGED phoneVars
  BY <1>2 DEF phoneVars, RowsAgree
<1>3. ASSUME NEW c \in Conns, Send(c)
      PROVE  /\ UNCHANGED <<row, saved>> /\ drain'.phase = "waiting"
             /\ \A x \in live' : \/ x \in live /\ body'[x] = body[x]
                                 \/ drain.phase = "preparing" /\ body'[x] = drain.media
  BY <1>3 DEF Send, TypeOK, PhoneType
<1>4. ASSUME NEW c \in Conns, NEW a, TaskEnds(c, a)
      PROVE  /\ UNCHANGED <<row, saved>>
             /\ drain' = drain \/ drain'.phase = "answered"
             /\ \A x \in live' : x \in live /\ body'[x] = body[x]
  BY <1>4 DEF TaskEnds, TypeOK, PhoneType
<1>5. ASSUME NEW c \in Conns, Hears(c)
      PROVE  (\E a : TaskEnds(c, a)) \/ UNCHANGED phoneVars
  BY <1>5 DEF Hears, Learns
<1> QED BY Steps, <1>1, <1>2, <1>3, <1>4, <1>5 DEF RowsAgree, clientVars

LEMMA CarriedKept ==
  ASSUME TypeOK, OneClient, RowsAgree, Carried, Backed, Next
  PROVE  Carried'
<1>1. row'.media \subseteq row.media /\ row.media \subseteq Media
  BY ClientMoves DEF TypeOK, PhoneType, Row
<1>2. drain'.phase = "preparing" => row'.media \subseteq drain'.media
  BY <1>1, ClientMoves DEF Carried
<1>3. \A c \in live' : row'.media \subseteq body'[c]
  BY <1>1, ClientMoves DEF Carried
<1>4. ASSUME NEW c \in Conns, handler'[c].phase \in Serving
      PROVE  row'.media \subseteq handler'[c].media
  BY <1>1, <1>4, HandlerMoves DEF Carried
<1> QED BY <1>2, <1>3, <1>4 DEF Carried

-----------------------------------------------------------------------------
(***************************************************************************)
(* Success is only ever reported by the server, and is true when it is.    *)
(***************************************************************************)
\* The phone's part of Reported.
Believed ==
  \/ row.status = "done" \/ saved.status = "done" \/ receipts # {}
  \/ drain.phase = "answered" /\ drain.answer.kind = "stored"
  \/ rec.phase = "seen" /\ rec.receipt # {}

\* The phone believes nothing new by itself.
LEMMA NothingInvented ==
  ASSUME TypeOK, PhoneAction, Believed'
  PROVE  Believed
<1> SUFFICES ASSUME ~Believed PROVE FALSE
  OBVIOUS
<1>0. /\ row.status # "done" /\ saved.status # "done" /\ receipts = {}
      /\ ~(drain.phase = "answered" /\ drain.answer.kind = "stored")
      /\ ~(rec.phase = "seen" /\ rec.receipt # {})
  BY DEF Believed
<1>s. \A s \in {"pending", "uploading", "failed", "done"} : Status(s).status = s
  BY DEF Status, TypeOK, PhoneType, Row
<1>1. CASE DrainBegin \/ BeginUnsaved
  BY <1>0, <1>s, <1>1 DEF DrainBegin, BeginUnsaved, Persist, Believed, NoDrain
<1>2. CASE PrepareFails
  BY <1>0, <1>s, <1>2 DEF PrepareFails, Believed, NoDrain
<1>3. CASE Confirm \/ ConfirmUnsaved
  BY <1>0, <1>3 DEF Confirm, ConfirmUnsaved, Accepted
<1>4. CASE Release \/ DrainEnd \/ EndUnsaved
  BY <1>0, <1>4 DEF Release, DrainEnd, EndUnsaved, EndRound, Believed, NoDrain
<1>5. CASE Unconfirmed \/ TokenRejected
  BY <1>0, <1>s, <1>5 DEF Unconfirmed, TokenRejected, Persist, Believed, NoDrain
<1>12. CASE DrainList \/ DrainSkip \/ RecUnsaved \/ TokenRefused \/ Reconnect
  BY <1>0, <1>12 DEF DrainList, DrainSkip, RecUnsaved, TokenRefused, Reconnect, Believed, NoDrain, NoRec
<1>6. CASE RecSnapshot
  <2>1. rec'.receipt = {} /\ UNCHANGED <<row, saved, receipts, drain>>
    BY <1>0, <1>6 DEF RecSnapshot, NoRec
  <2> QED BY <1>0, <2>1 DEF Believed
<1>7. CASE RecApply
  <2>1. rec'.phase = "idle" /\ UNCHANGED <<receipts, drain>>
    BY <1>0, <1>7 DEF RecApply, NoRec
  <2>2. row'.status # "done" /\ saved'.status # "done"
    BY <1>0, <1>s, <1>7 DEF RecApply, Persist
  <2> QED BY <1>0, <2>1, <2>2 DEF Believed
<1>8. CASE RecRelease
  BY <1>0, <1>8 DEF RecRelease, Believed, NoRec
<1>9. CASE Retry \/ UploadSurviving \/ DeleteCapture
  BY <1>0, <1>s, <1>9 DEF Retry, UploadSurviving, DeleteCapture, Persist, Believed
<1>10. CASE Relaunch
  BY <1>0, <1>10 DEF Relaunch, Believed, NoDrain, NoRec
<1>11. CASE \E m \in Media : LoseMedia(m)
  BY <1>0, <1>11 DEF LoseMedia, Believed
<1> QED BY <1>1, <1>2, <1>3, <1>4, <1>5, <1>6, <1>7, <1>8, <1>9, <1>10, <1>11, <1>12 DEF PhoneAction

LEMMA BelievedWasReported ==
  ASSUME TypeOK, Next, Believed'
  PROVE  Reported
<1>a. Believed => Reported
  BY DEF Believed, Reported
<1>1. CASE PhoneAction
  BY <1>1, <1>a, NothingInvented
<1>2. CASE UNCHANGED phoneVars
  BY <1>2, <1>a DEF phoneVars, Believed
<1>3. ASSUME NEW c \in Conns, Send(c)
      PROVE  Reported
  BY <1>3, <1>a DEF Send, Believed, TypeOK, PhoneType
<1>4. ASSUME NEW c \in Conns, NEW a, TaskEnds(c, a), a.kind # "stored"
      PROVE  Reported
  BY <1>4, <1>a DEF TaskEnds, Believed, TypeOK, PhoneType
<1>5. ASSUME NEW c \in Conns, Hears(c)
      PROVE  Reported
  <2>1. CASE Reply(c) /\ handler[c].answer.kind = "stored"
    BY <2>1 DEF Reply, Reported
  <2>2. CASE UNCHANGED phoneVars
    BY <2>2, <1>2
  <2>3. CASE \E a : TaskEnds(c, a) /\ a.kind # "stored"
    BY <2>3, <1>4
  <2> QED BY <1>5, <2>1, <2>2, <2>3 DEF Hears, Learns, Again, Refused
<1> QED BY Steps, <1>1, <1>2, <1>3, <1>5 DEF clientVars

LEMMA ReportedIsStoredKept ==
  ASSUME TypeOK, OneClient, RowsAgree, Carried, Backed, Held, ReportedIsStored, Next
  PROVE  ReportedIsStored'
<1>1. row'.media \subseteq row.media /\ row.media \subseteq Media
  BY ClientMoves DEF TypeOK, PhoneType, Row
<1>2. CASE Reported
  <2>1. \A m \in Media : OnDoc(m) => OnDoc(m)'
    BY ServerMoves, ServerSafe DEF TypeOK
  <2> QED BY <1>1, <1>2, <2>1 DEF ReportedIsStored
<1>3. ASSUME ~Reported, NEW c \in Conns,
             handler'[c].phase = "reply", handler'[c].answer.kind = "stored"
      PROVE  ReportedIsStored'
  <2>1. handler[c].phase \in Serving /\ doc'.media = handler[c].media
    BY <1>3, HandlerMoves DEF Reported
  <2>2. row'.media \subseteq doc'.media
    BY <1>1, <2>1 DEF Carried
  <2>3. \A x \in Conns : handler'[x].phase \in Putting => row'.media \subseteq handler'[x].media
    BY CarriedKept DEF Carried, Putting, Serving
  <2> QED BY <2>2, <2>3 DEF ReportedIsStored, OnDoc
<1>4. CASE ~Reported'
  BY <1>4 DEF ReportedIsStored
<1> QED BY <1>2, <1>3, <1>4, BelievedWasReported DEF Reported, Believed

-----------------------------------------------------------------------------
(***************************************************************************)
(* Nothing is released before it is stored.                                *)
(***************************************************************************)
\* A step of the phone: what leaves the phone was on the server, lost by the phone, or deleted by
\* the user, and what is about to be released belongs to a reported row.
LEMMA PhoneReleases ==
  ASSUME TypeOK, RowsAgree, PhoneAction, row'.status # "gone", NEW m \in Media
  PROVE  /\ row.status # "gone" /\ lost \subseteq lost'
         /\ m \in row.media \cap evidence =>
              \/ m \in row'.media \cap evidence' \/ m \in lost'
              \/ drain.phase = "releasing" /\ m \in drain.media
              \/ rec.phase = "releasing" /\ m \in rec.media
         /\ drain'.phase = "releasing" /\ m \in drain'.media =>
              \/ drain.phase = "releasing" /\ m \in drain.media
              \/ Reported /\ m \in row.media
         /\ rec'.phase = "releasing" /\ m \in rec'.media =>
              \/ rec.phase = "releasing" /\ m \in rec.media
              \/ Reported /\ m \in row.media
<1>0. row.status # "gone"
  BY PhoneEffects
<1>s. \A s \in {"pending", "uploading", "failed", "done"} : Status(s).media = row.media
  BY DEF Status, TypeOK, PhoneType, Row
<1>1. CASE DrainBegin \/ BeginUnsaved
  BY <1>0, <1>s, <1>1 DEF DrainBegin, BeginUnsaved, Persist, NoDrain
<1>2. CASE PrepareFails \/ Unconfirmed \/ TokenRejected
  BY <1>0, <1>s, <1>2 DEF PrepareFails, Unconfirmed, TokenRejected, Persist, NoDrain
<1>3. CASE Confirm \/ ConfirmUnsaved
  BY <1>0, <1>s, <1>3 DEF Confirm, ConfirmUnsaved, Persist, Accepted, Reported, NoDrain
<1>4. CASE Release \/ DrainEnd \/ EndUnsaved
  BY <1>0, <1>4 DEF Release, DrainEnd, EndUnsaved, EndRound, NoDrain
<1>11. CASE DrainList \/ DrainSkip \/ RecUnsaved \/ TokenRefused \/ Reconnect
  BY <1>0, <1>11 DEF DrainList, DrainSkip, RecUnsaved, TokenRefused, Reconnect, NoDrain, NoRec
<1>5. CASE RecSnapshot
  <2>1. rec'.phase = "seen" /\ UNCHANGED <<row, evidence, lost, drain>>
    BY <1>5 DEF RecSnapshot, NoRec
  <2> QED BY <1>0, <2>1
<1>6. CASE RecApply
  <2>1. UNCHANGED <<evidence, lost, drain>> /\ row'.media = row.media
    BY <1>6, <1>s DEF RecApply, Persist
  <2>2. rec'.phase = "releasing" /\ m \in rec'.media =>
          rec.phase = "seen" /\ rec.receipt # {} /\ m \in row.media
    <3>1. \/ rec' = NoRec
          \/ rec.receipt # {} /\ rec' = [NoRec EXCEPT !.phase = "releasing"]
          \/ rec.receipt # {} /\ rec' = [NoRec EXCEPT !.phase = "releasing", !.media = row.media]
      BY <1>6 DEF RecApply
    <3>2. rec.phase = "seen"
      BY <1>6 DEF RecApply
    <3>3. CASE rec' = NoRec
      BY <3>3 DEF NoRec
    <3>4. CASE rec' = [NoRec EXCEPT !.phase = "releasing"]
      <4>1. rec'.media = {}
        BY <3>4 DEF NoRec
      <4> QED BY <4>1
    <3>5. CASE rec.receipt # {} /\ rec' = [NoRec EXCEPT !.phase = "releasing", !.media = row.media]
      <4>1. rec'.media = row.media
        BY <3>5 DEF NoRec
      <4> QED BY <3>2, <3>5, <4>1
    <3> QED BY <3>1, <3>3, <3>4, <3>5
  <2> QED BY <1>0, <2>1, <2>2 DEF Reported
<1>7. CASE RecRelease
  BY <1>0, <1>7 DEF RecRelease, NoRec
<1>8. CASE Retry \/ UploadSurviving \/ DeleteCapture
  <2>1. /\ UNCHANGED <<evidence, lost, drain, rec>>
        /\ row.media \cap evidence \subseteq row'.media
    BY <1>8, <1>s DEF Retry, UploadSurviving, DeleteCapture, Persist
  <2> QED BY <1>0, <2>1
<1>9. CASE Relaunch
  BY <1>0, <1>9 DEF Relaunch, RowsAgree, NoDrain, NoRec
<1>10. CASE \E x \in Media : LoseMedia(x)
  BY <1>0, <1>10 DEF LoseMedia
<1> QED BY <1>1, <1>2, <1>3, <1>4, <1>5, <1>6, <1>7, <1>8, <1>9, <1>10, <1>11 DEF PhoneAction

LEMMA KeptKept ==
  ASSUME TypeOK, RowsAgree, Backed, Held, ReportedIsStored, Kept, Next
  PROVE  Kept'
<1>a. \A m \in Media : OnDoc(m) => OnDoc(m)'
  BY ServerMoves, ServerSafe DEF TypeOK
<1>1. CASE PhoneAction
  <2> SUFFICES ASSUME row'.status # "gone", NEW m \in Media, m \notin lost'
               PROVE  /\ m \in row'.media \cap evidence' \/ OnDoc(m)'
                      /\ drain'.phase = "releasing" /\ m \in drain'.media => OnDoc(m)'
                      /\ rec'.phase = "releasing" /\ m \in rec'.media => OnDoc(m)'
    BY DEF Kept
  <2>1. row.status # "gone" /\ m \notin lost
    BY <1>1, PhoneReleases
  <2>2. /\ m \in row.media \cap evidence \/ OnDoc(m)
        /\ drain.phase = "releasing" /\ m \in drain.media => OnDoc(m)
        /\ rec.phase = "releasing" /\ m \in rec.media => OnDoc(m)
    BY <2>1 DEF Kept
  <2>3. Reported /\ m \in row.media => OnDoc(m)
    BY DEF ReportedIsStored
  <2> QED BY <1>1, <1>a, <2>2, <2>3, PhoneReleases
<1>2. CASE /\ UNCHANGED <<row, evidence, lost, rec>>
           /\ drain' = drain \/ drain'.phase # "releasing"
  BY <1>2, <1>a DEF Kept
<1>3. ASSUME NEW c \in Conns, Send(c)
      PROVE  Kept'
  <2>1. drain'.phase = "waiting" /\ UNCHANGED <<row, evidence, lost, rec>>
    BY <1>3 DEF Send, TypeOK, PhoneType
  <2> QED BY <2>1, <1>2
<1>4. ASSUME NEW c \in Conns, NEW a, TaskEnds(c, a)
      PROVE  Kept'
  <2>1. drain' = drain \/ drain'.phase = "answered"
    BY <1>4 DEF TaskEnds, TypeOK, PhoneType
  <2> QED BY <2>1, <1>2, <1>4 DEF TaskEnds
<1>5. CASE UNCHANGED phoneVars
  BY <1>5, <1>2 DEF phoneVars
<1>6. ASSUME NEW c \in Conns, Hears(c)
      PROVE  (\E a : TaskEnds(c, a)) \/ UNCHANGED phoneVars
  BY <1>6 DEF Hears, Learns
<1> QED BY Steps, <1>1, <1>3, <1>4, <1>5, <1>6 DEF clientVars

\* The page marks a row done, and lists it for the sweep, after a success only.
LEMMA PageReports ==
  ASSUME TypeOK, OneClient, Backed, Next, ReportedToPage'
  PROVE  \/ ReportedToPage
         \/ \E c \in Conns : /\ item # "none" /\ handler[c].phase \in Serving
                             /\ doc'.media = handler[c].media
<1>1. CASE UNCHANGED webVars
  <2>1. ASSUME NEW c \in Conns, item # "none",
               handler'[c].phase = "reply", handler'[c].answer.kind = "stored"
        PROVE  \/ ReportedToPage
               \/ \E x \in Conns : /\ item # "none" /\ handler[x].phase \in Serving
                                   /\ doc'.media = handler[x].media
    BY <2>1, HandlerMoves DEF ReportedToPage
  <2> QED BY <1>1, <2>1 DEF ReportedToPage, webVars
<1>2. CASE (WebAction \/ \E c \in Conns, d \in Agents : Upload(d, c)) /\ UNCHANGED serverVars
  <2>1. item # "none"
    BY <1>2, PageAtRest
  <2>2. item' \in {"done", "gone"} => ReportedToPage
    BY <1>2 DEF WebAction, RequeueList, TokenCleared, PasteToken, AgentStep, AgentDies, List,
                PatchListed, UploadRejected, DeleteDone, Patch, Upload, ReportedToPage
  <2>3. ASSUME NEW d \in Agents, agent'[d].phase = "delete"
        PROVE  ReportedToPage
    <3>1. ASSUME NEW e \in Agents, NEW p, NEW c, Become(e, p, c), p # "delete"
          PROVE  agent[d].phase = "delete"
      BY <2>3, <3>1 DEF Become, TypeOK, WebType
    <3>2. CASE \E e \in Agents : List(e)
      BY <2>3, <3>2 DEF List, Become, ReportedToPage, TypeOK, WebType
    <3>3. CASE \E e \in Agents, p \in {"requeue", "idle", "waiting"}, c \in Conns \cup {None} : Become(e, p, c)
      BY <3>1, <3>3 DEF ReportedToPage
    <3>4. CASE \E c \in Conns, e \in Agents : Upload(e, c)
      BY <3>3, <3>4 DEF Upload
    <3>5. CASE TokenCleared \/ PasteToken \/ \E e \in Drains : AgentDies(e)
      BY <2>3, <3>5 DEF TokenCleared, PasteToken, AgentDies, NoAgent, ReportedToPage
    <3> QED BY <1>2, <3>2, <3>3, <3>4, <3>5 DEF WebAction, RequeueList, AgentStep, PatchListed,
                                                UploadRejected, DeleteDone, Agents
  <2>4. UNCHANGED handler
    BY <1>2 DEF serverVars
  <2> QED BY <2>1, <2>2, <2>3, <2>4 DEF ReportedToPage
<1>3. CASE ServerStops /\ FetchesBreak
  <2>1. /\ \A d \in Agents : agent'[d].phase = "delete" => agent[d].phase = "delete"
        /\ item' \in {"done", "gone"} => item \in {"done", "gone"}
        /\ \A c \in Conns : handler'[c].phase = "none"
    BY <1>3 DEF ServerStops, FetchesBreak, NoAgent, NoHandler, Patch
  <2> QED BY <2>1 DEF ReportedToPage
<1>4. ASSUME NEW c \in Conns, NEW a, Hears(c), Record(c, a), Reply(c) \/ UNCHANGED serverVars,
             a.kind = "stored" => handler[c].phase = "reply" /\ handler[c].answer.kind = "stored"
      PROVE  ReportedToPage
  <2>1. item # "none"
    BY <1>4, PageAtRest
  <2>2. CASE a.kind = "stored"
    BY <1>4, <2>1, <2>2 DEF ReportedToPage
  <2>3. CASE a.kind # "stored"
    <3>1. item' \in {"done", "gone"} => item = "gone"
      BY <1>4, <2>3 DEF Record, Patch, Outcome
    <3>2. \A d \in Agents : agent'[d].phase = "delete" => agent[d].phase = "delete"
      BY <1>4 DEF Record, Become, TypeOK, WebType
    <3>3. \A x \in Conns : handler'[x] = handler[x] \/ handler'[x].phase = "none"
      BY <1>4 DEF Reply, NoHandler, serverVars, TypeOK, ServerType
    <3> QED BY <2>1, <3>1, <3>2, <3>3 DEF ReportedToPage
  <2> QED BY <2>2, <2>3
<1>5. ASSUME NEW c \in Conns, Hears(c)
      PROVE  ReportedToPage \/ UNCHANGED webVars
  <2>1. CASE Reply(c) /\ Record(c, handler[c].answer)
    BY <1>4, <1>5, <2>1 DEF Reply
  <2>2. CASE (Reply(c) \/ UNCHANGED serverVars) /\ (Record(c, Again) \/ Record(c, Refused))
    <3>1. Again.kind # "stored" /\ Refused.kind # "stored"
      BY DEF Again, Refused
    <3> QED BY <1>4, <1>5, <2>2, <3>1
  <2> QED BY <1>5, <2>1, <2>2 DEF Hears, Learns
<1> QED BY Steps, <1>1, <1>2, <1>3, <1>5 DEF clientVars

LEMMA PageIsStoredKept ==
  ASSUME TypeOK, OneClient, RowsAgree, Backed, Held, PageIsStored, Next
  PROVE  PageIsStored'
<1>1. CASE ReportedToPage
  <2>1. \A m \in Media : OnDoc(m) => OnDoc(m)'
    BY ServerMoves, ServerSafe DEF TypeOK
  <2> QED BY <1>1, <2>1 DEF PageIsStored
<1>2. ASSUME NEW c \in Conns, item # "none", handler[c].phase \in Serving,
             doc'.media = handler[c].media, item' # "none"
      PROVE  PageIsStored'
  <2>1. doc'.media = Media
    BY <1>2 DEF OneClient
  <2>2. \A x \in Conns : handler'[x].phase \in Serving => handler'[x].media = Media
    BY <1>2, OneClientKept DEF OneClient
  <2> QED BY <2>1, <2>2 DEF PageIsStored, OnDoc, Putting, Serving
<1>3. CASE ~ReportedToPage'
  BY <1>3 DEF PageIsStored
<1>4. item' # "none" \/ item = "none" \/ ~ReportedToPage'
  BY OneClientKept, Steps DEF OneClient, ReportedToPage, NoAgent
<1> QED BY <1>1, <1>2, <1>3, <1>4, PageReports

-----------------------------------------------------------------------------
LEMMA InvariantAtStart == Init => IInv
<1> SUFFICES ASSUME Init PROVE IInv
  OBVIOUS
<1>1. /\ \A c \in Conns : handler[c].phase = "none"
      /\ doc.media = files /\ fresh = {}
      /\ live = {} /\ receipts = {} /\ drain.phase = "idle" /\ rec.phase = "idle"
  <2>1. \A c \in Conns : handler[c].phase = "none"
    BY DEF Init, ServerInit, NoHandler
  <2>2. doc.media = files /\ fresh = {}
    BY DEF Init, ServerInit
  <2>3. live = {} /\ receipts = {} /\ drain.phase = "idle" /\ rec.phase = "idle"
    BY DEF Init, PhoneInit, NoDrain, NoRec
  <2> QED BY <2>1, <2>2, <2>3
<1>2. /\ agent = [d \in Agents |-> NoAgent] /\ token /\ saved = row /\ evidence = row.media
      /\ \/ row.status = "pending" /\ row.media = Media /\ item = "none"
         \/ row.status = "gone" /\ row.media = {} /\ item = "pending"
  BY DEF Init, PhoneInit, WebInit
<1>3. \A d \in Agents : agent[d].phase = "idle"
  BY <1>2 DEF NoAgent
<1>4. OneClient /\ RowsAgree
  BY <1>1, <1>2 DEF OneClient, RowsAgree, Serving
<1>5. Carried /\ Backed /\ Held
  BY <1>1 DEF Carried, Backed, Held, Serving, Putting
<1>6. ReportedIsStored /\ Kept
  BY <1>1, <1>2 DEF ReportedIsStored, Reported, Kept
<1>7. PageIsStored
  BY <1>1, <1>2, <1>3 DEF PageIsStored, ReportedToPage
<1> QED BY <1>4, <1>5, <1>6, <1>7, TypesAtStart DEF IInv

LEMMA InvariantKept == IInv /\ [Next]_vars => IInv'
<1> SUFFICES ASSUME IInv, [Next]_vars PROVE IInv'
  OBVIOUS
<1>a. /\ TypeOK /\ OneClient /\ RowsAgree /\ Carried /\ Backed /\ Held
      /\ ReportedIsStored /\ Kept /\ PageIsStored
  BY DEF IInv
<1>b. TypeOK'
  BY <1>a, TypesKept
<1>1. CASE UNCHANGED vars
  <2>1. UNCHANGED <<row, saved, evidence, lost, live, body, receipts, drain, rec, item, token, agent,
                    files, doc, fresh, handler, watcher>>
    BY <1>1 DEF vars, clientVars, phoneVars, webVars, serverVars
  <2>2. OneClient' /\ RowsAgree' /\ Carried' /\ Backed' /\ Held'
    BY <1>a, <2>1 DEF OneClient, RowsAgree, Carried, Backed, Held
  <2>3. ReportedIsStored' /\ Kept' /\ PageIsStored'
    BY <1>a, <2>1 DEF ReportedIsStored, Reported, Kept, PageIsStored, ReportedToPage, OnDoc
  <2> QED BY <1>b, <2>2, <2>3 DEF IInv
<1>2. CASE Next
  <2>1. OneClient' /\ RowsAgree' /\ Carried'
    BY <1>2, <1>a, OneClientKept, ClientMoves, CarriedKept
  <2>2. Backed' /\ Held'
    BY <1>2, <1>a, ServerMoves, ServerSafe DEF TypeOK
  <2>3. ReportedIsStored' /\ Kept' /\ PageIsStored'
    BY <1>2, <1>a, ReportedIsStoredKept, KeptKept, PageIsStoredKept
  <2> QED BY <1>b, <2>1, <2>2, <2>3 DEF IInv
<1> QED BY <1>1, <1>2

\* Whatever fails, restarts or is sent twice, a client has reported, or is about to report, only
\* what the document lists, and gives nothing up before.
THEOREM Invariant == Spec => []IInv
  BY InvariantAtStart, InvariantKept, PTL DEF Spec

\* What the document lists is a file.
LEMMA ListedIsOnServer ==
  ASSUME Backed, NEW m, OnDoc(m)
  PROVE  OnServer(m)
  BY DEF Backed, OnDoc, OnServer

\* The phone deletes a photo or memo, and the page its row, only when the server has the file and
\* its document lists it: evidence the user did not delete and the phone did not lose is on one
\* side or the other.
THEOREM Evidence == Spec => []EvidenceKept
<1>1. IInv => EvidenceKept
  <2> SUFFICES ASSUME IInv PROVE EvidenceKept
    OBVIOUS
  <2>1. ASSUME row.status # "gone", NEW m \in Media
        PROVE  m \in evidence \cup lost \/ OnServer(m)
    BY <2>1, ListedIsOnServer DEF IInv, Kept
  <2>2. ASSUME item = "gone", NEW m \in Media
        PROVE  OnServer(m)
    BY <2>2, ListedIsOnServer DEF IInv, PageIsStored, ReportedToPage
  <2> QED BY <2>1, <2>2 DEF EvidenceKept
<1> QED BY <1>1, Invariant, PTL

\* A capture the store of either client holds as done is on the server, with every medium of it in
\* a file that the document lists, also after submissions that were repeated or overtaken.
THEOREM Synced == Spec => []DoneIsStored
<1>1. IInv => DoneIsStored
  <2> SUFFICES ASSUME IInv PROVE DoneIsStored
    OBVIOUS
  <2>1. ASSUME saved.status = "done", NEW m \in saved.media
        PROVE  OnServer(m)
    <3>1. m \in row.media
      BY <2>1 DEF IInv, RowsAgree
    <3> QED BY <2>1, <3>1, ListedIsOnServer DEF IInv, ReportedIsStored, Reported
  <2>2. ASSUME item = "done", NEW m \in Media
        PROVE  OnServer(m)
    BY <2>2, ListedIsOnServer DEF IInv, PageIsStored, ReportedToPage
  <2> QED BY <2>1, <2>2 DEF DoneIsStored
<1> QED BY <1>1, Invariant, PTL

-----------------------------------------------------------------------------
\* The intake file is rewritten for a strict expansion only.
LEMMA IntakeMoves ==
  ASSUME TypeOK, [Next]_vars, intake # None
  PROVE  intake.media \subseteq intake'.media
<1>1. CASE UNCHANGED intake
  BY <1>1
<1>2. CASE WriteIntake
  <2>1. CASE Expands
    <3>1. intake' = [media |-> watcher.doc.media, noted |-> watcher.doc.noted]
      BY <1>2, <2>1 DEF WriteIntake
    <3> QED BY <2>1, <3>1 DEF Expands
  <2>2. CASE ~Expands
    BY <1>2, <2>2 DEF WriteIntake
  <2> QED BY <2>1, <2>2
<1>3. ASSUME NEW c \in Conns, HandlerAction(c) \/ (\E M : Receive(c, M))
      PROVE  UNCHANGED intake
  BY <1>3 DEF HandlerAction, Receive, Lookup, WriteMedia, GetRev, PutDoc, Reply, CouchFails, Unauthorized
<1>4. CASE WatcherAction
  BY <1>1, <1>2, <1>4 DEF WatcherAction, TakeChange, Claim, MarkProcessing, CopyMedia, CopyFails,
                          Finish, WatcherCouchFails, WatcherStops, WatcherStarts
<1>5. CASE ServerStops \/ UNCHANGED serverVars
  BY <1>1, <1>5 DEF ServerStops, serverVars
<1>6. CASE UNCHANGED vars
  BY <1>1, <1>6 DEF vars, serverVars
<1> QED BY <1>1, <1>3, <1>4, <1>5, <1>6, ServerMoves DEF ServerMove

\* However submissions, repairs and imports of a capture overlap, the intake file of the processing
\* host never loses a medium it had.
THEOREM IntakeGrows == Spec => IntakeKept
<1>1. TypeOK /\ [Next]_vars => [intake # None => intake.media \subseteq intake'.media]_intake
  BY IntakeMoves
<1> QED BY <1>1, TypeCorrect, PTL DEF Spec, IntakeKept
=============================================================================
