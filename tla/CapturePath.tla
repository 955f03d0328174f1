------------------------------ MODULE CapturePath ------------------------------
(***************************************************************************)
(* The whole way of a field capture: saved in the field app (CaptureUpload)*)
(* or on the web page (CaptureWeb), and from there the server, its document*)
(* and the watcher (CaptureIngress), joined by requests and answers that   *)
(* the network may lose.  A request whose client gave up is still served,  *)
(* so that submissions of one capture overlap.                             *)
(***************************************************************************)
EXTENDS CaptureUpload, CaptureWeb, CaptureIngress

CONSTANTS
  MaxDrops,  \* bound: requests and answers the network loses
  MaxFaults, \* bound: failures of CouchDB, of ssh, of files and of processes
  MaxOfPage, \* bound: drops and faults together, for a capture of the page
  MaxOfCut   \* bound: the same, where an earlier upload of it was cut short

ASSUME FaultAssumption ==
  MaxDrops \in Nat /\ MaxFaults \in Nat /\ MaxOfPage \in Nat /\ MaxOfCut \in Nat

VARIABLES drops, faults

clientVars == <<phoneVars, webVars>>
vars == <<clientVars, serverVars, drops, faults>>

\* The capture has just been saved, in one client.
Init ==
  /\ \/ PhoneInit(TRUE) /\ WebInit("none")
     \/ PhoneInit(FALSE) /\ WebInit("pending")
  /\ ServerInit /\ drops = 0 /\ faults = 0

Phone(A) == A /\ UNCHANGED <<webVars, serverVars, drops, faults>>
Web(A) == A /\ UNCHANGED <<phoneVars, serverVars, drops, faults>>
Server(A) == A /\ UNCHANGED <<clientVars, drops, faults>>
CutShort == doc.media \in Truncated \/ doc.repaired
MayFail == item # "none" => drops + faults < IF CutShort THEN MaxOfCut ELSE MaxOfPage
Drop == MayFail /\ drops < MaxDrops /\ drops' = drops + 1 /\ UNCHANGED faults
Fault == MayFail /\ faults < MaxFaults /\ faults' = faults + 1 /\ UNCHANGED drops

\* A request is started on a connection whose last one has been served, any one of them.
Free(c) == handler[c].phase = "none" /\ c \notin live \cup Fetching
Chosen(c) == Free(c) /\ c = CHOOSE x \in Conns : Free(x)
Submit(c) == Chosen(c) /\ (Phone(Send(c)) \/ Web(Upload("page", c)))
WorkerSubmits(c) == Chosen(c) /\ Web(Upload("worker", c))

\* The request reaches a handler thread.
Arrive(c) == \/ c \in live /\ Server(Receive(c, body[c]))
             \/ c \in Fetching /\ Server(Receive(c, Media))

\* The client learns how its request ended.
Learns(c, a) == \/ TaskEnds(c, a) /\ UNCHANGED webVars
                \/ Record(c, a) /\ UNCHANGED phoneVars

Deliver(c) == Reply(c) /\ Learns(c, handler[c].answer) /\ UNCHANGED <<drops, faults>>

\* The client is gone: the answer goes nowhere.
Unheard(c) == c \notin live \cup Fetching /\ Server(Reply(c))

\* The connection breaks, before the request arrived or while it is served; or the answer is
\* lost; or the app's task is cancelled.
Disconnect(c) == /\ Drop /\ handler[c].phase # "reply"
                 /\ Learns(c, Again) \/ (c \in live /\ Learns(c, Refused))
                 /\ UNCHANGED serverVars
LoseAnswer(c) == Drop /\ Reply(c) /\ Learns(c, Again)

DrainStep == Phone(DrainList \/ DrainSkip \/ DrainBegin \/ PrepareFails \/ Confirm \/ Release
                   \/ TokenRejected \/ Unconfirmed \/ DrainEnd)
RecStep == Phone(RecSnapshot \/ RecApply \/ RecRelease)
UserStep == Phone(Retry \/ UploadSurviving \/ DeleteCapture)
PhoneFault == /\ Fault /\ item = "none" /\ UNCHANGED <<webVars, serverVars>>
              /\ \/ BeginUnsaved \/ ConfirmUnsaved \/ EndUnsaved \/ RecUnsaved \/ TokenRefused
                 \/ Relaunch \/ \E m \in Media : LoseMedia(m)

PageStep == Web(AgentStep("page") \/ AgentStep("retry"))
WorkerStep == Web(AgentStep("worker"))
WebUser == Web(RequeueList)
WebFault == /\ Fault /\ UNCHANGED <<phoneVars, serverVars>>
            /\ TokenCleared \/ \E d \in Drains : AgentDies(d)

\* A client that lost its token is given one.
NewToken == Phone(Reconnect) \/ Web(PasteToken)

HandlerStep(c) == Server(Lookup(c) \/ GetRev(c) \/ PutDoc(c) \/ WriteMedia(c))
WatcherStep == Server(TakeChange \/ Claim \/ MarkProcessing \/ WriteIntake \/ Finish
                      \/ WatcherStarts \/ CopyMedia)
ServerFault == /\ Fault /\ UNCHANGED phoneVars
               /\ \/ UNCHANGED webVars
                     /\ \/ \E c \in Conns : CouchFails(c) \/ Unauthorized(c)
                        \/ WatcherCouchFails \/ WatcherStops \/ CopyFails
                  \/ ServerStops /\ FetchesBreak

\* A token one request was refused for is refused for the others.
TurnAway(c) == ~(connected /\ token) /\ Server(Unauthorized(c))

Transfer(c) == Arrive(c) \/ Deliver(c) \/ Unheard(c) \/ HandlerStep(c) \/ TurnAway(c)

Next ==
  \/ DrainStep \/ RecStep \/ UserStep \/ PhoneFault
  \/ PageStep \/ WorkerStep \/ WebUser \/ WebFault \/ NewToken
  \/ \E c \in Conns : Submit(c) \/ WorkerSubmits(c) \/ Transfer(c) \/ Disconnect(c) \/ LoseAnswer(c)
  \/ WatcherStep \/ ServerFault

(***************************************************************************)
(* Fairness: drains with a token, transfers and the server go on; the app  *)
(* is brought to the foreground again and again, which is when it          *)
(* reconciles, and the page is opened again and again, which is when it    *)
(* drains.  A 401 takes the token, and no drain of the client begins until *)
(* it has another: that the user gives it one (UserReconnects) is assumed, *)
(* the code can only ask.  Nothing else is assumed of the user, nothing of *)
(* the service worker, of the import's watcher or of any failure.          *)
(***************************************************************************)
UserReconnects == WF_vars(NewToken)

Fairness ==
  /\ WF_vars(DrainStep \/ PageStep \/ \E c \in Conns : Submit(c) \/ Transfer(c))
  /\ WF_vars(RecStep)
  /\ UserReconnects

Spec == Init /\ [][Next]_vars /\ Fairness

-----------------------------------------------------------------------------
TypeOK == /\ PhoneType /\ WebType /\ ServerType
          /\ drops \in 0 .. MaxDrops /\ faults \in 0 .. MaxFaults

OnServer(m) == m \in files /\ m \in doc.media

\* Evidence is not lost on the way: a photo or memo the user did not delete, and the phone did
\* not lose by itself, is on the phone (or in the page's row) or on the server, in a file its
\* document lists, whatever fails, restarts or is sent twice.
EvidenceKept ==
  /\ row.status # "gone" => \A m \in Media : m \in evidence \cup lost \/ OnServer(m)
  /\ item = "gone" => \A m \in Media : OnServer(m)

\* "Synced" is true: what a capture done in the client's store consists of is on the server.
DoneIsStored ==
  /\ saved.status = "done" => \A m \in saved.media : OnServer(m)
  /\ item = "done" => \A m \in Media : OnServer(m)

\* A complete capture is there to be processed: all the media its document lists, but for what
\* the phone lost meanwhile, is in the intake, and whole on the processing host unless the
\* document was repaired.
CompleteIsImported ==
  doc.state = "complete" =>
    \A m \in doc.media \ lost : /\ m \in intake.media
                                /\ doc.repaired \/ local[m] = "whole"

\* What has been imported stays imported: whatever revision of the document is imported later, the
\* intake file never loses media that an event or a job may already refer to.
IntakeKept == [][intake # None => intake.media \subseteq intake'.media]_intake

Unsettled == row.status \in {"pending", "uploading"} \/ item \in {"pending", "uploading"}

\* A capture that waits or uploads comes to an end the user sees: done, failed or deleted; after
\* a 401, once the client has a token again.
Settles == Unsettled ~> ~Unsettled
=============================================================================
