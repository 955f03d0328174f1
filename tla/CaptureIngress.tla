---------------------------- MODULE CaptureIngress ----------------------------
(***************************************************************************)
(* The server side of one capture_id: the handler threads of /api/submit   *)
(* (unified_capture), which write the media files and then PUT the         *)
(* field_capture document, and the field-capture CouchDB watcher on the    *)
(* processing host, which claims the pending document, copies the media    *)
(* over ssh and writes the intake file.  Handlers and watcher meet in the  *)
(* document, through compare-and-set on _rev; `fresh' names those whose    *)
(* last read revision is still the current one.                            *)
(***************************************************************************)
EXTENDS CaptureBase

CONSTANTS
  Watcher,   \* the watcher process, as a holder of a revision
  Truncated  \* what an upload cut short may have left of the capture

ASSUME WatcherAssumption == Watcher \notin Conns

ASSUME TruncatedAssumption == Truncated \subseteq SUBSET Media

VARIABLES
  files,    \* media files under upload_dir
  doc,      \* the field_capture document
  fresh,    \* who holds its current revision
  handler,  \* the handler threads
  feed,     \* the watcher has a change of the document to take
  watcher,  \* the watcher's run_change_worker
  local,    \* the processing host's copy of each media file
  intake    \* the intake file

serverVars == <<files, doc, fresh, handler, feed, watcher, local, intake>>

DocStates == {"none", "pending", "claimed", "processing", "complete", "failed"}

\* `noted': the note records a media loss.  `repaired': ingest_repairs is not empty.
Doc == [state : DocStates, media : SUBSET Media, noted : BOOLEAN, repaired : BOOLEAN]
NoDoc == [state |-> "none", media |-> {}, noted |-> FALSE, repaired |-> FALSE]
Intake == [media : SUBSET Media, noted : BOOLEAN]

NoHandler == [phase |-> "none", media |-> {}, put |-> NoDoc, todo |-> {}, attempt |-> 1,
              answer |-> Again]
NoWork == [phase |-> "idle", doc |-> NoDoc, todo |-> {}, had |-> FALSE]

ServerType ==
  /\ files \subseteq Media /\ doc \in Doc /\ fresh \subseteq Conns \cup {Watcher}
  /\ handler \in [Conns -> [phase : {"none", "lookup", "write", "rev", "put", "reply"},
                            media : SUBSET Media, put : Doc, todo : SUBSET Media,
                            attempt : {1, 2}, answer : Answers]]
  /\ feed \in BOOLEAN
  /\ watcher \in [phase : {"down", "idle", "claim", "mark", "copy", "complete", "fail"},
                  doc : Doc, todo : SUBSET Media, had : BOOLEAN]
  /\ local \in [Media -> {"absent", "part", "whole"}]
  /\ intake \in Intake \cup {None}

\* No document, or the partial one of an upload cut short before read_complete_body refused
\* those, imported or not.
ServerInit ==
  /\ \/ doc = NoDoc /\ intake = None
     \/ \E P \in Truncated, s \in {"pending", "complete"} :
          /\ doc = [NoDoc EXCEPT !.state = s, !.media = P]
          /\ intake = IF s = "complete" THEN [media |-> P, noted |-> FALSE] ELSE None
  /\ files = doc.media
  /\ local = [m \in Media |-> IF intake # None /\ m \in doc.media THEN "whole" ELSE "absent"]
  /\ fresh = {} /\ feed = (doc.state = "pending")
  /\ handler = [c \in Conns |-> NoHandler]
  /\ watcher = NoWork

\* A PUT under a current revision: every other holder's revision is now an old one.
Write(d, holders) ==
  /\ doc' = d
  /\ fresh' = holders
  /\ feed' = (feed \/ d.state = "pending")

-----------------------------------------------------------------------------
(***************************************************************************)
(* handle_submit.                                                          *)
(***************************************************************************)
Receive(c, M) ==
  /\ handler[c].phase = "none"
  /\ handler' = [handler EXCEPT ![c].phase = "lookup", ![c].media = M]
  /\ UNCHANGED <<files, doc, fresh, feed, watcher, local, intake>>

Answer(c, a) ==
  handler' = [handler EXCEPT ![c] = [NoHandler EXCEPT !.phase = "reply", !.answer = a]]

\* The document to PUT and the files still to write are settled; media comes first.
Prepared(c, d, todo) ==
  handler' = [handler EXCEPT ![c].phase = "write", ![c].put = d, ![c].todo = todo]

\* build_submit_document: a capture that lost media says so in its note.
NewDoc(M) == [state |-> "pending", media |-> M, noted |-> M # Media, repaired |-> FALSE]

\* Mutant of Repair: the repaired document keeps the media it had.
RepairStateOnly(d, M) == [d EXCEPT !.state = "pending", !.repaired = TRUE]

\* prepare_idempotent_retry: the existing document, with the complete media, pending again.
Repair(d, M) == [d EXCEPT !.state = "pending", !.media = M, !.repaired = TRUE]

\* Mutant of IsReplay: a document with less media than submitted is taken for the same.
IsReplayIfKnown(M) == doc.media \subseteq M

IsReplay(M) == doc.media = M

\* lookup_existing_capture, then a new document, a conflict, a replay (answered with what the
\* document counts) or a repair.
Lookup(c) ==
  LET M == handler[c].media IN
  /\ handler[c].phase = "lookup"
  /\ \/ doc = NoDoc /\ Prepared(c, NewDoc(M), M)
     \/ doc # NoDoc /\ ~(doc.media \subseteq M) /\ Answer(c, Refused)
     \/ doc # NoDoc /\ IsReplay(M) /\ Answer(c, Stored(doc.media))
     \/ doc # NoDoc /\ doc.media \subseteq M /\ ~IsReplay(M)
        /\ Prepared(c, Repair(doc, M), M \ doc.media)
  /\ UNCHANGED <<files, doc, fresh, feed, watcher, local, intake>>

\* write_capture_media: the files, each replaced atomically, before the document.
WriteMedia(c) ==
  /\ handler[c].phase = "write"
  /\ files' = files \cup handler[c].todo
  /\ handler' = [handler EXCEPT ![c].phase = "rev", ![c].todo = {}]
  /\ UNCHANGED <<doc, fresh, feed, watcher, local, intake>>

\* put_field_capture_document: fetch the current _rev, whatever has happened since the lookup,
GetRev(c) ==
  /\ handler[c].phase = "rev"
  /\ handler' = [handler EXCEPT ![c].phase = "put"]
  /\ fresh' = fresh \cup {c}
  /\ UNCHANGED <<files, doc, feed, watcher, local, intake>>

\* Mutant of Conflict: the PUT is tried until it gets through.
ConflictForever(c) ==
  handler' = [handler EXCEPT ![c].phase = "rev", ![c].attempt = handler[c].attempt + 1]

\* The first conflict is tried again, the second is an error.
Conflict(c) ==
  IF handler[c].attempt = 1
    THEN handler' = [handler EXCEPT ![c].phase = "rev", ![c].attempt = 2]
    ELSE Answer(c, Again)

\* and PUT the whole document with it, fetching it once again after a conflict.
PutDoc(c) ==
  /\ handler[c].phase = "put"
  /\ \/ /\ c \in fresh
        /\ Write(handler[c].put, {})
        /\ Answer(c, Stored(handler[c].media))
     \/ /\ c \notin fresh
        /\ Conflict(c)
        /\ UNCHANGED <<doc, fresh, feed>>
  /\ UNCHANGED <<files, watcher, local, intake>>

\* The answer is on its way, or nobody waits for it any more.
Reply(c) ==
  /\ handler[c].phase = "reply"
  /\ handler' = [handler EXCEPT ![c] = NoHandler]
  /\ UNCHANGED <<files, doc, fresh, feed, watcher, local, intake>>

\* CouchDB cannot be reached: 503, though a PUT may have been applied.
CouchFails(c) ==
  /\ handler[c].phase \in {"lookup", "rev", "put"}
  /\ Answer(c, Again)
  /\ \/ handler[c].phase = "put" /\ c \in fresh /\ Write(handler[c].put, {})
     \/ fresh' = fresh \ {c} /\ UNCHANGED <<doc, feed>>
  /\ UNCHANGED <<files, watcher, local, intake>>

\* The token is missing or not accepted, 401, or it may not submit this, 403.
Unauthorized(c) ==
  /\ handler[c].phase = "lookup"
  /\ Answer(c, AuthLost) \/ Answer(c, Refused)
  /\ UNCHANGED <<files, doc, fresh, feed, watcher, local, intake>>

\* The server process ends: its threads are gone, with the requests they served.
ServerStops ==
  /\ handler' = [c \in Conns |-> NoHandler]
  /\ fresh' = fresh \ Conns
  /\ UNCHANGED <<files, doc, feed, watcher, local, intake>>

-----------------------------------------------------------------------------
(***************************************************************************)
(* The watcher: run_change_worker around import_couchdb_capture.           *)
(***************************************************************************)
AtWork(phase) ==
  watcher' = [(IF phase \in {"idle", "down"} THEN NoWork ELSE watcher) EXCEPT !.phase = phase]

\* listen: take a change and read the document.
TakeChange ==
  /\ watcher.phase = "idle" /\ feed
  /\ feed' = FALSE
  /\ IF doc.state = "pending"
       THEN /\ watcher' = [NoWork EXCEPT !.phase = "claim", !.doc = doc]
            /\ fresh' = fresh \cup {Watcher}
       ELSE UNCHANGED <<watcher, fresh>>
  /\ UNCHANGED <<files, doc, handler, local, intake>>

\* The state each step of the watcher writes.
Target == [claim |-> "claimed", mark |-> "processing", complete |-> "complete", fail |-> "failed"]

\* A state change under the revision in hand; the document it writes is the one it read.
Advance(phase, onConflict) ==
  IF Watcher \in fresh
    THEN /\ Write([watcher.doc EXCEPT !.state = Target[watcher.phase]], {Watcher})
         /\ AtWork(phase)
    ELSE /\ AtWork(onConflict)
         /\ UNCHANGED <<doc, fresh, feed>>

Claim ==
  /\ watcher.phase = "claim"
  /\ Advance("mark", "idle")
  /\ UNCHANGED <<files, handler, local, intake>>

\* mark_processing: a conflict lasts through every attempt, and the document is left.
MarkProcessing ==
  /\ watcher.phase = "mark"
  /\ IF Watcher \in fresh
       THEN /\ Write([watcher.doc EXCEPT !.state = "processing"], {Watcher})
            /\ watcher' = [watcher EXCEPT !.phase = "copy", !.todo = watcher.doc.media,
                                          !.had = intake # None]
       ELSE /\ AtWork("idle")
            /\ UNCHANGED <<doc, fresh, feed>>
  /\ UNCHANGED <<files, handler, local, intake>>

\* Mutant of Trusted: a file that is there is the file.
TrustedIfThere(m) == local[m] # "absent"

\* A file that is there is trusted when an intake file exists, and otherwise must have the
\* remote size.
Trusted(m) == local[m] # "absent" /\ (watcher.had \/ local[m] = "whole")

\* The copies are made one after the other, in the order of the document.
NextFile == IF watcher.todo = {} THEN {} ELSE {CHOOSE m \in watcher.todo : TRUE}

CopyMedia == \E m \in NextFile :
  /\ watcher.phase = "copy"
  /\ \/ /\ Trusted(m) \/ (local[m] = "absent" /\ m \in files)
        /\ local' = [local EXCEPT ![m] = IF Trusted(m) THEN local[m] ELSE "whole"]
        /\ watcher' = [watcher EXCEPT !.todo = watcher.todo \ {m}]
     \/ /\ ~Trusted(m) /\ (local[m] # "absent" \/ m \notin files)
        /\ AtWork("fail")
        /\ UNCHANGED local
  /\ UNCHANGED <<files, doc, fresh, handler, feed, intake>>

\* ssh or scp ends with an error; scp with or without a partial file in place.
CopyFails == \E m \in NextFile :
  /\ watcher.phase = "copy"
  /\ \/ local[m] = "absent" /\ local' = [local EXCEPT ![m] = "part"]
     \/ (local[m] = "absent" \/ ~watcher.had) /\ UNCHANGED local
  /\ AtWork("fail")
  /\ UNCHANGED <<files, doc, fresh, handler, feed, intake>>

\* Mutant of Expands: any other media.
ExpandsIfOther == intake.media # watcher.doc.media

\* is_safe_intake_media_expansion: the same job with strictly more media.
Expands == /\ intake.noted = watcher.doc.noted
           /\ intake.media \subseteq watcher.doc.media /\ intake.media # watcher.doc.media

\* The intake file is written, refreshed for an expansion, or kept.
WriteIntake ==
  /\ watcher.phase = "copy" /\ watcher.todo = {}
  /\ IF intake = None \/ Expands
       THEN intake' = [media |-> watcher.doc.media, noted |-> watcher.doc.noted]
       ELSE UNCHANGED intake
  /\ AtWork("complete")
  /\ UNCHANGED <<files, doc, fresh, handler, feed, local>>

\* mark_complete or mark_failed: a conflict ends the worker.
Finish ==
  /\ watcher.phase \in {"complete", "fail"}
  /\ Advance("idle", "down")
  /\ UNCHANGED <<files, handler, local, intake>>

\* A request fails, applied or not: after the claim the change is not taken again, after
\* mark_processing the document is left, after the last update the worker ends.
WatcherCouchFails ==
  /\ watcher.phase \in DOMAIN Target
  /\ AtWork(IF watcher.phase \in {"claim", "mark"} THEN "idle" ELSE "down")
  /\ \/ UNCHANGED <<doc, fresh, feed>>
     \/ Watcher \in fresh /\ Write([watcher.doc EXCEPT !.state = Target[watcher.phase]], {})
  /\ UNCHANGED <<files, handler, local, intake>>

\* The watcher dies, in the middle of a copy perhaps.
WatcherStops ==
  /\ watcher.phase # "down"
  /\ AtWork("down")
  /\ \/ UNCHANGED local
     \/ /\ watcher.phase = "copy"
        /\ \E m \in NextFile : local[m] = "absent" /\ local' = [local EXCEPT ![m] = "part"]
  /\ UNCHANGED <<files, doc, fresh, handler, feed, intake>>

\* It is started again and reads the changes from the beginning.
WatcherStarts ==
  /\ watcher.phase = "down"
  /\ watcher' = NoWork
  /\ fresh' = fresh \ {Watcher}
  /\ feed' = (doc.state = "pending")
  /\ UNCHANGED <<files, doc, handler, local, intake>>
=============================================================================
