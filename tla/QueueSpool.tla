----------------------------- MODULE QueueSpool ------------------------------
(***************************************************************************)
(* The durable file processor: process_all and process_job of               *)
(* queue_processor/main.py, draining the spool directory queue/ into        *)
(* processed/ or failed/ while the handlers apply the jobs to btq_vault.    *)
(*                                                                          *)
(* Every durable effect (a canonical write, a file move, an index append)   *)
(* is a step of its own, and a processor may crash between any two.  A      *)
(* canonical write is atomic here: CanonicalRMW shows that it is.           *)
(***************************************************************************)
EXTENDS Naturals, FiniteSets

CONSTANTS
    Proc,          \* processors: the daemon, the command line
    Base,          \* file names jobs are enqueued under
    Job,           \* job ids, one per (job_type, payload)
    Parts,         \* Parts[j]: how many canonical documents job j writes
    Unkeyed,       \* add_person jobs that carry no idempotency key
    None,          \* no file
    Bad,           \* the content of a file load_job rejects
    MaxPuts,       \* bound: files enqueued or requeued
    MaxCrashes     \* bound: processor crashes

ASSUME PartsAssumption == Parts \in [Job -> Nat \ {0}]
ASSUME UnkeyedAssumption == Unkeyed \subseteq Job
ASSUME ValuesAssumption == None \notin Job /\ Bad \notin Job /\ None # Bad
ASSUME BoundsAssumption == MaxPuts \in Nat /\ MaxCrashes \in Nat

\* A name, and the name _revision_queue_job_path derives from it by adding a
\* digest of the file's content.
Name == Base \X (Job \cup {None})
Original(b) == <<b, None>>
Revised(n, j) == <<n[1], j>>

Content == Job \cup {Bad}

VARIABLES
    queue, processed, failed,   \* the three directories: name -> content
    index,       \* job ids in processed_index.jsonl
    times,       \* times[j][i]: how often part i of job j was applied
    pc,          \* pc[p]: where processor p is in process_all / process_job
    todo,        \* todo[p]: names of the pass's snapshot not yet taken
    known,       \* known[p]: the pass's ProcessedJobIdLookup
    file,        \* file[p]: the name being processed
    job,         \* job[p]: the job loaded from it, or None
    part,        \* part[p]: the part of the job the handler is at
    puts, crashes,              \* counters of the bounds
    accepted     \* history: every job that was ever put in the queue

dirs == <<queue, processed, failed>>
locals == <<pc, todo, known, file, job, part>>
ghosts == <<puts, crashes, accepted>>
vars == <<dirs, index, times, locals, ghosts>>

States == {"idle", "next", "load", "handle", "apply", "evidence", "move",
           "finish", "archive", "append", "fail",
           "unknowns"}   \* the last part of a pass, in UnknownCaptures

TypeOK ==
    /\ queue \in [Name -> Content \cup {None}]
    /\ processed \in [Name -> Job \cup {None}]
    /\ failed \in [Name -> Content \cup {None}]
    /\ index \subseteq Job
    /\ DOMAIN times = Job /\ \A j \in Job : times[j] \in [1 .. Parts[j] -> Nat]
    /\ pc \in [Proc -> States]
    /\ todo \in [Proc -> SUBSET Name]
    /\ known \in [Proc -> SUBSET Job]
    /\ file \in [Proc -> Name \cup {None}]
    /\ job \in [Proc -> Job \cup {None}]
    /\ part \in [Proc -> Nat]
    /\ puts \in 0 .. MaxPuts /\ crashes \in 0 .. MaxCrashes
    /\ accepted \subseteq Job

Empty == [n \in Name |-> None]

Init ==
    /\ queue = Empty /\ processed = Empty /\ failed = Empty
    /\ index = {}
    /\ times = [j \in Job |-> [i \in 1 .. Parts[j] |-> 0]]
    /\ pc = [p \in Proc |-> "idle"]
    /\ todo = [p \in Proc |-> {}]
    /\ known = [p \in Proc |-> {}]
    /\ file = [p \in Proc |-> None]
    /\ job = [p \in Proc |-> None]
    /\ part = [p \in Proc |-> 0]
    /\ puts = 0 /\ crashes = 0 /\ accepted = {}

Contents(dir) == {dir[n] : n \in Name} \ {None}

\* job_id_applied_doc_id(): some canonical document carries the job's marker.
Marked(j) == \E i \in 1 .. Parts[j] : times[j][i] > 0

Complete(j) == \A i \in 1 .. Parts[j] : times[j][i] > 0

(***************************************************************************)
(* Producers                                                                *)
(***************************************************************************)
\* A producer (the Couch materializer, the event router, the unknowns pass)
\* puts a job file in the spool; it never overwrites one.
Enqueue(b, c) ==
    /\ puts < MaxPuts /\ queue[Original(b)] = None
    /\ queue' = [queue EXCEPT ![Original(b)] = c]
    /\ puts' = puts + 1
    /\ accepted' = accepted \cup ({c} \cap Job)
    /\ UNCHANGED <<processed, failed, index, times, locals, crashes>>

\* An operator puts a failed job back (failed jobs are requeued by hand).
Requeue(n) ==
    /\ puts < MaxPuts /\ failed[n] # None /\ queue[n] = None
    /\ queue' = [queue EXCEPT ![n] = failed[n]]
    /\ failed' = [failed EXCEPT ![n] = None]
    /\ puts' = puts + 1
    /\ UNCHANGED <<processed, index, times, locals, crashes, accepted>>

(***************************************************************************)
(* process_all                                                              *)
(***************************************************************************)
Goto(p, label) == pc' = [pc EXCEPT ![p] = label]

\* Mutant of LockFree: a pass begins without the lock.
LockIgnored == TRUE

\* processor.lock keeps every other processor out of a pass.
LockFree == \A q \in Proc : pc[q] = "idle"

\* The lock is acquired; the directory listing and the processed-job lookup
\* are taken once for the whole pass.
BeginPass(p) ==
    /\ pc[p] = "idle"
    /\ LockFree
    /\ \E n \in Name : queue[n] # None
    /\ todo' = [todo EXCEPT ![p] = {n \in Name : queue[n] # None}]
    /\ known' = [known EXCEPT ![p] = index \cup Contents(processed)]
    /\ Goto(p, "next")
    /\ UNCHANGED <<dirs, index, times, file, job, part, ghosts>>

TakeNext(p) ==
    /\ pc[p] = "next"
    /\ \E n \in todo[p] :
          /\ file' = [file EXCEPT ![p] = n]
          /\ todo' = [todo EXCEPT ![p] = @ \ {n}]
    /\ job' = [job EXCEPT ![p] = None]
    /\ part' = [part EXCEPT ![p] = 0]
    /\ Goto(p, "load")
    /\ UNCHANGED <<dirs, index, times, known, ghosts>>

EndPass(p) ==
    /\ pc[p] = "next" /\ todo[p] = {}
    /\ file' = [file EXCEPT ![p] = None]
    /\ job' = [job EXCEPT ![p] = None]
    /\ part' = [part EXCEPT ![p] = 0]
    /\ known' = [known EXCEPT ![p] = {}]
    /\ Goto(p, "idle")
    /\ UNCHANGED <<dirs, index, times, todo, ghosts>>

(***************************************************************************)
(* process_job: load, dedupe, revise                                        *)
(***************************************************************************)
\* The job is a known one, and its type does not bypass the check.
Duplicate(p, j) == j \in known[p] /\ j \notin Unkeyed

\* _job_has_applied_marker(): an unreachable store counts as "not applied".
SeesMarker(j) == {Marked(j), FALSE}

\* Mutant of Loads: load_job does not validate what it parsed.
LoadsAnything(n) == queue[n] # None

\* load_job() accepts the file.
Loads(n) == queue[n] \in Job

\* load_job, then the three ways a job is recognised as handled before; a
\* revised job under an archived name is renamed first.
LoadJob(p) ==
    LET n == file[p] IN
    /\ pc[p] = "load"
    /\ IF ~ Loads(n)
       THEN /\ Goto(p, "fail")
            /\ UNCHANGED <<queue, file, job>>
       ELSE LET j == queue[n] IN
            /\ job' = [job EXCEPT ![p] = j]
            /\ \/ /\ Duplicate(p, j) \/ processed[n] = j
                  /\ Goto(p, "archive")
                  /\ UNCHANGED <<queue, file>>
               \/ /\ ~ Duplicate(p, j) /\ processed[n] = None
                  /\ Goto(p, "handle")
                  /\ UNCHANGED <<queue, file>>
               \/ /\ ~ Duplicate(p, j) /\ processed[n] \notin {j, None}
                  /\ \E marked \in SeesMarker(j) :
                        IF marked
                        THEN Goto(p, "archive") /\ UNCHANGED <<queue, file>>
                        ELSE /\ Goto(p, "handle")
                             /\ queue' = [queue EXCEPT ![n] = None,
                                                       ![Revised(n, j)] = j]
                             /\ file' = [file EXCEPT ![p] = Revised(n, j)]
    /\ UNCHANGED <<processed, failed, index, times, todo, known, part, ghosts>>

(***************************************************************************)
(* The handler                                                              *)
(***************************************************************************)
\* Its guard on the archive name, and add_person's duplicate-person check.
Handle(p) ==
    /\ pc[p] = "handle"
    /\ IF processed[file[p]] # None \/ (job[p] \in Unkeyed /\ Marked(job[p]))
       THEN Goto(p, "fail") /\ UNCHANGED part
       ELSE Goto(p, "apply") /\ part' = [part EXCEPT ![p] = 1]
    /\ UNCHANGED <<dirs, index, times, todo, known, file, job, ghosts>>

\* The target carries the job's marker.  add_person upserts its document
\* without looking for one.
Skips(j, i) == times[j][i] > 0 /\ j \notin Unkeyed

\* apply_canonical_rmw on one target: already marked, or written now.  The
\* last target decides between the skip and the evidence snapshot.
Apply(p) ==
    LET j == job[p]
        i == part[p]
        skip == Skips(j, i)
    IN
    /\ pc[p] = "apply"
    /\ times' = IF skip THEN times ELSE [times EXCEPT ![j][i] = @ + 1]
    /\ IF i < Parts[j]
       THEN part' = [part EXCEPT ![p] = i + 1] /\ UNCHANGED pc
       ELSE Goto(p, IF skip THEN "move" ELSE "evidence") /\ UNCHANGED part
    /\ UNCHANGED <<dirs, index, todo, known, file, job, ghosts>>

\* Mutant of ApplyFails: the handler swallows the error of its write.
ApplyFailureSwallowed(p) ==
    /\ pc[p] = "apply"
    /\ Goto(p, "move")
    /\ UNCHANGED <<dirs, index, times, todo, known, file, job, part, ghosts>>

\* The handler raises: before the write, or after one whose answer was lost.
ApplyFails(p) ==
    LET j == job[p]
        i == part[p]
    IN
    /\ pc[p] = "apply"
    /\ \/ UNCHANGED times
       \/ times[j][i] = 0 /\ times' = [times EXCEPT ![j][i] = 1]
    /\ Goto(p, "fail")
    /\ UNCHANGED <<dirs, index, todo, known, file, job, part, ghosts>>

\* write_mutation_evidence() succeeds or raises.
WriteEvidence(p) ==
    /\ pc[p] = "evidence"
    /\ Goto(p, "move") \/ Goto(p, "fail")
    /\ UNCHANGED <<dirs, index, times, todo, known, file, job, part, ghosts>>

\* move_job_file(job_path, processed_dir)
MoveToProcessed(p) ==
    LET n == file[p] IN
    /\ pc[p] = "move"
    /\ IF processed[n] = None /\ queue[n] \in Job
       THEN /\ processed' = [processed EXCEPT ![n] = queue[n]]
            /\ queue' = [queue EXCEPT ![n] = None]
            /\ Goto(p, "finish")
       ELSE Goto(p, "fail") /\ UNCHANGED <<processed, queue>>
    /\ UNCHANGED <<failed, index, times, todo, known, file, job, part, ghosts>>

\* The lookup learns of the job; append_processed_index_record() swallows its
\* own errors.
AppendIndex(p) ==
    /\ index' = index \cup {job[p]} \/ UNCHANGED index
    /\ known' = [known EXCEPT ![p] = @ \cup {job[p]}]
    /\ Goto(p, "next")
    /\ UNCHANGED <<dirs, times, todo, file, job, part, ghosts>>

Finish(p) ==
    /\ pc[p] = "finish"
    /\ AppendIndex(p)

(***************************************************************************)
(* _archive_job_file                                                        *)
(***************************************************************************)
\* Mutant of ArchiveHandled: the archive move replaces a file of that name.
ArchiveReplaces(p) ==
    LET n == file[p] IN
    /\ pc[p] = "archive"
    /\ processed' = [processed EXCEPT ![n] = queue[n]]
    /\ queue' = [queue EXCEPT ![n] = None]
    /\ Goto(p, "append")
    /\ UNCHANGED <<failed, index, times, todo, known, file, job, part, ghosts>>

\* A job handled before goes to processed/; if its name is taken there the
\* source is removed.
ArchiveHandled(p) ==
    LET n == file[p] IN
    /\ pc[p] = "archive"
    /\ IF processed[n] = None
       THEN IF queue[n] \in Job
            THEN /\ processed' = [processed EXCEPT ![n] = queue[n]]
                 /\ queue' = [queue EXCEPT ![n] = None]
                 /\ Goto(p, "append")
            ELSE Goto(p, "fail") /\ UNCHANGED <<processed, queue>>
       ELSE /\ queue' = [queue EXCEPT ![n] = None]
            /\ Goto(p, "append")
            /\ UNCHANGED processed
    /\ UNCHANGED <<failed, index, times, todo, known, file, job, part, ghosts>>

AppendHandled(p) ==
    /\ pc[p] = "append"
    /\ AppendIndex(p)

\* Mutant of HandledAnswers: every collision counts as already handled.
AlwaysHandled(p) == {TRUE}

\* What the except branch of process_job knows of a job it archives to
\* failed/: a lookup hit, or the marker in the vault.
HandledAnswers(p) ==
    IF job[p] = None THEN {FALSE}
    ELSE IF job[p] \in known[p] THEN {TRUE}
    ELSE SeesMarker(job[p])

\* Mutant of ArchiveFailed: the failed file is left for the next pass.
LeaveFailed(p) ==
    /\ pc[p] = "fail"
    /\ Goto(p, "next")
    /\ UNCHANGED <<dirs, index, times, todo, known, file, job, part, ghosts>>

\* A taken name in failed/: a handled job's file is removed, any other stays
\* in queue/.  (A file another processor moved meanwhile is left alone.)
ArchiveFailed(p) ==
    LET n == file[p] IN
    /\ pc[p] = "fail"
    /\ \E handled \in HandledAnswers(p) :
          IF queue[n] # None /\ failed[n] = None
          THEN /\ failed' = [failed EXCEPT ![n] = queue[n]]
               /\ queue' = [queue EXCEPT ![n] = None]
          ELSE /\ queue' = IF handled /\ failed[n] # None
                           THEN [queue EXCEPT ![n] = None] ELSE queue
               /\ UNCHANGED failed
    /\ Goto(p, "next")
    /\ UNCHANGED <<processed, index, times, todo, known, file, job, part, ghosts>>

\* The process dies; its lock is stale and the next processor recovers it.
Crash(p) ==
    /\ pc[p] # "idle" /\ crashes < MaxCrashes
    /\ crashes' = crashes + 1
    /\ Goto(p, "idle")
    /\ todo' = [todo EXCEPT ![p] = {}]
    /\ known' = [known EXCEPT ![p] = {}]
    /\ file' = [file EXCEPT ![p] = None]
    /\ job' = [job EXCEPT ![p] = None]
    /\ part' = [part EXCEPT ![p] = 0]
    /\ UNCHANGED <<dirs, index, times, puts, accepted>>

ProcessJob(p) ==
    \/ LoadJob(p) \/ Handle(p) \/ Apply(p) \/ ApplyFails(p)
    \/ WriteEvidence(p) \/ MoveToProcessed(p) \/ Finish(p)
    \/ ArchiveHandled(p) \/ AppendHandled(p) \/ ArchiveFailed(p)

ProcessAll(p) == BeginPass(p) \/ TakeNext(p) \/ EndPass(p) \/ ProcessJob(p)

Next ==
    \/ \E b \in Base, c \in Content : Enqueue(b, c)
    \/ \E n \in Name : Requeue(n)
    \/ \E p \in Proc : ProcessAll(p) \/ Crash(p)

\* The daemon drains the spool periodically: some processor always runs.
Fairness == WF_vars(\E p \in Proc : ProcessAll(p))

Spec == Init /\ [][Next]_vars /\ Fairness

(***************************************************************************)
(* Properties                                                               *)
(***************************************************************************)
\* Across retries, requeues, duplicate files, lost answers and crashes, no
\* canonical document receives a job's mutation twice.
AppliedAtMostOnce == \A j \in Job : \A i \in 1 .. Parts[j] : times[j][i] <= 1

\* What dedupe trusts is true: a job that is archived in processed/, or has a
\* processed-index record, was applied to every document it targets.
RecordedIsApplied == \A j \in index \cup Contents(processed) : Complete(j)

\* A job put in the spool is never lost: until it is fully applied its file
\* is in queue/ or failed/, whatever collides with what.
NoJobLost == \A j \in accepted : Complete(j) \/ j \in Contents(queue) \cup Contents(failed)

\* A file whose name an earlier job used is archived beside it, never over it.
ArchiveKept ==
    [][\A n \in Name : processed[n] # None => processed'[n] = processed[n]]_vars

\* A file in the spool is eventually taken out of it, unless failed/ already
\* holds a file of its name.
SpoolDrains ==
    \A n \in Name : queue[n] # None ~> queue[n] = None \/ failed[n] # None
=============================================================================
