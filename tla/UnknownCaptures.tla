--------------------------- MODULE UnknownCaptures ---------------------------
(***************************************************************************)
(* Reclassification of a capture that could not be attributed: the job that *)
(* records it (record_unknown_capture) goes through the spool like any      *)
(* other; then process_unknowns, the last part of process_all, tries again  *)
(* to extract its events, puts a job in the spool for each of them and      *)
(* marks the capture resolved.  The files and the mark are effects of their *)
(* own, with a crash or an error possible between any two.                  *)
(***************************************************************************)
EXTENDS QueueSpool

CONSTANTS
    Recording,   \* the job that records the capture
    Authored,    \* the jobs its events give, each carrying its source_unknown_id
    EventFile,   \* EventFile[j]: its file name, derived from the event: its own, and the same in every attempt
    MaxRetries,  \* attempts that should_retry allows
    MaxAttempts  \* bound: attempts at a text that names a site, which the code does not limit

ASSUME RecordingAssumption == Recording \in Job \ Authored
ASSUME AuthoredAssumption == Authored \subseteq Job /\ IsFiniteSet(Authored)
ASSUME EventFileAssumption ==
    EventFile \in [Authored -> Name] /\ \A j \in Authored : EventFile[j][2] = j
ASSUME RetryAssumption == MaxRetries \in Nat /\ MaxAttempts \in Nat

VARIABLES
    capture,   \* status and retry_count of the document; its text names a site (signal) or not
    attempt,   \* attempt[p]: where processor p is in reclassify_unknown
    cut        \* history: an attempt ended between the first and the last of the jobs

unknownVars == <<capture, attempt, cut>>
allVars == <<vars, unknownVars>>

Steps == {"none", "bump", "look", "author", "resolve"}
NoAttempt == [step |-> "none", left |-> {}, made |-> FALSE]

UnknownTypeOK ==
    /\ TypeOK
    /\ capture \in [status : {"unresolved", "resolved"}, retries : Nat, signal : BOOLEAN]
    /\ attempt \in [Proc -> [step : Steps, left : SUBSET Authored, made : BOOLEAN]]
    /\ cut \in BOOLEAN

\* The status is that of the document once Recording is applied.
UnknownInit ==
    /\ Init
    /\ \E s \in BOOLEAN : capture = [status |-> "unresolved", retries |-> 0, signal |-> s]
    /\ attempt = [p \in Proc |-> NoAttempt]
    /\ cut = FALSE

\* The bound MaxPuts counts the capture's files as well.
Files == puts + Cardinality(IF \A p \in Proc : attempt[p].step = "none"
                            THEN Authored \cap accepted ELSE Authored)

\* Other producers, under other names.
Produce ==
    /\ Files < MaxPuts
    /\ (\E b \in Base, c \in Content \ Authored : Enqueue(b, c)) \/ \E n \in Name : Requeue(n)

-----------------------------------------------------------------------------
\* The pass ends, the lock is released.
Leave(p) ==
    /\ Goto(p, "idle")
    /\ attempt' = [attempt EXCEPT ![p] = NoAttempt]

To(p, step) == attempt' = [attempt EXCEPT ![p].step = step] /\ UNCHANGED pc

\* Where an attempt stops without being finished, some jobs may be there and others not.
Cut(p) == cut' = (cut \/ (attempt[p].made /\ attempt[p].left # {}))

\* Mutant of MayRetry: one attempt too many.
MayRetryOnce == capture.signal \/ capture.retries <= MaxRetries

\* should_retry refuses a retry_count of MaxRetries, and the delay between attempts may be over at any time;
\* a text that names a site is tried again whatever the count.
MayRetry == capture.signal \/ capture.retries < MaxRetries

\* process_unknowns, after the last file of the pass, or in a pass without files, finds the
\* capture recorded and unresolved.
ScanUnknowns(p) ==
    /\ \/ pc[p] = "next" /\ todo[p] = {}
       \/ pc[p] = "idle" /\ LockFree /\ Contents(queue) = {}
    /\ Marked(Recording) /\ capture.status = "unresolved" /\ MayRetry
    /\ capture.retries < MaxAttempts
    /\ puts + Cardinality(Authored) <= MaxPuts
    /\ Goto(p, "unknowns")
    /\ attempt' = [attempt EXCEPT ![p] = [NoAttempt EXCEPT !.step = "bump"]]
    /\ file' = [file EXCEPT ![p] = None]
    /\ job' = [job EXCEPT ![p] = None]
    /\ part' = [part EXCEPT ![p] = 0]
    /\ known' = [known EXCEPT ![p] = {}]
    /\ UNCHANGED <<dirs, index, times, todo, ghosts, capture, cut>>

\* The attempt is counted first.  An error ends the pass, with the count stored or not.
BumpAttempt(p) ==
    /\ attempt[p].step = "bump"
    /\ IF capture.status = "resolved"
       THEN Leave(p) /\ UNCHANGED capture
       ELSE \/ capture' = [capture EXCEPT !.retries = @ + 1] /\ (To(p, "look") \/ Leave(p))
            \/ UNCHANGED capture /\ Leave(p)
    /\ UNCHANGED <<dirs, index, times, todo, known, file, job, part, ghosts, cut>>

\* Mutant of JobExists: only jobs still waiting are looked for.
JobWaits == Authored \cap Contents(queue) # {}

\* job_already_exists_for_unknown: a file of the capture in any of the directories.
JobExists ==
    Authored \cap (Contents(queue) \cup Contents(processed) \cup Contents(failed)) # {}

\* Mutant of NothingValid: the early return without valid events is missing.
NothingValidResolves(p) == To(p, "resolve")

\* Empty text, no valid events, or an extraction that raises: the capture stays unresolved.
NothingValid(p) == Leave(p)

LookForJobs(p) ==
    /\ attempt[p].step = "look"
    /\ IF JobExists
       THEN To(p, "resolve")
       ELSE \/ NothingValid(p)
            \/ /\ attempt' = [attempt EXCEPT ![p].step = "author", ![p].left = Authored]
               /\ UNCHANGED pc
    /\ UNCHANGED <<dirs, index, times, todo, known, file, job, part, ghosts, capture, cut>>

\* The next event, in the order of their files.
Author(p) ==
    /\ attempt[p].step = "author" /\ attempt[p].left # {}
    /\ LET j == CHOOSE x \in attempt[p].left : TRUE
           n == EventFile[j]
           written == queue[n] = None
       IN /\ queue' = IF written THEN [queue EXCEPT ![n] = j] ELSE queue
          /\ accepted' = IF written THEN accepted \cup {j} ELSE accepted
          /\ attempt' = [attempt EXCEPT ![p].left = @ \ {j}, ![p].made = @ \/ written]
    /\ UNCHANGED <<processed, failed, index, times, locals, puts, crashes, capture, cut>>

\* An event cannot be read, made into a job or written.
AuthorFails(p) ==
    /\ attempt[p].step = "author" /\ attempt[p].left # {}
    /\ Cut(p) /\ Leave(p)
    /\ UNCHANGED <<dirs, index, times, todo, known, file, job, part, ghosts, capture>>

AuthorEnds(p) ==
    /\ attempt[p].step = "author" /\ attempt[p].left = {}
    /\ IF attempt[p].made THEN To(p, "resolve") ELSE Leave(p)
    /\ UNCHANGED <<dirs, index, times, todo, known, file, job, part, ghosts, capture, cut>>

\* mark_unknown_doc_resolved: an error ends the pass, with the mark stored or not.
Resolve(p) ==
    /\ attempt[p].step = "resolve"
    /\ capture' = [capture EXCEPT !.status = "resolved"] \/ UNCHANGED capture
    /\ Leave(p)
    /\ UNCHANGED <<dirs, index, times, todo, known, file, job, part, ghosts, cut>>

Reclassify(p) ==
    \/ ScanUnknowns(p) \/ BumpAttempt(p) \/ LookForJobs(p)
    \/ Author(p) \/ AuthorFails(p) \/ AuthorEnds(p) \/ Resolve(p)

\* A crash ends the attempt with the pass.
CrashAttempt(p) ==
    /\ Crash(p) /\ Cut(p)
    /\ attempt' = [attempt EXCEPT ![p] = NoAttempt]
    /\ UNCHANGED capture

Spool(A) == A /\ UNCHANGED unknownVars

UnknownNext ==
    \/ Spool(Produce)
    \/ \E p \in Proc : Spool(ProcessAll(p)) \/ Reclassify(p) \/ CrashAttempt(p)

\* As in QueueSpool: some processor always runs.
UnknownFairness == WF_allVars(\E p \in Proc : Spool(ProcessAll(p)) \/ Reclassify(p))

UnknownSpec == UnknownInit /\ [][UnknownNext]_allVars /\ UnknownFairness

-----------------------------------------------------------------------------
\* A capture is resolved with all of its jobs: none of its events is dropped, unless an attempt
\* ended in the middle, which the next one takes for a finished one.
ResolvedIsServed == capture.status = "resolved" => cut \/ Authored \subseteq accepted

\* Without a site in its text a capture is attempted MaxRetries times and no more (three in the code),
\* whichever processor makes the attempts and wherever they fail or crash: what should_retry tested is
\* a copy, and the count it tested is still the count when the attempt is counted.
AttemptsLimited == ~capture.signal => capture.retries <= MaxRetries

\* However attempts fail and repeat, and wherever the jobs of the first one went meanwhile, no job of
\* the capture is written to the spool a second time.
AuthoredOnce ==
    [][\A p \in Proc : attempt[p].step = "author" /\ attempt'[p] # attempt[p]
         => \A n \in Name : queue'[n] # queue[n] => queue'[n] \notin accepted]_allVars
=============================================================================
