------------------------ MODULE UnknownCaptures_proofs ------------------------
(***************************************************************************)
(* Proofs about UnknownCaptures and the spool it works in, for any number  *)
(* of processors, names, jobs, events of the capture and retries.          *)
(***************************************************************************)
EXTENDS UnknownCaptures, QueueSpool_proofs

-----------------------------------------------------------------------------
(***************************************************************************)
(* The invariant.                                                          *)
(***************************************************************************)
Stored(n) == {queue[n], processed[n], failed[n]}

\* A job of the capture lies under its own file name only, and once there stays there, in one
\* directory or another: this is why looking for its file finds it.
OwnFiles ==
  /\ \A n \in Name, j \in Authored : j \in Stored(n) => n = EventFile[j]
  /\ \A j \in Authored \cap accepted : j \in Stored(EventFile[j])

\* An attempt is made under the lock, is still allowed when it is counted, and writes exactly the jobs
\* that are not in the spool yet.
AttemptOK(p) ==
  /\ pc[p] = "unknowns" <=> attempt[p].step # "none"
  /\ attempt[p].step = "bump" => MayRetry
  /\ attempt[p].step \in {"bump", "look"} => attempt[p].left = {} /\ ~ attempt[p].made
  /\ attempt[p].step = "author" =>
       attempt[p].left = Authored \ accepted /\ (attempt[p].made <=> attempt[p].left # Authored)
  /\ attempt[p].step = "resolve" => cut \/ Authored \subseteq accepted

\* Some jobs of the capture and not all of them: an attempt is at it, or was cut.
Begun ==
  Authored \cap accepted # {} =>
    \/ cut \/ Authored \subseteq accepted
    \/ \E p \in Proc : attempt[p].step = "author"

UnknownInv ==
  /\ SpoolInv /\ UnknownTypeOK
  /\ OwnFiles /\ (\A p \in Proc : AttemptOK(p)) /\ Begun
  /\ ResolvedIsServed /\ AttemptsLimited

-----------------------------------------------------------------------------
(***************************************************************************)
(* What a step of the spool does to the files.                             *)
(***************************************************************************)
\* A file stays under its name, or gets the name of its own job.
NothingStrays ==
  \A n \in Name : \A c \in Stored(n)' :
    c \in Stored(n) \cup {None} \/ (c \in Job /\ \E m \in Name : queue[m] = c /\ n = Revised(m, c))

\* Under a job's own name the job is removed from one directory only for being in another.
OwnNameKeeps == \A n \in Name : n[2] \in Job /\ n[2] \in Stored(n) => n[2] \in Stored(n)'

LEMMA RenameMoves ==
  ASSUME SpoolInv, NEW n \in Name, NEW j \in Job, queue[n] = j,
         queue' = [queue EXCEPT ![n] = None, ![Revised(n, j)] = j],
         UNCHANGED <<processed, failed>>
  PROVE  NothingStrays /\ OwnNameKeeps
<1>1. Revised(n, j) \in Name /\ queue[Revised(n, j)] \in {j, None}
  BY NameFacts, HeldByName
<1>2. \A m \in Name : queue'[m] = IF m = Revised(n, j) THEN j ELSE IF m = n THEN None ELSE queue[m]
  BY <1>1 DEF SpoolInv, TypeOK
<1>3. NothingStrays
  BY <1>2 DEF NothingStrays, Stored
<1>4. OwnNameKeeps
  <2> SUFFICES ASSUME NEW m \in Name, m[2] \in Job, m[2] \in Stored(m)
               PROVE  m[2] \in Stored(m)'
    BY DEF OwnNameKeeps
  <2>1. m[2] # None
    BY ValuesAssumption
  <2>2. CASE queue[m] = m[2]
    <3>1. CASE m = n
      <4>1. Revised(n, j) = n
        BY <2>2, <3>1, NameFacts DEF Revised
      <4> QED BY <1>2, <2>2, <3>1, <4>1 DEF Stored
    <3>2. CASE m # n
      BY <1>1, <1>2, <2>1, <2>2, <3>2 DEF Stored
    <3> QED BY <3>1, <3>2
  <2>3. CASE queue[m] # m[2]
    BY <2>3 DEF Stored
  <2> QED BY <2>2, <2>3
<1> QED BY <1>3, <1>4

LEMMA TakeMoves ==
  ASSUME SpoolInv, NEW n \in Name, queue' = [queue EXCEPT ![n] = None],
         \/ processed' = [processed EXCEPT ![n] = queue[n]] /\ processed[n] = None /\ UNCHANGED failed
         \/ failed' = [failed EXCEPT ![n] = queue[n]] /\ failed[n] = None /\ UNCHANGED processed
         \/ (processed[n] # None \/ failed[n] # None) /\ UNCHANGED <<processed, failed>>
  PROVE  NothingStrays /\ OwnNameKeeps
<1>1. \A m \in Name : m # n => Stored(m)' = Stored(m)
  BY DEF Stored, SpoolInv, TypeOK
<1>2. Stored(n)' \subseteq Stored(n) \cup {None}
  BY DEF Stored, SpoolInv, TypeOK
<1>3. n[2] \in Job /\ n[2] \in Stored(n) => n[2] \in Stored(n)'
  BY HeldByName, ValuesAssumption DEF Stored, SpoolInv, TypeOK
<1> QED BY <1>1, <1>2, <1>3 DEF NothingStrays, OwnNameKeeps

LEMMA RequeueMoves ==
  ASSUME SpoolInv, NEW n \in Name, Requeue(n)
  PROVE  NothingStrays /\ OwnNameKeeps
<1>1. \A m \in Name : Stored(m)' \subseteq Stored(m) \cup {None} /\ Stored(m) \subseteq Stored(m)' \cup {None}
  BY DEF Requeue, Stored, SpoolInv, TypeOK
<1> QED BY <1>1, ValuesAssumption DEF NothingStrays, OwnNameKeeps

LEMMA PassMoves ==
  ASSUME SpoolInv, NEW p \in Proc, ProcessAll(p)
  PROVE  NothingStrays /\ OwnNameKeeps
<1> DEFINE n == file[p]
<1>1. CASE UNCHANGED dirs
  BY <1>1 DEF dirs, NothingStrays, OwnNameKeeps, Stored
<1>2. CASE LoadJob(p)
  <2>1. n \in Name
    BY <1>2 DEF LoadJob, SpoolInv, HandsOK, HandOK, WithFile
  <2>2. \/ UNCHANGED dirs
        \/ /\ queue[n] \in Job /\ queue' = [queue EXCEPT ![n] = None, ![Revised(n, queue[n])] = queue[n]]
           /\ UNCHANGED <<processed, failed>>
    BY <1>2 DEF LoadJob, Loads, dirs
  <2> QED BY <1>1, <2>1, <2>2, RenameMoves
<1>3. CASE MoveToProcessed(p) \/ ArchiveHandled(p)
  <2>1. n \in Name /\ queue[n] \in Job
    BY <1>3 DEF MoveToProcessed, ArchiveHandled, SpoolInv, HandsOK, HandOK, WithFile, WithJob
  <2>2. \/ UNCHANGED dirs
        \/ /\ queue' = [queue EXCEPT ![n] = None] /\ UNCHANGED failed
           /\ \/ processed' = [processed EXCEPT ![n] = queue[n]] /\ processed[n] = None
              \/ processed[n] # None /\ UNCHANGED processed
    BY <1>3, <2>1 DEF MoveToProcessed, ArchiveHandled, dirs
  <2> QED BY <1>1, <2>1, <2>2, TakeMoves
<1>4. CASE ArchiveFailed(p)
  <2>1. n \in Name
    BY <1>4 DEF ArchiveFailed, SpoolInv, HandsOK, HandOK, WithFile
  <2>2. \/ UNCHANGED dirs
        \/ /\ queue' = [queue EXCEPT ![n] = None] /\ UNCHANGED processed
           /\ \/ failed' = [failed EXCEPT ![n] = queue[n]] /\ failed[n] = None
              \/ failed[n] # None /\ UNCHANGED failed
    BY <1>4 DEF ArchiveFailed, dirs
  <2> QED BY <1>1, <2>1, <2>2, TakeMoves
<1> QED BY <1>1, <1>2, <1>3, <1>4
        DEF ProcessAll, BeginPass, TakeNext, EndPass, ProcessJob, Handle, Apply, ApplyFails,
            WriteEvidence, Finish, AppendHandled, AppendIndex, dirs

LEMMA OwnFilesKeep ==
  ASSUME OwnFiles, NothingStrays, OwnNameKeeps, accepted' \cap Authored = accepted \cap Authored
  PROVE  OwnFiles'
<1>1. ASSUME NEW n \in Name, NEW j \in Authored, j \in Stored(n)'
      PROVE  n = EventFile[j]
  <2>1. j \in Job /\ j # None
    BY AuthoredAssumption, ValuesAssumption
  <2>2. CASE j \in Stored(n)
    BY <2>2 DEF OwnFiles
  <2>3. CASE \E m \in Name : queue[m] = j /\ n = Revised(m, j)
    <3>1. PICK m \in Name : queue[m] = j /\ n = Revised(m, j)
      BY <2>3
    <3>2. m = EventFile[j]
      BY <3>1 DEF OwnFiles, Stored
    <3>3. m[2] = j
      BY <3>2, EventFileAssumption
    <3> QED BY <3>1, <3>2, <3>3, NameFacts DEF Revised
  <2> QED BY <1>1, <2>1, <2>2, <2>3 DEF NothingStrays
<1>2. ASSUME NEW j \in Authored \cap accepted'
      PROVE  j \in Stored(EventFile[j])'
  <2>1. EventFile[j] \in Name /\ EventFile[j][2] = j /\ j \in Job /\ j \in accepted
    BY EventFileAssumption, AuthoredAssumption
  <2> QED BY <2>1 DEF OwnFiles, OwnNameKeeps
<1> QED BY <1>1, <1>2 DEF OwnFiles

-----------------------------------------------------------------------------
(***************************************************************************)
(* Steps of the spool beside the attempt.                                  *)
(***************************************************************************)
LEMMA BesideKeeps ==
  ASSUME UnknownInv, SpoolInv', OwnFiles', UNCHANGED unknownVars,
         accepted' \cap Authored = accepted \cap Authored,
         \A q \in Proc : pc'[q] = "unknowns" <=> pc[q] = "unknowns"
  PROVE  UnknownInv'
<1> USE DEF unknownVars
<1>2. UnknownTypeOK'
  BY DEF UnknownInv, UnknownTypeOK, SpoolInv
<1>3. Authored \ accepted' = Authored \ accepted
      /\ (Authored \subseteq accepted' <=> Authored \subseteq accepted)
  OBVIOUS
<1>4. \A q \in Proc : AttemptOK(q)'
  BY <1>3 DEF UnknownInv, AttemptOK, MayRetry
<1>5. Begun' /\ ResolvedIsServed' /\ AttemptsLimited'
  BY <1>3 DEF UnknownInv, Begun, ResolvedIsServed, AttemptsLimited
<1> QED BY <1>2, <1>4, <1>5 DEF UnknownInv

LEMMA SpoolStepKeeps ==
  ASSUME UnknownInv, Spool(Produce) \/ \E p \in Proc : Spool(ProcessAll(p))
  PROVE  UnknownInv'
<1> USE DEF Spool
<1>1. SpoolInv
  BY DEF UnknownInv
<1>2. CASE \E p \in Proc : Spool(ProcessAll(p))
  <2>1. PICK p \in Proc : ProcessAll(p) /\ UNCHANGED unknownVars
    BY <1>2
  <2>2. SpoolInv' /\ NothingStrays /\ OwnNameKeeps
    BY <1>1, <2>1, ProcessAllKeeps, PassMoves
  <2>3. accepted' = accepted /\ \A q \in Proc : pc'[q] = "unknowns" <=> pc[q] = "unknowns"
    BY <1>1, <2>1
       DEF ProcessAll, BeginPass, TakeNext, EndPass, ProcessJob, LoadJob, Handle, Apply, ApplyFails,
           WriteEvidence, MoveToProcessed, Finish, ArchiveHandled, AppendHandled, AppendIndex,
           ArchiveFailed, Goto, ghosts, SpoolInv, TypeOK
  <2>4. OwnFiles'
    BY <2>2, <2>3, OwnFilesKeep DEF UnknownInv
  <2> QED BY <2>1, <2>2, <2>3, <2>4, BesideKeeps
<1>3. CASE \E n \in Name : Spool(Requeue(n))
  <2>1. PICK n \in Name : Requeue(n) /\ UNCHANGED unknownVars
    BY <1>3
  <2>2. SpoolInv' /\ NothingStrays /\ OwnNameKeeps /\ UNCHANGED <<pc, accepted>>
    BY <1>1, <2>1, RequeueKeeps, RequeueMoves DEF Requeue, locals
  <2>3. OwnFiles'
    BY <2>2, OwnFilesKeep DEF UnknownInv
  <2> QED BY <2>1, <2>2, <2>3, BesideKeeps
<1>4. CASE \E b \in Base, c \in Content \ Authored : Spool(Enqueue(b, c))
  <2>1. PICK b \in Base, c \in Content \ Authored : Enqueue(b, c) /\ UNCHANGED unknownVars
    BY <1>4
  <2>2. SpoolInv' /\ UNCHANGED pc /\ accepted' \cap Authored = accepted \cap Authored
    BY <1>1, <2>1, EnqueueKeeps DEF Enqueue, locals
  <2>3. Original(b) \in Name /\ \A n \in Name : queue'[n] = IF n = Original(b) THEN c ELSE queue[n]
    BY <1>1, <2>1, NameFacts DEF Enqueue, SpoolInv, TypeOK
  <2>4. OwnFiles'
    BY <1>1, <2>1, <2>3, AuthoredAssumption, EventFileAssumption, ValuesAssumption
       DEF UnknownInv, OwnFiles, Stored, Enqueue
  <2> QED BY <2>1, <2>2, <2>4, BesideKeeps
<1> QED BY <1>2, <1>3, <1>4 DEF Produce

-----------------------------------------------------------------------------
(***************************************************************************)
(* Steps of an attempt.                                                    *)
(***************************************************************************)
AttemptType == [step : Steps, left : SUBSET Authored, made : BOOLEAN]
CaptureType == [status : {"unresolved", "resolved"}, retries : Nat, signal : BOOLEAN]

\* Some job of the capture in a directory: all are, or an earlier attempt was cut.
LEMMA FoundMeansAll ==
  ASSUME UnknownInv, NEW p \in Proc, attempt[p].step = "look", JobExists
  PROVE  cut \/ Authored \subseteq accepted
<1>1. PICK j \in Authored : j \in accepted
  BY AuthoredAssumption DEF JobExists, Contents, UnknownInv, SpoolInv, Accounted
<1>2. \A q \in Proc : attempt[q].step # "author"
  BY DEF UnknownInv, SpoolInv, OneRuns, AttemptOK
<1> QED BY <1>1, <1>2 DEF UnknownInv, Begun

\* None found: none was ever written, since a job stays in one directory or another.
LEMMA NoneMeansNone ==
  ASSUME UnknownInv, ~ JobExists
  PROVE  Authored \cap accepted = {}
<1> SUFFICES ASSUME NEW j \in Authored \cap accepted PROVE FALSE
  OBVIOUS
<1>1. j \in Stored(EventFile[j]) /\ EventFile[j] \in Name /\ j # None
  BY EventFileAssumption, AuthoredAssumption, ValuesAssumption DEF UnknownInv, OwnFiles
<1> QED BY <1>1 DEF JobExists, Contents, Stored

\* A step of processor p's attempt that writes no file.
LEMMA AttemptStep ==
  ASSUME UnknownInv, SpoolInv', NEW p \in Proc, LockFree \/ pc[p] # "idle",
         UNCHANGED <<dirs, accepted>>, \A q \in Proc \ {p} : pc'[q] = pc[q],
         attempt' \in [Proc -> AttemptType], \A q \in Proc \ {p} : attempt'[q] = attempt[q],
         capture' \in CaptureType, AttemptsLimited', cut' \in BOOLEAN, cut => cut',
         attempt[p].step = "author" /\ Authored \cap accepted # {} =>
           attempt'[p].step = "author" \/ cut' \/ Authored \subseteq accepted,
         capture'.status = "resolved" => cut' \/ Authored \subseteq accepted,
         AttemptOK(p)'
  PROVE  UnknownInv'
<1>1. UnknownTypeOK'
  BY DEF UnknownTypeOK, SpoolInv, AttemptType, CaptureType
<1>2. OwnFiles'
  BY DEF UnknownInv, OwnFiles, Stored, dirs
<1>3. \A q \in Proc \ {p} : pc[q] = "idle" /\ pc'[q] = "idle"
  BY OthersIdle DEF UnknownInv
<1>4. \A q \in Proc \ {p} : attempt[q].step = "none" /\ attempt'[q].step = "none"
  BY <1>3 DEF UnknownInv, AttemptOK
<1>5. \A q \in Proc : AttemptOK(q)'
  BY <1>3, <1>4 DEF AttemptOK
<1>6. Begun'
  BY <1>4 DEF UnknownInv, Begun
<1>7. ResolvedIsServed'
  BY DEF ResolvedIsServed
<1> QED BY <1>1, <1>2, <1>5, <1>6, <1>7 DEF UnknownInv

\* The attempt stops, with the pass, or goes on to another step of its own.
LEMMA StopOrGoOn ==
  ASSUME UnknownInv, NEW p \in Proc, attempt[p].step # "none",
         UNCHANGED <<dirs, index, times, todo, known, file, job, part, ghosts>>,
         UNCHANGED pc \/ Leave(p)
  PROVE  SpoolInv' /\ pc[p] = "unknowns"
<1>1. SpoolInv /\ pc[p] = "unknowns"
  BY DEF UnknownInv, AttemptOK
<1>2. CASE UNCHANGED pc
  BY <1>1, <1>2, StutterKeeps DEF vars, locals
<1>3. CASE Leave(p)
  <2>1. \E K \in SUBSET Job : (\A j \in K : Marked(j)) /\ known' = [known EXCEPT ![p] = K]
    <3>1. known[p] \in SUBSET Job /\ \A j \in known[p] : Marked(j)
      BY <1>1 DEF SpoolInv, TypeOK, HandsOK, HandOK
    <3>2. known' = [known EXCEPT ![p] = known[p]]
      BY <1>1 DEF SpoolInv, TypeOK
    <3> QED BY <3>1, <3>2
  <2> QED BY <1>1, <1>3, <2>1, AsideKeeps DEF Leave, SpoolInv, TypeOK, ghosts
<1> QED BY <1>1, <1>2, <1>3

LEMMA LeaveKeeps ==
  ASSUME UnknownInv, NEW p \in Proc, attempt[p].step # "none", Leave(p),
         UNCHANGED <<dirs, index, times, todo, known, file, job, part, ghosts>>,
         capture' \in CaptureType, AttemptsLimited', cut' \in BOOLEAN, cut => cut',
         attempt[p].step = "author" /\ Authored \cap accepted # {} =>
           cut' \/ Authored \subseteq accepted,
         capture'.status = "resolved" => cut' \/ Authored \subseteq accepted
  PROVE  UnknownInv'
<1>1. SpoolInv' /\ pc[p] = "unknowns"
  BY StopOrGoOn
<1>2. /\ attempt' = [attempt EXCEPT ![p] = NoAttempt] /\ pc' = [pc EXCEPT ![p] = "idle"]
      /\ pc \in [Proc -> States] /\ attempt \in [Proc -> AttemptType]
  BY DEF Leave, Goto, UnknownInv, UnknownTypeOK, TypeOK, AttemptType
<1>3. attempt' \in [Proc -> AttemptType] /\ attempt'[p].step = "none" /\ pc'[p] = "idle"
  BY <1>2 DEF NoAttempt, AttemptType, Steps
<1>4. AttemptOK(p)'
  BY <1>3 DEF AttemptOK
<1> QED BY <1>1, <1>2, <1>3, <1>4, AttemptStep DEF ghosts

\* Within an attempt only a, what is known of it, changes.
LEMMA GoOnKeeps ==
  ASSUME UnknownInv, NEW p \in Proc, attempt[p].step # "none", UNCHANGED pc,
         UNCHANGED <<dirs, index, times, todo, known, file, job, part, ghosts>>,
         NEW a \in AttemptType, a.step \notin {"none", "bump"}, attempt' = [attempt EXCEPT ![p] = a],
         capture' \in CaptureType, capture'.status = capture.status, AttemptsLimited', UNCHANGED cut,
         attempt[p].step = "author" /\ Authored \cap accepted # {} =>
           a.step = "author" \/ cut \/ Authored \subseteq accepted,
         a.step = "look" => a.left = {} /\ ~ a.made,
         a.step = "author" => a.left = Authored \ accepted /\ (a.made <=> a.left # Authored),
         a.step = "resolve" => cut \/ Authored \subseteq accepted
  PROVE  UnknownInv'
<1>1. SpoolInv' /\ pc[p] = "unknowns"
  BY StopOrGoOn
<1>2. attempt \in [Proc -> AttemptType] /\ cut \in BOOLEAN
  BY DEF UnknownInv, UnknownTypeOK, AttemptType
<1>3. attempt' \in [Proc -> AttemptType] /\ attempt'[p] = a
      /\ \A q \in Proc \ {p} : attempt'[q] = attempt[q]
  BY <1>2
<1>4. AttemptOK(p)'
  BY <1>1, <1>3 DEF AttemptOK, ghosts
<1> QED BY <1>1, <1>2, <1>3, <1>4, AttemptStep DEF UnknownInv, ResolvedIsServed, ghosts

\* A named change of fields of attempt[p] is a record that replaces it.
LEMMA AttemptFields ==
  ASSUME UnknownInv, NEW p \in Proc
  PROVE  /\ attempt[p] \in AttemptType
         /\ \A s : [attempt EXCEPT ![p].step = s]
                   = [attempt EXCEPT ![p] = [attempt[p] EXCEPT !.step = s]]
  BY DEF UnknownInv, UnknownTypeOK, AttemptType

LEMMA ToKeeps ==
  ASSUME UnknownInv, NEW p \in Proc, attempt[p].step # "none",
         NEW s \in {"look", "resolve"}, To(p, s),
         UNCHANGED <<dirs, index, times, todo, known, file, job, part, ghosts, cut>>,
         capture' \in CaptureType, capture'.status = capture.status, AttemptsLimited',
         s = "look" => attempt[p].step = "bump",
         s = "resolve" => cut \/ Authored \subseteq accepted
  PROVE  UnknownInv'
<1> DEFINE a == [attempt[p] EXCEPT !.step = s]
<1>1. attempt[p] \in AttemptType
  BY AttemptFields
<1>2. attempt' = [attempt EXCEPT ![p] = a] /\ UNCHANGED pc
  BY AttemptFields DEF To
<1>3. a \in AttemptType /\ a.step = s /\ a.left = attempt[p].left /\ a.made = attempt[p].made
  BY <1>1 DEF AttemptType, Steps
<1>4. s = "look" => a.left = {} /\ ~ a.made
  BY <1>3 DEF UnknownInv, AttemptOK
<1> HIDE DEF a
<1> QED BY <1>2, <1>3, <1>4, GoOnKeeps

LEMMA ScanUnknownsKeeps ==
  ASSUME UnknownInv, NEW p \in Proc, ScanUnknowns(p)
  PROVE  UnknownInv'
<1>1. SpoolInv /\ (LockFree \/ pc[p] # "idle")
  BY DEF UnknownInv, ScanUnknowns
<1>2. SpoolInv'
  <2>1. \E K \in SUBSET Job : (\A j \in K : Marked(j)) /\ known' = [known EXCEPT ![p] = K]
    BY DEF ScanUnknowns
  <2>2. file' \in [Proc -> Name \cup {None}] /\ job' \in [Proc -> Job \cup {None}] /\ part' \in [Proc -> Nat]
    BY <1>1 DEF ScanUnknowns, SpoolInv, TypeOK
  <2> QED BY <1>1, <2>1, <2>2, AsideKeeps DEF ScanUnknowns, SpoolInv, TypeOK, ghosts
<1>3. /\ pc'[p] = "unknowns" /\ \A q \in Proc \ {p} : pc'[q] = pc[q]
      /\ attempt' \in [Proc -> AttemptType] /\ attempt'[p] = [step |-> "bump", left |-> {}, made |-> FALSE]
      /\ \A q \in Proc \ {p} : attempt'[q] = attempt[q]
  BY <1>1 DEF ScanUnknowns, Goto, SpoolInv, TypeOK, UnknownInv, UnknownTypeOK, AttemptType, NoAttempt, Steps
<1>4. attempt[p].step = "none"
  BY DEF ScanUnknowns, UnknownInv, AttemptOK
<1>5. AttemptOK(p)'
  BY <1>3 DEF AttemptOK, ScanUnknowns, MayRetry
<1>6. capture' \in CaptureType /\ AttemptsLimited'
  BY DEF ScanUnknowns, UnknownInv, UnknownTypeOK, CaptureType, AttemptsLimited
<1> QED BY <1>1, <1>2, <1>3, <1>4, <1>5, <1>6, AttemptStep
        DEF ScanUnknowns, UnknownInv, UnknownTypeOK, ResolvedIsServed, ghosts

LEMMA BumpAttemptKeeps ==
  ASSUME UnknownInv, NEW p \in Proc, BumpAttempt(p)
  PROVE  UnknownInv'
<1>1. /\ capture' \in CaptureType /\ AttemptsLimited'
      /\ capture'.status = capture.status /\ cut \in BOOLEAN /\ UNCHANGED cut
  <2>1. capture \in CaptureType /\ cut \in BOOLEAN /\ AttemptsLimited /\ MayRetry
    BY DEF BumpAttempt, UnknownInv, UnknownTypeOK, AttemptOK, CaptureType
  <2>2. \/ UNCHANGED capture
        \/ /\ capture'.status = capture.status /\ capture'.signal = capture.signal
           /\ capture'.retries = capture.retries + 1 /\ capture' \in CaptureType
    BY <2>1 DEF BumpAttempt, CaptureType
  <2>3. AttemptsLimited'
    BY <2>1, <2>2, RetryAssumption DEF AttemptsLimited, MayRetry, CaptureType
  <2> QED BY <2>1, <2>2, <2>3 DEF BumpAttempt
<1>2. attempt[p].step = "bump" /\ (To(p, "look") \/ Leave(p))
  BY DEF BumpAttempt
<1> QED BY <1>1, <1>2, ToKeeps, LeaveKeeps DEF BumpAttempt, UnknownInv, ResolvedIsServed

LEMMA LookForJobsKeeps ==
  ASSUME UnknownInv, NEW p \in Proc, LookForJobs(p)
  PROVE  UnknownInv'
<1>1. /\ attempt[p].step = "look" /\ UNCHANGED capture /\ UNCHANGED cut
      /\ UNCHANGED <<dirs, index, times, todo, known, file, job, part, ghosts>>
      /\ capture \in CaptureType /\ cut \in BOOLEAN /\ AttemptsLimited'
  BY DEF LookForJobs, UnknownInv, UnknownTypeOK, CaptureType, AttemptsLimited
<1>2. CASE JobExists /\ To(p, "resolve")
  BY <1>1, <1>2, FoundMeansAll, ToKeeps
<1>3. CASE Leave(p)
  BY <1>1, <1>3, LeaveKeeps DEF UnknownInv, ResolvedIsServed
<1>4. CASE /\ ~ JobExists /\ UNCHANGED pc
           /\ attempt' = [attempt EXCEPT ![p].step = "author", ![p].left = Authored]
  <2> DEFINE a == [step |-> "author", left |-> Authored, made |-> FALSE]
  <2>1. attempt' = [attempt EXCEPT ![p] = a]
    <3>1. attempt \in [Proc -> AttemptType] /\ attempt[p] \in AttemptType /\ attempt[p].made = FALSE
      BY <1>1 DEF UnknownInv, UnknownTypeOK, AttemptType, AttemptOK
    <3>2. attempt'[p] = a
      BY <1>4, <3>1 DEF AttemptType
    <3>3. attempt' = [q \in Proc |-> IF q = p THEN attempt'[p] ELSE attempt[q]]
      BY <1>4, <3>1
    <3> HIDE DEF a
    <3> QED BY <3>1, <3>2, <3>3
  <2>2. a \in AttemptType /\ a.step = "author" /\ a.left = Authored /\ ~ a.made
    BY DEF AttemptType, Steps
  <2>3. Authored \ accepted = Authored
    BY <1>4, NoneMeansNone
  <2> HIDE DEF a
  <2> QED BY <1>1, <1>4, <2>1, <2>2, <2>3, GoOnKeeps
<1> QED BY <1>2, <1>3, <1>4 DEF LookForJobs, NothingValid

LEMMA AuthorFailsKeeps ==
  ASSUME UnknownInv, NEW p \in Proc, AuthorFails(p)
  PROVE  UnknownInv'
<1>1. attempt[p].step = "author" /\ attempt[p].left = Authored \ accepted
      /\ (attempt[p].made <=> attempt[p].left # Authored) /\ attempt[p].left # {}
  BY DEF AuthorFails, UnknownInv, AttemptOK
<1>2. cut' \in BOOLEAN /\ (cut => cut') /\ (Authored \cap accepted # {} => cut')
  BY <1>1 DEF AuthorFails, Cut, UnknownInv, UnknownTypeOK
<1>3. capture' \in CaptureType /\ AttemptsLimited'
  BY DEF AuthorFails, UnknownInv, UnknownTypeOK, CaptureType, AttemptsLimited
<1> QED BY <1>1, <1>2, <1>3, LeaveKeeps DEF AuthorFails, UnknownInv, ResolvedIsServed

LEMMA AuthorEndsKeeps ==
  ASSUME UnknownInv, NEW p \in Proc, AuthorEnds(p)
  PROVE  UnknownInv'
<1>1. attempt[p].step = "author" /\ Authored \subseteq accepted
  BY DEF AuthorEnds, UnknownInv, AttemptOK
<1>2. To(p, "resolve") \/ Leave(p)
  BY DEF AuthorEnds
<1>3. capture' \in CaptureType /\ AttemptsLimited'
  BY DEF AuthorEnds, UnknownInv, UnknownTypeOK, CaptureType, AttemptsLimited
<1> QED BY <1>1, <1>2, <1>3, ToKeeps, LeaveKeeps DEF AuthorEnds, UnknownInv, UnknownTypeOK

LEMMA ResolveKeeps ==
  ASSUME UnknownInv, NEW p \in Proc, Resolve(p)
  PROVE  UnknownInv'
<1>1. attempt[p].step = "resolve" /\ (cut \/ Authored \subseteq accepted)
  BY DEF Resolve, UnknownInv, AttemptOK
<1>2. capture' \in CaptureType /\ AttemptsLimited' /\ cut \in BOOLEAN
  BY DEF Resolve, UnknownInv, UnknownTypeOK, CaptureType, AttemptsLimited
<1> QED BY <1>1, <1>2, LeaveKeeps DEF Resolve

LEMMA CrashAttemptKeeps ==
  ASSUME UnknownInv, NEW p \in Proc, CrashAttempt(p)
  PROVE  UnknownInv'
<1>1. SpoolInv' /\ pc[p] # "idle" /\ UNCHANGED <<dirs, accepted>>
  BY CrashKeeps DEF CrashAttempt, Crash, UnknownInv
<1>2. /\ pc'[p] = "idle" /\ \A q \in Proc \ {p} : pc'[q] = pc[q]
      /\ attempt' \in [Proc -> AttemptType] /\ attempt'[p].step = "none"
      /\ \A q \in Proc \ {p} : attempt'[q] = attempt[q]
  BY DEF CrashAttempt, Crash, Goto, SpoolInv, TypeOK, UnknownInv, UnknownTypeOK, AttemptType, NoAttempt, Steps
<1>3. cut' \in BOOLEAN /\ (cut => cut') /\ UNCHANGED capture
  BY DEF CrashAttempt, Cut, UnknownInv, UnknownTypeOK
<1>4. attempt[p].step = "author" /\ Authored \cap accepted # {} => cut' \/ Authored \subseteq accepted
  BY DEF CrashAttempt, Cut, UnknownInv, AttemptOK
<1>5. AttemptOK(p)'
  BY <1>2 DEF AttemptOK
<1>6. capture' \in CaptureType /\ AttemptsLimited'
  BY <1>3 DEF UnknownInv, UnknownTypeOK, CaptureType, AttemptsLimited
<1> QED BY <1>1, <1>2, <1>3, <1>4, <1>5, <1>6, AttemptStep DEF UnknownInv, ResolvedIsServed

\* The file of the next event appears under its own name, which is free.
LEMMA AuthorKeeps ==
  ASSUME UnknownInv, NEW p \in Proc, Author(p)
  PROVE  /\ UnknownInv'
         /\ \A n \in Name : queue'[n] # queue[n] => queue'[n] \notin accepted
<1> DEFINE j == CHOOSE x \in attempt[p].left : TRUE
           n == EventFile[j]
<1>1. /\ SpoolInv /\ attempt[p].step = "author" /\ pc[p] = "unknowns" /\ pc[p] # "idle"
      /\ attempt[p].left = Authored \ accepted /\ (attempt[p].made <=> attempt[p].left # Authored)
      /\ attempt \in [Proc -> AttemptType] /\ attempt[p] \in AttemptType
  BY DEF Author, UnknownInv, UnknownTypeOK, AttemptOK, AttemptType
<1>2. j \in Authored /\ j \notin accepted /\ j \in attempt[p].left
  BY <1>1 DEF Author
<1>3. n \in Name /\ n[2] = j /\ j \in Job /\ j \in Content /\ j # None
  BY <1>2, EventFileAssumption, AuthoredAssumption, ValuesAssumption DEF Content
<1> HIDE DEF j
<1>4. queue[n] = None
  BY <1>1, <1>2, <1>3, HeldByName DEF SpoolInv, Accounted
<1>5. /\ queue' = [queue EXCEPT ![n] = j] /\ accepted' = accepted \cup {j}
      /\ attempt' = [attempt EXCEPT ![p].left = @ \ {j}, ![p].made = @ \/ TRUE]
      /\ UNCHANGED <<processed, failed, index, times, locals, puts, crashes, capture, cut>>
  BY <1>4 DEF Author, j
<1>6. \A m \in Name : queue'[m] = IF m = n THEN j ELSE queue[m]
  BY <1>1, <1>5 DEF SpoolInv, TypeOK
<1>7. SpoolInv'
  <2>1. accepted' = accepted \cup ({j} \cap Job) /\ puts' \in 0 .. MaxPuts
    BY <1>1, <1>3, <1>5 DEF SpoolInv, TypeOK
  <2> QED BY <1>1, <1>3, <1>4, <1>5, <2>1, PutKeeps
<1>8. /\ attempt' \in [Proc -> AttemptType]
      /\ attempt'[p].step = "author" /\ attempt'[p].left = Authored \ accepted' /\ attempt'[p].made = TRUE
      /\ \A q \in Proc \ {p} : attempt'[q] = attempt[q]
  <2>1. attempt'[p] = [step |-> "author", left |-> attempt[p].left \ {j}, made |-> TRUE]
    BY <1>1, <1>5 DEF AttemptType
  <2>2. attempt' = [q \in Proc |-> IF q = p THEN attempt'[p] ELSE attempt[q]]
    BY <1>1, <1>5
  <2>3. attempt'[p] \in AttemptType
    BY <1>1, <2>1 DEF AttemptType
  <2> QED BY <1>1, <1>5, <2>1, <2>2, <2>3
<1>9. UnknownTypeOK'
  BY <1>5, <1>7, <1>8 DEF UnknownInv, UnknownTypeOK, SpoolInv, AttemptType
<1>10. OwnFiles'
  <2>1. \A m \in Name, k \in Authored : k \in Stored(m)' => m = EventFile[k]
    BY <1>2, <1>3, <1>5, <1>6 DEF UnknownInv, OwnFiles, Stored
  <2>2. \A k \in Authored \cap accepted' : k \in Stored(EventFile[k])'
    <3> SUFFICES ASSUME NEW k \in Authored \cap accepted' PROVE k \in Stored(EventFile[k])'
      OBVIOUS
    <3>1. CASE k = j
      BY <1>3, <1>6, <3>1 DEF Stored
    <3>2. CASE k # j
      <4>1. k \in accepted /\ EventFile[k] \in Name /\ EventFile[k][2] = k /\ EventFile[k] # n
        BY <1>3, <1>5, <3>2, EventFileAssumption
      <4> QED BY <1>5, <1>6, <4>1 DEF UnknownInv, OwnFiles, Stored
    <3> QED BY <3>1, <3>2
  <2> QED BY <2>1, <2>2 DEF OwnFiles
<1>11. \A q \in Proc : AttemptOK(q)'
  <2>1. \A q \in Proc \ {p} : attempt[q].step = "none" /\ pc[q] = "idle"
    BY <1>1 DEF UnknownInv, SpoolInv, OneRuns, AttemptOK
  <2>2. \A q \in Proc \ {p} : AttemptOK(q)'
    BY <1>5, <1>8, <2>1 DEF AttemptOK, locals
  <2>3. attempt'[p].left # Authored /\ pc'[p] = "unknowns"
    BY <1>1, <1>2, <1>5, <1>8 DEF locals
  <2>4. AttemptOK(p)'
    BY <1>8, <2>3 DEF AttemptOK
  <2> QED BY <2>2, <2>4
<1>12. Begun' /\ ResolvedIsServed' /\ AttemptsLimited'
  BY <1>5, <1>8 DEF Begun, UnknownInv, ResolvedIsServed, AttemptsLimited
<1> QED BY <1>2, <1>6, <1>7, <1>9, <1>10, <1>11, <1>12 DEF UnknownInv

-----------------------------------------------------------------------------
(***************************************************************************)
(* The invariant holds, and what it gives.                                 *)
(***************************************************************************)
LEMMA UnknownStart ==
  ASSUME UnknownInit
  PROVE  UnknownInv
<1>1. SpoolInv /\ TypeOK
  BY SpoolStart DEF UnknownInit, SpoolInv
<1>2. UnknownTypeOK
  <2>1. NoAttempt \in [step : Steps, left : SUBSET Authored, made : BOOLEAN]
    BY DEF NoAttempt, Steps
  <2>2. capture \in [status : {"unresolved", "resolved"}, retries : Nat, signal : BOOLEAN]
    BY DEF UnknownInit
  <2> QED BY <1>1, <2>1, <2>2 DEF UnknownInit, UnknownTypeOK
<1>3. OwnFiles
  BY AuthoredAssumption, ValuesAssumption DEF UnknownInit, Init, Empty, OwnFiles, Stored
<1>4. (\A p \in Proc : AttemptOK(p)) /\ Begun /\ ResolvedIsServed
  BY DEF UnknownInit, Init, AttemptOK, NoAttempt, Begun, ResolvedIsServed
<1>5. AttemptsLimited
  BY RetryAssumption DEF UnknownInit, AttemptsLimited
<1> QED BY <1>1, <1>2, <1>3, <1>4, <1>5 DEF UnknownInv

LEMMA UnknownStutters ==
  ASSUME UnknownInv, UNCHANGED allVars
  PROVE  UnknownInv'
<1>1. SpoolInv'
  BY StutterKeeps DEF UnknownInv, allVars
<1> QED BY <1>1 DEF UnknownInv, allVars, unknownVars, vars, dirs, locals, ghosts, SpoolInv,
                    UnknownTypeOK, OwnFiles, Stored, AttemptOK, Begun, ResolvedIsServed, AttemptsLimited,
                    MayRetry

\* Every step of the attempt is one of those above.
LEMMA AttemptKeeps ==
  ASSUME UnknownInv, NEW p \in Proc, Reclassify(p) \/ CrashAttempt(p)
  PROVE  UnknownInv'
BY ScanUnknownsKeeps, BumpAttemptKeeps, LookForJobsKeeps, AuthorKeeps, AuthorFailsKeeps,
   AuthorEndsKeeps, ResolveKeeps, CrashAttemptKeeps DEF Reclassify

LEMMA UnknownNextKeeps ==
  ASSUME UnknownInv, [UnknownNext]_allVars
  PROVE  UnknownInv'
BY SpoolStepKeeps, AttemptKeeps, UnknownStutters DEF UnknownNext

\* The inductive invariant, with a producer, drains and attempts over one spool.
THEOREM UnknownInvariant == UnknownSpec => []UnknownInv
BY UnknownStart, UnknownNextKeeps, PTL DEF UnknownSpec

\* The spool, the capture and the attempt keep their types (the type of the count has no limit).
THEOREM UnknownTypes == UnknownSpec => []UnknownTypeOK
<1>1. UnknownInv => UnknownTypeOK
  BY DEF UnknownInv
<1> QED BY <1>1, UnknownInvariant, PTL

\* A capture whose text names no site is attempted MaxRetries times at most, however many processors
\* take turns, fail and crash: nobody counts between the check of should_retry and the attempt it
\* allows, because both are made under one lock.
THEOREM AttemptLimit == UnknownSpec => []AttemptsLimited
<1>1. UnknownInv => AttemptsLimited
  BY DEF UnknownInv
<1> QED BY <1>1, UnknownInvariant, PTL

\* A resolved capture has all of its jobs, unless one of its attempts was cut.
THEOREM Served == UnknownSpec => []ResolvedIsServed
<1>1. UnknownInv => ResolvedIsServed
  BY DEF UnknownInv
<1> QED BY <1>1, UnknownInvariant, PTL

\* No job of the capture is written to the spool a second time.
THEOREM Authoring == UnknownSpec => AuthoredOnce
<1>1. ASSUME UnknownInv, [UnknownNext]_allVars, NEW p \in Proc,
             attempt[p].step = "author", attempt'[p] # attempt[p],
             NEW n \in Name, queue'[n] # queue[n]
      PROVE  queue'[n] \notin accepted
  <2>1. CASE \E q \in Proc : Author(q)
    BY <1>1, <2>1, AuthorKeeps
  <2>2. CASE UNCHANGED queue \/ UNCHANGED attempt
    BY <1>1, <2>2
  <2> QED BY <1>1, <2>1, <2>2
          DEF UnknownNext, Spool, unknownVars, Reclassify, ScanUnknowns, BumpAttempt, LookForJobs,
              AuthorFails, AuthorEnds, Resolve, CrashAttempt, Crash, allVars, dirs
<1>2. UnknownInv /\ [UnknownNext]_allVars =>
        [\A p \in Proc : attempt[p].step = "author" /\ attempt'[p] # attempt[p]
           => \A n \in Name : queue'[n] # queue[n] => queue'[n] \notin accepted]_allVars
  BY <1>1
<1> QED BY <1>2, UnknownInvariant, PTL DEF UnknownSpec, AuthoredOnce

\* The spool's own guarantees hold with captures reclassified in its passes.
THEOREM UnknownAppliedOnce == UnknownSpec => []AppliedAtMostOnce
<1>1. UnknownInv => AppliedAtMostOnce
  BY DEF UnknownInv, SpoolInv
<1> QED BY <1>1, UnknownInvariant, PTL

\* What processed/ and the index name was applied, when each job writes one document.
THEOREM UnknownRecordedTrue == SingleDocument => (UnknownSpec => []RecordedIsApplied)
<1> SUFFICES ASSUME SingleDocument PROVE UnknownSpec => []RecordedIsApplied
  OBVIOUS
<1>1. UnknownInv => RecordedIsApplied
  BY InvRecorded DEF UnknownInv
<1> QED BY <1>1, UnknownInvariant, PTL

\* No job is lost, of the producers' or the capture's, when each job writes one document.
THEOREM UnknownNothingLost == SingleDocument => (UnknownSpec => []NoJobLost)
<1> SUFFICES ASSUME SingleDocument PROVE UnknownSpec => []NoJobLost
  OBVIOUS
<1>1. UnknownInv => NoJobLost
  BY InvNotLost DEF UnknownInv
<1> QED BY <1>1, UnknownInvariant, PTL

\* A file in processed/ is never replaced: a step of the spool is one of QueueSpool, and a step of
\* an attempt leaves processed/ alone.
THEOREM UnknownArchiveStays == UnknownSpec => ArchiveKept
<1>1. ASSUME UnknownInv, [UnknownNext]_allVars, NEW n \in Name, processed[n] # None
      PROVE  processed'[n] = processed[n]
  <2>1. CASE [Next]_vars
    BY <1>1, <2>1, ArchiveStep DEF UnknownInv
  <2>2. CASE UNCHANGED processed
    BY <2>2
  <2> QED BY <1>1, <2>1, <2>2
          DEF UnknownNext, Spool, Produce, Next, Reclassify, ScanUnknowns, BumpAttempt, LookForJobs,
              Author, AuthorFails, AuthorEnds, Resolve, CrashAttempt, allVars, dirs
<1>2. UnknownInv /\ [UnknownNext]_allVars =>
        [\A n \in Name : processed[n] # None => processed'[n] = processed[n]]_vars
  BY <1>1
<1> QED BY <1>2, UnknownInvariant, PTL DEF UnknownSpec, ArchiveKept
=============================================================================
