-------------------------- MODULE QueueSpool_proofs ---------------------------
(***************************************************************************)
(* Proofs about QueueSpool, for any number of processors, names, jobs,     *)
(* documents per job, files put and crashes: type correctness, at most one *)
(* application, truth of the archive and the index, no job lost.           *)
(***************************************************************************)
EXTENDS QueueSpool, TLAPS

-----------------------------------------------------------------------------
(***************************************************************************)
(* The invariant.                                                          *)
(***************************************************************************)
WithJob == {"handle", "apply", "evidence", "move", "finish", "archive", "append"}
WithFile == WithJob \cup {"load", "fail"}

\* Where the job's marker is known to be in the vault.
AfterMark == {"evidence", "move", "finish", "archive", "append"}

\* The lock: one processor at a time is in a pass.
OneRuns == \A p, q \in Proc : pc[p] # "idle" /\ pc[q] # "idle" => p = q

\* What a processor in process_job has in hand is what lies in queue/, until it moves it;
\* add_person's duplicate check, made before its first write, still holds at each of them;
\* what it takes for handled is in the vault.
HandOK(p) ==
  /\ pc[p] \in WithFile => file[p] \in Name
  /\ pc[p] = "load" => job[p] = None
  /\ pc[p] \in WithJob => job[p] \in Job
  /\ pc[p] \in WithJob \ {"finish", "append"} => queue[file[p]] = job[p]
  /\ pc[p] = "fail" => job[p] \in {None, queue[file[p]]}
  /\ pc[p] = "apply" => part[p] \in 1 .. Parts[job[p]]
  /\ pc[p] = "apply" /\ job[p] \in Unkeyed =>
       \A i \in part[p] .. Parts[job[p]] : times[job[p]][i] = 0
  /\ pc[p] \in AfterMark => Marked(job[p])
  /\ \A j \in known[p] : Marked(j)

HandsOK == \A p \in Proc : HandOK(p)

\* The index and the archive name only jobs that are in the vault.
RecordedMarked ==
  /\ \A j \in index : Marked(j)
  /\ \A n \in Name : processed[n] \in Job => Marked(processed[n])

\* A name with a job's digest holds that job.
RevisedNames ==
  \A b \in Base, j \in Job :
    /\ queue[<<b, j>>] \in {j, None}
    /\ processed[<<b, j>>] \in {j, None}
    /\ failed[<<b, j>>] \in {j, None}

In(dir, j) == \E n \in Name : dir[n] = j

\* Every job put in the spool is in the vault, or its file waits; no other job is there.
Accounted ==
  /\ \A j \in accepted : Marked(j) \/ In(queue, j) \/ In(failed, j)
  /\ \A n \in Name : \A c \in {queue[n], processed[n], failed[n]} : c \in Job => c \in accepted

SpoolInv ==
  /\ TypeOK
  /\ OneRuns /\ HandsOK /\ RecordedMarked /\ RevisedNames /\ Accounted
  /\ AppliedAtMostOnce

-----------------------------------------------------------------------------
(***************************************************************************)
(* Names, markers, the lock.                                               *)
(***************************************************************************)
LEMMA NameFacts ==
  /\ \A b \in Base : Original(b) \in Name
  /\ \A b \in Base, j \in Job : <<b, j>> \in Name
  /\ \A n \in Name, j \in Job : Revised(n, j) \in Name /\ n[1] \in Base
  /\ \A n \in Name : n = <<n[1], n[2]>> /\ n[2] \in Job \cup {None}
  BY DEF Name, Original, Revised

\* A name that carries a job's digest holds nothing but that job.
LEMMA HeldByName ==
  ASSUME SpoolInv, NEW n \in Name, NEW j \in Job
  PROVE  /\ n[2] = j => {queue[n], processed[n], failed[n]} \subseteq {j, None}
         /\ {queue[Revised(n, j)], processed[Revised(n, j)], failed[Revised(n, j)]}
               \subseteq {j, None}
  BY NameFacts DEF SpoolInv, RevisedNames, Revised

\* A marker stays while applications are only added.
LEMMA MarkedGrows ==
  ASSUME \A j \in Job : \A i \in 1 .. Parts[j] : times[j][i] > 0 => times'[j][i] > 0
  PROVE  \A j \in Job : Marked(j) => Marked(j)'
  BY DEF Marked

LEMMA MarkedSame ==
  ASSUME times' = times
  PROVE  \A j : Marked(j)' <=> Marked(j)
  BY DEF Marked

\* In a step of the processor that holds the lock, or takes it, no other one runs.
LEMMA OthersIdle ==
  ASSUME SpoolInv, NEW p \in Proc, LockFree \/ pc[p] # "idle",
         \A q \in Proc \ {p} : pc'[q] = pc[q]
  PROVE  OneRuns' /\ \A q \in Proc \ {p} : pc[q] = "idle" /\ pc'[q] = "idle"
  BY DEF SpoolInv, OneRuns, LockFree

\* One step of the processor that holds the lock: its own hand is what has to be shown.
LEMMA HolderStep ==
  ASSUME SpoolInv, NEW p \in Proc, pc[p] # "idle", NEW s \in States, Goto(p, s),
         \A q \in Proc \ {p} : known'[q] = known[q],
         \A j \in Job : Marked(j) => Marked(j)',
         HandOK(p)'
  PROVE  pc' \in [Proc -> States] /\ OneRuns' /\ HandsOK'
<1>1. pc' \in [Proc -> States] /\ \A q \in Proc \ {p} : pc'[q] = pc[q]
  BY DEF SpoolInv, TypeOK, Goto
<1>2. OneRuns' /\ \A q \in Proc \ {p} : pc'[q] = "idle"
  BY <1>1, OthersIdle
<1>3. \A q \in Proc \ {p} : \A j \in known[q] : j \in Job /\ Marked(j)'
  BY DEF SpoolInv, TypeOK, HandsOK, HandOK
<1>4. \A q \in Proc \ {p} : HandOK(q)'
  BY <1>2, <1>3 DEF HandOK, WithFile, WithJob, AfterMark
<1> QED BY <1>1, <1>2, <1>4 DEF HandsOK

(***************************************************************************)
(* The steps by what they do to the directories.                           *)
(***************************************************************************)
\* A file appears in queue/ under a free name that fits it.
LEMMA PutKeeps ==
  ASSUME SpoolInv, NEW n \in Name, NEW c \in Content,
         queue[n] = None, n[2] \in {None, c},
         queue' = [queue EXCEPT ![n] = c],
         accepted' = accepted \cup ({c} \cap Job),
         puts' \in 0 .. MaxPuts, crashes' = crashes,
         UNCHANGED <<processed, failed, index, times, locals>>
  PROVE  SpoolInv'
<1> USE DEF locals
<1>1. \A m \in Name : queue[m] # None => queue'[m] = queue[m]
  BY DEF SpoolInv, TypeOK
<1>2. queue'[n] = c
  BY DEF SpoolInv, TypeOK
<1>3. \A j : Marked(j)' <=> Marked(j)
  BY MarkedSame
<1>4. TypeOK'
  BY DEF SpoolInv, TypeOK, Content
<1>5. OneRuns' /\ AppliedAtMostOnce'
  BY DEF SpoolInv, OneRuns, AppliedAtMostOnce
<1>6. HandsOK'
  BY <1>1, <1>3, ValuesAssumption DEF SpoolInv, HandsOK, HandOK, WithJob, WithFile
<1>7. RecordedMarked'
  BY <1>3 DEF SpoolInv, RecordedMarked
<1>8. RevisedNames'
  <2> SUFFICES ASSUME NEW b \in Base, NEW j \in Job
               PROVE  queue'[<<b, j>>] \in {j, None}
    BY DEF SpoolInv, RevisedNames
  <2>1. CASE <<b, j>> = n
    <3>1. n[2] = j
      BY <2>1
    <3> QED BY <1>2, <2>1, <3>1, ValuesAssumption
  <2>2. CASE <<b, j>> # n
    BY <2>2, NameFacts DEF SpoolInv, RevisedNames, TypeOK
  <2> QED BY <2>1, <2>2
<1>9. Accounted'
  <2>1. \A j : In(queue, j) /\ j # None => In(queue, j)'
    BY <1>1 DEF In
  <2>2. \A j \in accepted' : Marked(j)' \/ In(queue, j)' \/ In(failed, j)'
    <3> SUFFICES ASSUME NEW j \in accepted'
                 PROVE  Marked(j)' \/ In(queue, j)' \/ In(failed, j)'
      OBVIOUS
    <3>1. CASE j = c
      BY <1>2, <3>1 DEF In
    <3>2. CASE j # c
      <4>1. j \in accepted /\ j # None
        BY <3>2, ValuesAssumption DEF SpoolInv, TypeOK
      <4> QED BY <1>3, <2>1, <4>1 DEF SpoolInv, Accounted, In
    <3> QED BY <3>1, <3>2
  <2>3. \A m \in Name : \A d \in {queue'[m], processed'[m], failed'[m]} :
          d \in Job => d \in accepted'
    BY DEF SpoolInv, Accounted, TypeOK
  <2> QED BY <2>2, <2>3 DEF Accounted
<1> QED BY <1>4, <1>5, <1>6, <1>7, <1>8, <1>9 DEF SpoolInv

\* The lock holder, or the one that takes the lock, goes on with nothing in hand.
LEMMA AsideKeeps ==
  ASSUME SpoolInv, NEW p \in Proc, LockFree \/ pc[p] # "idle",
         NEW s \in {"idle", "next", "unknowns"}, Goto(p, s),
         UNCHANGED <<dirs, index, times, accepted>>,
         todo' \in [Proc -> SUBSET Name],
         \E K \in SUBSET Job : (\A j \in K : Marked(j)) /\ known' = [known EXCEPT ![p] = K],
         file' \in [Proc -> Name \cup {None}], job' \in [Proc -> Job \cup {None}],
         part' \in [Proc -> Nat],
         puts' = puts, crashes' \in 0 .. MaxCrashes
  PROVE  SpoolInv'
<1>1. pc \in [Proc -> States] /\ pc' = [pc EXCEPT ![p] = s] /\ pc'[p] = s
  BY DEF SpoolInv, TypeOK, Goto
<1>2. OneRuns' /\ \A q \in Proc : pc'[q] \in {"idle", "next", "unknowns"}
  BY <1>1, OthersIdle
<1>3. \A j : Marked(j)' <=> Marked(j)
  BY MarkedSame
<1>4. TypeOK'
  <2>1. pc' \in [Proc -> States]
    BY <1>1 DEF States
  <2>2. known' \in [Proc -> SUBSET Job]
    BY DEF SpoolInv, TypeOK
  <2> QED BY <2>1, <2>2 DEF SpoolInv, TypeOK, dirs
<1>5. HandsOK'
  <2>1. \A q \in Proc : \A j \in known'[q] : Marked(j)
    BY DEF SpoolInv, TypeOK, HandsOK, HandOK
  <2> QED BY <1>2, <1>3, <2>1 DEF HandsOK, HandOK, WithFile, WithJob, AfterMark
<1>6. RecordedMarked'
  BY <1>3 DEF SpoolInv, RecordedMarked, dirs
<1>7. RevisedNames' /\ Accounted' /\ AppliedAtMostOnce'
  BY <1>3 DEF SpoolInv, RevisedNames, Accounted, In, AppliedAtMostOnce, dirs
<1> QED BY <1>2, <1>4, <1>5, <1>6, <1>7 DEF SpoolInv

(***************************************************************************)
(* Each step of a pass.                                                    *)
(***************************************************************************)
\* A step of the lock holder that touches neither the directories nor the vault.
LEMMA LocalStep ==
  ASSUME SpoolInv, NEW p \in Proc, pc[p] # "idle", NEW s \in States, Goto(p, s),
         UNCHANGED <<dirs, times, ghosts>>,
         index' \subseteq Job /\ \A j \in index' : Marked(j),
         todo' \in [Proc -> SUBSET Name],
         known' \in [Proc -> SUBSET Job], \A q \in Proc \ {p} : known'[q] = known[q],
         file' \in [Proc -> Name \cup {None}], job' \in [Proc -> Job \cup {None}],
         part' \in [Proc -> Nat],
         HandOK(p)'
  PROVE  SpoolInv'
<1>1. \A j : Marked(j)' <=> Marked(j)
  BY MarkedSame
<1>2. pc' \in [Proc -> States] /\ OneRuns' /\ HandsOK'
  BY <1>1, HolderStep
<1>3. TypeOK'
  BY <1>2 DEF SpoolInv, TypeOK, dirs, ghosts
<1>4. RecordedMarked'
  BY <1>1 DEF SpoolInv, RecordedMarked, dirs
<1>5. RevisedNames' /\ Accounted' /\ AppliedAtMostOnce'
  BY <1>1 DEF SpoolInv, RevisedNames, Accounted, In, AppliedAtMostOnce, dirs, ghosts
<1> QED BY <1>2, <1>3, <1>4, <1>5 DEF SpoolInv

LEMMA KnownAtStart ==
  ASSUME SpoolInv
  PROVE  /\ index \cup Contents(processed) \subseteq Job
         /\ \A j \in index \cup Contents(processed) : Marked(j)
  BY DEF SpoolInv, TypeOK, RecordedMarked, Contents

LEMMA BeginPassKeeps ==
  ASSUME SpoolInv, NEW p \in Proc, BeginPass(p)
  PROVE  SpoolInv'
<1>1. \E K \in SUBSET Job : (\A j \in K : Marked(j)) /\ known' = [known EXCEPT ![p] = K]
  BY KnownAtStart DEF BeginPass
<1>2. todo' \in [Proc -> SUBSET Name]
  BY DEF BeginPass, SpoolInv, TypeOK
<1> QED BY <1>1, <1>2, AsideKeeps DEF BeginPass, SpoolInv, TypeOK, ghosts

LEMMA EndPassKeeps ==
  ASSUME SpoolInv, NEW p \in Proc, EndPass(p)
  PROVE  SpoolInv'
<1>1. \E K \in SUBSET Job : (\A j \in K : Marked(j)) /\ known' = [known EXCEPT ![p] = K]
  BY DEF EndPass
<1>2. file' \in [Proc -> Name \cup {None}] /\ job' \in [Proc -> Job \cup {None}] /\ part' \in [Proc -> Nat]
  BY DEF EndPass, SpoolInv, TypeOK
<1> QED BY <1>1, <1>2, AsideKeeps DEF EndPass, SpoolInv, TypeOK, ghosts

LEMMA CrashKeeps ==
  ASSUME SpoolInv, NEW p \in Proc, Crash(p)
  PROVE  SpoolInv'
<1>1. \E K \in SUBSET Job : (\A j \in K : Marked(j)) /\ known' = [known EXCEPT ![p] = K]
  BY DEF Crash
<1>2. /\ file' \in [Proc -> Name \cup {None}] /\ job' \in [Proc -> Job \cup {None}] /\ part' \in [Proc -> Nat]
      /\ todo' \in [Proc -> SUBSET Name] /\ crashes' \in 0 .. MaxCrashes
  BY BoundsAssumption DEF Crash, SpoolInv, TypeOK
<1> QED BY <1>1, <1>2, AsideKeeps DEF Crash

LEMMA TakeNextKeeps ==
  ASSUME SpoolInv, NEW p \in Proc, TakeNext(p)
  PROVE  SpoolInv'
<1>1. PICK n \in todo[p] : /\ file' = [file EXCEPT ![p] = n]
                           /\ todo' = [todo EXCEPT ![p] = @ \ {n}]
  BY DEF TakeNext
<1>2. n \in Name
  BY DEF SpoolInv, TypeOK
<1>3. /\ todo' \in [Proc -> SUBSET Name] /\ file' \in [Proc -> Name \cup {None}]
      /\ job' \in [Proc -> Job \cup {None}] /\ part' \in [Proc -> Nat]
  BY <1>1, <1>2 DEF TakeNext, SpoolInv, TypeOK
<1>4. pc'[p] = "load" /\ file'[p] = n /\ job'[p] = None
  BY <1>1 DEF TakeNext, Goto, SpoolInv, TypeOK
<1>5. HandOK(p)'
  <2>1. \A j \in known[p] : Marked(j)'
    BY MarkedSame DEF TakeNext, SpoolInv, HandsOK, HandOK
  <2> QED BY <1>2, <1>4, <2>1 DEF HandOK, TakeNext, WithFile, WithJob, AfterMark
<1> QED BY <1>3, <1>5, LocalStep DEF TakeNext, States, SpoolInv, TypeOK, RecordedMarked

\* The job under an archived name moves to its own one.
LEMMA RenameKeeps ==
  ASSUME SpoolInv, NEW p \in Proc, NEW n \in Name, NEW j \in Job,
         pc[p] = "load", n = file[p], j = queue[n],
         queue' = [queue EXCEPT ![n] = None, ![Revised(n, j)] = j],
         file' = [file EXCEPT ![p] = Revised(n, j)],
         job' = [job EXCEPT ![p] = j],
         Goto(p, "handle"),
         UNCHANGED <<processed, failed, index, times, todo, known, part, ghosts>>
  PROVE  SpoolInv'
<1> DEFINE r == Revised(n, j)
<1>1. r \in Name /\ queue[r] \in {j, None}
  BY NameFacts, HeldByName
<1>2. /\ queue' \in [Name -> Content \cup {None}]
      /\ queue'[r] = j
      /\ \A m \in Name : queue'[m] = IF m = r THEN j ELSE IF m = n THEN None ELSE queue[m]
  BY <1>1 DEF SpoolInv, TypeOK, Content
<1>3. \A k : Marked(k)' <=> Marked(k)
  BY MarkedSame
<1>4. pc'[p] = "handle" /\ file'[p] = r /\ job'[p] = j
  BY DEF SpoolInv, TypeOK, Goto
<1>5. HandOK(p)'
  <2>1. \A k \in known[p] : Marked(k)'
    BY <1>3 DEF SpoolInv, HandsOK, HandOK
  <2> QED BY <1>1, <1>2, <1>4, <2>1 DEF HandOK, WithFile, WithJob, AfterMark
<1>6. pc' \in [Proc -> States] /\ OneRuns' /\ HandsOK'
  BY <1>3, <1>5, HolderStep DEF States
<1>7. TypeOK'
  <2>1. file' \in [Proc -> Name \cup {None}] /\ job' \in [Proc -> Job \cup {None}]
    BY <1>1 DEF SpoolInv, TypeOK
  <2> QED BY <1>2, <1>6, <2>1 DEF SpoolInv, TypeOK, ghosts
<1>8. RecordedMarked'
  BY <1>3 DEF SpoolInv, RecordedMarked
<1>9. RevisedNames'
  <2> SUFFICES ASSUME NEW b \in Base, NEW k \in Job
               PROVE  queue'[<<b, k>>] \in {k, None}
    BY DEF SpoolInv, RevisedNames
  <2>1. CASE <<b, k>> = r
    <3>1. k = j
      BY <2>1 DEF Revised
    <3> QED BY <1>2, <2>1, <3>1
  <2>2. CASE <<b, k>> # r
    BY <1>2, <2>2, NameFacts DEF SpoolInv, RevisedNames
  <2> QED BY <2>1, <2>2
<1>10. Accounted'
  <2>1. \A k \in Job : In(queue, k) => In(queue, k)'
    <3> SUFFICES ASSUME NEW k \in Job, NEW m \in Name, queue[m] = k
                 PROVE  In(queue, k)'
      BY DEF In
    <3>1. CASE m \in {n, r}
      <4>1. k = j
        BY <1>1, <3>1, ValuesAssumption
      <4> QED BY <1>1, <1>2, <4>1 DEF In
    <3>2. CASE m \notin {n, r}
      BY <1>2, <3>2 DEF In
    <3> QED BY <3>1, <3>2
  <2>2. \A k \in accepted : Marked(k)' \/ In(queue, k)' \/ In(failed, k)'
    BY <1>3, <2>1 DEF SpoolInv, TypeOK, Accounted, In
  <2>3. j \in accepted
    BY DEF SpoolInv, Accounted
  <2>4. \A m \in Name : queue'[m] \in Job => queue'[m] \in accepted
    BY <1>2, <2>3, ValuesAssumption DEF SpoolInv, Accounted
  <2>5. \A m \in Name : \A c \in {queue'[m], processed'[m], failed'[m]} : c \in Job => c \in accepted'
    BY <2>4 DEF SpoolInv, Accounted, ghosts
  <2> QED BY <2>2, <2>5 DEF Accounted, ghosts
<1>11. AppliedAtMostOnce'
  BY DEF SpoolInv, AppliedAtMostOnce
<1> QED BY <1>6, <1>7, <1>8, <1>9, <1>10, <1>11 DEF SpoolInv

LEMMA LoadJobKeeps ==
  ASSUME SpoolInv, NEW p \in Proc, LoadJob(p)
  PROVE  SpoolInv'
<1> DEFINE n == file[p]
           j == queue[n]
<1>1. /\ pc[p] = "load" /\ n \in Name /\ job[p] = None /\ pc[p] # "idle"
      /\ \A k \in known[p] : Marked(k)
      /\ UNCHANGED <<processed, failed, index, times, todo, known, part, ghosts>>
  BY DEF LoadJob, SpoolInv, HandsOK, HandOK, WithFile
<1>2. \A k : Marked(k)' <=> Marked(k)
  BY <1>1, MarkedSame
<1>3. CASE ~ Loads(n)
  <2>1. Goto(p, "fail") /\ UNCHANGED <<queue, file, job>>
    BY <1>3 DEF LoadJob
  <2>2. HandOK(p)'
    <3>1. pc'[p] = "fail"
      BY <2>1 DEF Goto, SpoolInv, TypeOK
    <3> QED BY <1>1, <1>2, <2>1, <3>1 DEF HandOK, WithFile, WithJob, AfterMark
  <2> QED BY <1>1, <2>1, <2>2, LocalStep DEF States, dirs, SpoolInv, TypeOK, RecordedMarked
<1>4. CASE Loads(n)
  <2>1. j \in Job /\ job' = [job EXCEPT ![p] = j]
    BY <1>4 DEF LoadJob, Loads
  <2>2. \/ UNCHANGED <<queue, file>> /\ (Goto(p, "handle") \/ (Goto(p, "archive") /\ Marked(j)))
        \/ /\ Goto(p, "handle")
           /\ queue' = [queue EXCEPT ![n] = None, ![Revised(n, j)] = j]
           /\ file' = [file EXCEPT ![p] = Revised(n, j)]
    <3>1. Duplicate(p, j) \/ processed[n] = j => Marked(j)
      BY <1>1, <2>1 DEF Duplicate, SpoolInv, RecordedMarked
    <3>2. \A m \in SeesMarker(j) : m => Marked(j)
      BY DEF SeesMarker
    <3> QED BY <1>4, <3>1, <3>2 DEF LoadJob
  <2>3. CASE UNCHANGED <<queue, file>> /\ (Goto(p, "handle") \/ (Goto(p, "archive") /\ Marked(j)))
    <3>1. PICK s \in {"handle", "archive"} : Goto(p, s) /\ (s = "archive" => Marked(j))
      BY <2>3
    <3>2. pc'[p] = s /\ job'[p] = j
      BY <2>1, <3>1 DEF Goto, SpoolInv, TypeOK
    <3>3. HandOK(p)'
      BY <1>1, <1>2, <2>1, <2>3, <3>1, <3>2 DEF HandOK, WithFile, WithJob, AfterMark
    <3>4. job' \in [Proc -> Job \cup {None}]
      BY <2>1 DEF SpoolInv, TypeOK
    <3> QED BY <1>1, <2>3, <3>1, <3>3, <3>4, LocalStep
            DEF States, dirs, SpoolInv, TypeOK, RecordedMarked
  <2>4. CASE /\ Goto(p, "handle")
             /\ queue' = [queue EXCEPT ![n] = None, ![Revised(n, j)] = j]
             /\ file' = [file EXCEPT ![p] = Revised(n, j)]
    BY <1>1, <2>1, <2>4, RenameKeeps
  <2> QED BY <2>2, <2>3, <2>4
<1> QED BY <1>3, <1>4

LEMMA HandleKeeps ==
  ASSUME SpoolInv, NEW p \in Proc, Handle(p)
  PROVE  SpoolInv'
<1>1. /\ pc[p] = "handle" /\ pc[p] # "idle" /\ file[p] \in Name /\ job[p] \in Job
      /\ queue[file[p]] = job[p] /\ \A k \in known[p] : Marked(k)
      /\ UNCHANGED <<dirs, index, times, todo, known, file, job, ghosts>>
  BY DEF Handle, SpoolInv, HandsOK, HandOK, WithFile, WithJob
<1>2. \A k : Marked(k)' <=> Marked(k)
  BY <1>1, MarkedSame
<1>3. part' \in [Proc -> Nat]
  BY DEF Handle, SpoolInv, TypeOK
<1>4. CASE Goto(p, "fail")
  <2>1. pc'[p] = "fail"
    BY <1>4 DEF Goto, SpoolInv, TypeOK
  <2>2. HandOK(p)'
    BY <1>1, <1>2, <2>1 DEF HandOK, WithFile, WithJob, AfterMark, dirs
  <2> QED BY <1>1, <1>3, <1>4, <2>2, LocalStep DEF States, SpoolInv, TypeOK, RecordedMarked
<1>5. CASE Goto(p, "apply") /\ part' = [part EXCEPT ![p] = 1]
            /\ ~ (job[p] \in Unkeyed /\ Marked(job[p]))
  <2>1. pc'[p] = "apply" /\ part'[p] = 1
    BY <1>5 DEF Goto, SpoolInv, TypeOK
  <2>2. 1 \in 1 .. Parts[job[p]]
    BY <1>1, PartsAssumption
  <2>3. job[p] \in Unkeyed => \A i \in 1 .. Parts[job[p]] : times[job[p]][i] = 0
    <3>1. \A i \in 1 .. Parts[job[p]] : times[job[p]][i] \in Nat
      BY <1>1 DEF SpoolInv, TypeOK
    <3> QED BY <1>5, <3>1 DEF Marked
  <2>4. HandOK(p)'
    BY <1>1, <1>2, <2>1, <2>2, <2>3 DEF HandOK, WithFile, WithJob, AfterMark, dirs
  <2> QED BY <1>1, <1>3, <1>5, <2>4, LocalStep DEF States, SpoolInv, TypeOK, RecordedMarked
<1> QED BY <1>4, <1>5 DEF Handle

\* A step of the lock holder that writes one document of the job in its hand, or none.
LEMMA VaultStep ==
  ASSUME SpoolInv, NEW p \in Proc, pc[p] = "apply", NEW s \in States, Goto(p, s),
         \/ UNCHANGED times
         \/ times[job[p]][part[p]] = 0 /\ times' = [times EXCEPT ![job[p]][part[p]] = 1],
         UNCHANGED <<dirs, index, todo, known, file, job, ghosts>>,
         part' \in [Proc -> Nat],
         (\A j \in Job : Marked(j) => Marked(j)') => HandOK(p)'
  PROVE  SpoolInv'
<1> DEFINE j == job[p]
           i == part[p]
<1>1. j \in Job /\ i \in 1 .. Parts[j] /\ pc[p] # "idle"
  BY DEF SpoolInv, HandsOK, HandOK, WithJob
<1>2. /\ DOMAIN times' = Job
      /\ \A k \in Job : times'[k] \in [1 .. Parts[k] -> Nat]
      /\ \A k \in Job : \A m \in 1 .. Parts[k] :
           times'[k][m] = times[k][m] \/ (times[k][m] = 0 /\ times'[k][m] = 1)
  <2>1. DOMAIN times = Job /\ \A k \in Job : times[k] \in [1 .. Parts[k] -> Nat]
    BY DEF SpoolInv, TypeOK
  <2>2. CASE UNCHANGED times
    BY <2>1, <2>2
  <2>3. CASE times[j][i] = 0 /\ times' = [times EXCEPT ![j][i] = 1]
    <3>1. times'[j] = [times[j] EXCEPT ![i] = 1] /\ \A k \in Job : k # j => times'[k] = times[k]
      BY <1>1, <2>1, <2>3
    <3>2. times'[j] \in [1 .. Parts[j] -> Nat]
      BY <1>1, <2>1, <3>1
    <3>3. \A m \in 1 .. Parts[j] : times'[j][m] = IF m = i THEN 1 ELSE times[j][m]
      BY <1>1, <2>1, <3>1
    <3> QED BY <1>1, <2>1, <2>3, <3>1, <3>2, <3>3
  <2> QED BY <2>2, <2>3
<1>3. \A k \in Job : Marked(k) => Marked(k)'
  <2>1. \A k \in Job : \A m \in 1 .. Parts[k] : times[k][m] > 0 => times'[k][m] > 0
    BY <1>2
  <2> QED BY <2>1, MarkedGrows
<1>4. pc' \in [Proc -> States] /\ OneRuns' /\ HandsOK'
  BY <1>1, <1>3, HolderStep
<1>5. TypeOK'
  BY <1>2, <1>4 DEF SpoolInv, TypeOK, dirs, ghosts
<1>6. RecordedMarked'
  BY <1>3 DEF SpoolInv, TypeOK, RecordedMarked, dirs
<1>7. RevisedNames'
  BY DEF SpoolInv, RevisedNames, dirs
<1>8. Accounted'
  <2>1. \A k : (In(queue, k)' <=> In(queue, k)) /\ (In(failed, k)' <=> In(failed, k))
    BY DEF In, dirs
  <2>2. \A k \in accepted' : Marked(k)' \/ In(queue, k)' \/ In(failed, k)'
    BY <1>3, <2>1 DEF SpoolInv, TypeOK, Accounted, ghosts
  <2> QED BY <2>2 DEF SpoolInv, Accounted, dirs, ghosts
<1>9. AppliedAtMostOnce'
  BY <1>2 DEF SpoolInv, AppliedAtMostOnce
<1> QED BY <1>4, <1>5, <1>6, <1>7, <1>8, <1>9 DEF SpoolInv

LEMMA ApplyKeeps ==
  ASSUME SpoolInv, NEW p \in Proc, Apply(p)
  PROVE  SpoolInv'
<1> DEFINE j == job[p]
           i == part[p]
<1>1. /\ pc[p] = "apply" /\ file[p] \in Name /\ j \in Job /\ queue[file[p]] = j
      /\ i \in 1 .. Parts[j] /\ Parts[j] \in Nat /\ i \in Nat
      /\ j \in Unkeyed => \A m \in i .. Parts[j] : times[j][m] = 0
      /\ \A k \in known[p] : k \in Job /\ Marked(k)
      /\ UNCHANGED <<dirs, index, todo, known, file, job, ghosts>>
  BY PartsAssumption DEF Apply, SpoolInv, TypeOK, HandsOK, HandOK, WithFile, WithJob
<1>2. DOMAIN times = Job /\ times[j] \in [1 .. Parts[j] -> Nat] /\ times[j][i] \in Nat
  BY <1>1 DEF SpoolInv, TypeOK
<1>3. \/ UNCHANGED times /\ times[j][i] > 0 /\ j \notin Unkeyed
      \/ times[j][i] = 0 /\ times' = [times EXCEPT ![j][i] = 1]
  <2>1. CASE Skips(j, i)
    BY <1>1, <2>1 DEF Apply, Skips
  <2>2. CASE ~ Skips(j, i)
    <3>1. times[j][i] = 0
      BY <1>1, <1>2, <2>2 DEF Skips
    <3>2. times' = [times EXCEPT ![j][i] = times[j][i] + 1]
      BY <1>1, <2>2 DEF Apply
    <3>3. times[j][i] + 1 = 1
      BY <3>1
    <3> QED BY <3>1, <3>2, <3>3
  <2> QED BY <2>1, <2>2
<1>4. times'[j][i] > 0 /\ \A m \in 1 .. Parts[j] : m # i => times'[j][m] = times[j][m]
  BY <1>1, <1>2, <1>3
<1>5. CASE i < Parts[j]
  <2>1. part' = [part EXCEPT ![p] = i + 1] /\ UNCHANGED pc
    BY <1>5 DEF Apply
  <2>2. pc'[p] = "apply" /\ part'[p] = i + 1 /\ i + 1 \in 1 .. Parts[j] /\ Goto(p, "apply")
    BY <1>1, <1>5, <2>1 DEF SpoolInv, TypeOK, Goto
  <2>3. (\A k \in Job : Marked(k) => Marked(k)') => HandOK(p)'
    BY <1>1, <1>4, <2>2 DEF HandOK, WithFile, WithJob, AfterMark, dirs
  <2>4. part' \in [Proc -> Nat]
    BY <2>1 DEF SpoolInv, TypeOK
  <2> QED BY <1>1, <1>3, <2>2, <2>3, <2>4, VaultStep DEF States
<1>6. CASE ~ (i < Parts[j])
  <2>1. PICK s \in {"move", "evidence"} : Goto(p, s) /\ UNCHANGED part
    BY <1>6 DEF Apply
  <2>2. pc'[p] = s
    BY <2>1 DEF SpoolInv, TypeOK, Goto
  <2>3. Marked(j)'
    BY <1>1, <1>4 DEF Marked
  <2>4. (\A k \in Job : Marked(k) => Marked(k)') => HandOK(p)'
    BY <1>1, <2>1, <2>2, <2>3 DEF HandOK, WithFile, WithJob, AfterMark, dirs
  <2>5. part' \in [Proc -> Nat]
    BY <2>1 DEF SpoolInv, TypeOK
  <2> QED BY <1>1, <1>3, <2>1, <2>4, <2>5, VaultStep DEF States
<1> QED BY <1>5, <1>6

LEMMA ApplyFailsKeeps ==
  ASSUME SpoolInv, NEW p \in Proc, ApplyFails(p)
  PROVE  SpoolInv'
<1>1. /\ pc[p] = "apply" /\ file[p] \in Name /\ job[p] \in Job /\ queue[file[p]] = job[p]
      /\ \A k \in known[p] : k \in Job /\ Marked(k)
  BY DEF ApplyFails, SpoolInv, TypeOK, HandsOK, HandOK, WithFile, WithJob
<1>2. pc'[p] = "fail"
  BY DEF ApplyFails, Goto, SpoolInv, TypeOK
<1>3. (\A k \in Job : Marked(k) => Marked(k)') => HandOK(p)'
  BY <1>1, <1>2 DEF ApplyFails, HandOK, WithFile, WithJob, AfterMark, dirs
<1> QED BY <1>1, <1>3, VaultStep DEF ApplyFails, States, SpoolInv, TypeOK

LEMMA WriteEvidenceKeeps ==
  ASSUME SpoolInv, NEW p \in Proc, WriteEvidence(p)
  PROVE  SpoolInv'
<1>1. /\ pc[p] = "evidence" /\ pc[p] # "idle" /\ file[p] \in Name /\ job[p] \in Job
      /\ queue[file[p]] = job[p] /\ Marked(job[p]) /\ \A k \in known[p] : Marked(k)
  BY DEF WriteEvidence, SpoolInv, HandsOK, HandOK, WithFile, WithJob, AfterMark
<1>2. PICK s \in {"move", "fail"} : Goto(p, s)
  BY DEF WriteEvidence
<1>3. pc'[p] = s /\ \A k : Marked(k)' <=> Marked(k)
  BY <1>2, MarkedSame DEF WriteEvidence, Goto, SpoolInv, TypeOK
<1>4. HandOK(p)'
  BY <1>1, <1>3 DEF WriteEvidence, HandOK, WithFile, WithJob, AfterMark, dirs
<1> QED BY <1>1, <1>2, <1>4, LocalStep DEF WriteEvidence, States, SpoolInv, TypeOK, RecordedMarked

LEMMA AppendIndexKeeps ==
  ASSUME SpoolInv, NEW p \in Proc, pc[p] \in {"finish", "append"}, AppendIndex(p)
  PROVE  SpoolInv'
<1>1. /\ pc[p] # "idle" /\ job[p] \in Job /\ Marked(job[p]) /\ known[p] \subseteq Job
      /\ \A k \in known[p] : Marked(k)
  BY DEF SpoolInv, TypeOK, HandsOK, HandOK, WithJob, AfterMark
<1>2. /\ known' \in [Proc -> SUBSET Job] /\ known'[p] = known[p] \cup {job[p]}
      /\ \A q \in Proc \ {p} : known'[q] = known[q]
  BY <1>1 DEF AppendIndex, SpoolInv, TypeOK
<1>3. pc'[p] = "next" /\ \A k : Marked(k)' <=> Marked(k)
  BY MarkedSame DEF AppendIndex, Goto, SpoolInv, TypeOK
<1>4. HandOK(p)'
  BY <1>1, <1>2, <1>3 DEF HandOK, WithFile, WithJob, AfterMark
<1>5. index' \subseteq Job /\ \A j \in index' : Marked(j)
  BY <1>1 DEF AppendIndex, SpoolInv, TypeOK, RecordedMarked
<1> QED BY <1>1, <1>2, <1>4, <1>5, LocalStep DEF AppendIndex, States, SpoolInv, TypeOK

\* The lock holder takes a file out of queue/: to processed/ if its job is in the vault, to
\* failed/, or away if its job is in the vault.
LEMMA TakeKeeps ==
  ASSUME SpoolInv, NEW p \in Proc, pc[p] # "idle", NEW s \in States, Goto(p, s),
         NEW n \in Name, queue' = [queue EXCEPT ![n] = None],
         \/ /\ processed[n] = None /\ queue[n] \in Job /\ Marked(queue[n])
            /\ processed' = [processed EXCEPT ![n] = queue[n]] /\ UNCHANGED failed
         \/ /\ failed[n] = None
            /\ failed' = [failed EXCEPT ![n] = queue[n]] /\ UNCHANGED processed
         \/ (queue[n] \in Job => Marked(queue[n])) /\ UNCHANGED <<processed, failed>>,
         UNCHANGED <<index, times, todo, known, file, job, part, ghosts>>,
         HandOK(p)'
  PROVE  SpoolInv'
<1>1. \A k : Marked(k)' <=> Marked(k)
  BY MarkedSame
<1>2. pc' \in [Proc -> States] /\ OneRuns' /\ HandsOK'
  BY <1>1, HolderStep
<1>3. \A m \in Name : /\ queue'[m] = IF m = n THEN None ELSE queue[m]
                      /\ processed'[m] \in {processed[m], queue[m]}
                      /\ processed'[m] # processed[m] => Marked(processed'[m])
                      /\ failed'[m] \in {failed[m], queue[m]}
  BY DEF SpoolInv, TypeOK
<1>4. TypeOK'
  <2>1. /\ queue' \in [Name -> Content \cup {None}] /\ failed' \in [Name -> Content \cup {None}]
        /\ processed' \in [Name -> Job \cup {None}]
    BY DEF SpoolInv, TypeOK
  <2> QED BY <1>2, <2>1 DEF SpoolInv, TypeOK, ghosts
<1>5. RecordedMarked'
  BY <1>1, <1>3 DEF SpoolInv, RecordedMarked
<1>6. RevisedNames'
  BY <1>3, NameFacts DEF SpoolInv, RevisedNames
<1>7. Accounted'
  <2>1. \A k \in accepted : Marked(k) \/ In(queue, k)' \/ In(failed, k)'
    <3> SUFFICES ASSUME NEW k \in accepted, ~ Marked(k)
                 PROVE  In(queue, k)' \/ In(failed, k)'
      OBVIOUS
    <3>1. k \in Job /\ k # None
      BY ValuesAssumption DEF SpoolInv, TypeOK
    <3>2. CASE In(failed, k)
      <4>1. PICK m \in Name : failed[m] = k
        BY <3>2 DEF In
      <4>2. failed'[m] = k
        BY <3>1, <4>1 DEF SpoolInv, TypeOK
      <4> QED BY <4>2 DEF In
    <3>3. CASE In(queue, k)
      <4>1. PICK m \in Name : queue[m] = k
        BY <3>3 DEF In
      <4>2. CASE m = n
        <5>1. failed' = [failed EXCEPT ![n] = queue[n]]
          BY <3>1, <4>1, <4>2
        <5>2. failed'[n] = k
          BY <4>1, <4>2, <5>1 DEF SpoolInv, TypeOK
        <5> QED BY <5>2 DEF In
      <4>3. CASE m # n
        BY <1>3, <4>1, <4>3 DEF In
      <4> QED BY <4>2, <4>3
    <3> QED BY <3>2, <3>3 DEF SpoolInv, Accounted
  <2>2. \A m \in Name : \A c \in {queue'[m], processed'[m], failed'[m]} : c \in Job => c \in accepted
    BY <1>3, ValuesAssumption DEF SpoolInv, Accounted
  <2> QED BY <1>1, <2>1, <2>2 DEF Accounted, ghosts
<1>8. AppliedAtMostOnce'
  BY DEF SpoolInv, AppliedAtMostOnce
<1> QED BY <1>2, <1>4, <1>5, <1>6, <1>7, <1>8 DEF SpoolInv

LEMMA MoveKeeps ==
  ASSUME SpoolInv, NEW p \in Proc, MoveToProcessed(p)
  PROVE  SpoolInv'
<1> DEFINE n == file[p]
<1>1. /\ pc[p] = "move" /\ pc[p] # "idle" /\ n \in Name /\ job[p] \in Job
      /\ queue[n] = job[p] /\ Marked(job[p]) /\ \A k \in known[p] : Marked(k)
      /\ UNCHANGED <<failed, index, times, todo, known, file, job, part, ghosts>>
  BY DEF MoveToProcessed, SpoolInv, HandsOK, HandOK, WithFile, WithJob, AfterMark
<1>2. \A k : Marked(k)' <=> Marked(k)
  BY <1>1, MarkedSame
<1>3. CASE processed[n] = None
  <2>1. /\ processed' = [processed EXCEPT ![n] = queue[n]]
        /\ queue' = [queue EXCEPT ![n] = None] /\ Goto(p, "finish")
    BY <1>1, <1>3 DEF MoveToProcessed
  <2>2. pc'[p] = "finish"
    BY <2>1 DEF Goto, SpoolInv, TypeOK
  <2>3. HandOK(p)'
    BY <1>1, <1>2, <2>2 DEF HandOK, WithFile, WithJob, AfterMark
  <2> QED BY <1>1, <1>3, <2>1, <2>3, TakeKeeps DEF States
<1>4. CASE processed[n] # None
  <2>1. Goto(p, "fail") /\ UNCHANGED <<processed, queue>>
    BY <1>4 DEF MoveToProcessed
  <2>2. pc'[p] = "fail"
    BY <2>1 DEF Goto, SpoolInv, TypeOK
  <2>3. HandOK(p)'
    BY <1>1, <1>2, <2>1, <2>2 DEF HandOK, WithFile, WithJob, AfterMark
  <2> QED BY <1>1, <2>1, <2>3, LocalStep DEF States, dirs, SpoolInv, TypeOK, RecordedMarked
<1> QED BY <1>3, <1>4

LEMMA ArchiveHandledKeeps ==
  ASSUME SpoolInv, NEW p \in Proc, ArchiveHandled(p)
  PROVE  SpoolInv'
<1> DEFINE n == file[p]
<1>1. /\ pc[p] = "archive" /\ pc[p] # "idle" /\ n \in Name /\ job[p] \in Job
      /\ queue[n] = job[p] /\ Marked(job[p]) /\ \A k \in known[p] : Marked(k)
      /\ UNCHANGED <<failed, index, times, todo, known, file, job, part, ghosts>>
  BY DEF ArchiveHandled, SpoolInv, HandsOK, HandOK, WithFile, WithJob, AfterMark
<1>2. /\ queue' = [queue EXCEPT ![n] = None] /\ Goto(p, "append")
      /\ IF processed[n] = None THEN processed' = [processed EXCEPT ![n] = queue[n]]
         ELSE UNCHANGED processed
  BY <1>1 DEF ArchiveHandled
<1>3. pc'[p] = "append"
  BY <1>2 DEF Goto, SpoolInv, TypeOK
<1>4. HandOK(p)'
  BY <1>1, <1>3, MarkedSame DEF HandOK, WithFile, WithJob, AfterMark
<1> QED BY <1>1, <1>2, <1>4, TakeKeeps DEF States

LEMMA ArchiveFailedKeeps ==
  ASSUME SpoolInv, NEW p \in Proc, ArchiveFailed(p)
  PROVE  SpoolInv'
<1> DEFINE n == file[p]
<1>1. /\ pc[p] = "fail" /\ pc[p] # "idle" /\ n \in Name /\ job[p] \in {None, queue[n]}
      /\ \A k \in known[p] : Marked(k)
      /\ Goto(p, "next")
      /\ UNCHANGED <<processed, index, times, todo, known, file, job, part, ghosts>>
  BY DEF ArchiveFailed, SpoolInv, HandsOK, HandOK, WithFile
<1>2. pc'[p] = "next" /\ \A k : Marked(k)' <=> Marked(k)
  BY <1>1, MarkedSame DEF Goto, SpoolInv, TypeOK
<1>3. HandOK(p)'
  BY <1>1, <1>2 DEF HandOK, WithFile, WithJob, AfterMark
<1>4. PICK handled \in HandledAnswers(p) :
        IF queue[n] # None /\ failed[n] = None
        THEN /\ failed' = [failed EXCEPT ![n] = queue[n]]
             /\ queue' = [queue EXCEPT ![n] = None]
        ELSE /\ queue' = IF handled /\ failed[n] # None THEN [queue EXCEPT ![n] = None] ELSE queue
             /\ UNCHANGED failed
  BY DEF ArchiveFailed
<1>5. handled => queue[n] = job[p] /\ Marked(queue[n])
  BY <1>1 DEF HandledAnswers, SeesMarker
<1>6. CASE queue' = [queue EXCEPT ![n] = None]
           /\ (\/ failed[n] = None /\ failed' = [failed EXCEPT ![n] = queue[n]]
               \/ handled /\ UNCHANGED failed)
  BY <1>1, <1>3, <1>5, <1>6, TakeKeeps DEF States
<1>7. CASE UNCHANGED <<queue, failed>>
  BY <1>1, <1>3, <1>7, LocalStep DEF States, dirs, SpoolInv, TypeOK, RecordedMarked
<1> QED BY <1>4, <1>6, <1>7

(***************************************************************************)
(* Every step of the spool.                                                *)
(***************************************************************************)
LEMMA ProcessAllKeeps ==
  ASSUME SpoolInv, NEW p \in Proc, ProcessAll(p)
  PROVE  SpoolInv'
BY BeginPassKeeps, TakeNextKeeps, EndPassKeeps, LoadJobKeeps, HandleKeeps, ApplyKeeps,
   ApplyFailsKeeps, WriteEvidenceKeeps, MoveKeeps, AppendIndexKeeps, ArchiveHandledKeeps,
   ArchiveFailedKeeps
   DEF ProcessAll, ProcessJob, Finish, AppendHandled

LEMMA EnqueueKeeps ==
  ASSUME SpoolInv, NEW b \in Base, NEW c \in Content, Enqueue(b, c)
  PROVE  SpoolInv'
<1>1. Original(b) \in Name /\ Original(b)[2] = None
  BY NameFacts DEF Original
<1>2. puts' \in 0 .. MaxPuts
  BY BoundsAssumption DEF Enqueue, SpoolInv, TypeOK
<1> QED BY <1>1, <1>2, PutKeeps DEF Enqueue

\* An operator's requeue moves a file of failed/ back under its own name.
LEMMA RequeueKeeps ==
  ASSUME SpoolInv, NEW n \in Name, Requeue(n)
  PROVE  SpoolInv'
<1> USE DEF Requeue, locals
<1>1. \A j : Marked(j)' <=> Marked(j)
  BY MarkedSame
<1>2. \A m \in Name : /\ queue'[m] = IF m = n THEN failed[n] ELSE queue[m]
                      /\ failed'[m] = IF m = n THEN None ELSE failed[m]
  BY DEF SpoolInv, TypeOK
<1>3. TypeOK'
  BY BoundsAssumption DEF SpoolInv, TypeOK
<1>4. OneRuns' /\ AppliedAtMostOnce' /\ RecordedMarked'
  BY <1>1 DEF SpoolInv, OneRuns, AppliedAtMostOnce, RecordedMarked
<1>5. HandsOK'
  BY <1>1, <1>2, ValuesAssumption DEF SpoolInv, HandsOK, HandOK, WithJob, WithFile
<1>6. RevisedNames'
  BY <1>2, NameFacts DEF SpoolInv, RevisedNames
<1>7. Accounted'
  <2>1. \A k \in accepted : Marked(k) \/ In(queue, k)' \/ In(failed, k)'
    <3> SUFFICES ASSUME NEW k \in accepted, ~ Marked(k)
                 PROVE  In(queue, k)' \/ In(failed, k)'
      OBVIOUS
    <3>1. k # None
      BY ValuesAssumption DEF SpoolInv, TypeOK
    <3>2. CASE In(failed, k)
      BY <1>2, <3>2 DEF In
    <3>3. CASE In(queue, k)
      BY <1>2, <3>1, <3>3 DEF In
    <3> QED BY <3>2, <3>3 DEF SpoolInv, Accounted
  <2>2. \A m \in Name : \A c \in {queue'[m], processed'[m], failed'[m]} : c \in Job => c \in accepted
    BY <1>2, ValuesAssumption DEF SpoolInv, Accounted
  <2> QED BY <1>1, <2>1, <2>2 DEF Accounted
<1> QED BY <1>3, <1>4, <1>5, <1>6, <1>7 DEF SpoolInv

LEMMA StutterKeeps ==
  ASSUME SpoolInv, UNCHANGED vars
  PROVE  SpoolInv'
<1>1. \A j : Marked(j)' <=> Marked(j)
  BY MarkedSame DEF vars
<1> QED BY <1>1 DEF vars, dirs, locals, ghosts, SpoolInv, TypeOK, OneRuns, HandsOK, HandOK,
                    RecordedMarked, RevisedNames, Accounted, In, AppliedAtMostOnce

LEMMA SpoolStart ==
  ASSUME Init
  PROVE  SpoolInv
<1>1. TypeOK
  BY BoundsAssumption DEF Init, TypeOK, Empty, States
<1>2. OneRuns /\ HandsOK /\ RecordedMarked /\ RevisedNames /\ Accounted
  BY NameFacts, ValuesAssumption
     DEF Init, Empty, OneRuns, HandsOK, HandOK, WithFile, WithJob, AfterMark, RecordedMarked,
         RevisedNames, Accounted
<1>3. AppliedAtMostOnce
  BY DEF Init, AppliedAtMostOnce
<1> QED BY <1>1, <1>2, <1>3 DEF SpoolInv

LEMMA NextKeeps ==
  ASSUME SpoolInv, [Next]_vars
  PROVE  SpoolInv'
BY StutterKeeps, EnqueueKeeps, RequeueKeeps, ProcessAllKeeps, CrashKeeps DEF Next

THEOREM Invariant == Spec => []SpoolInv
BY SpoolStart, NextKeeps, PTL DEF Spec

-----------------------------------------------------------------------------
(***************************************************************************)
(* What the invariant gives.                                               *)
(***************************************************************************)
\* Every job writes one canonical document.  With several, the marker of the first says nothing of
\* the others, and `spool_parts' loses a job that way.
SingleDocument == \A j \in Job : Parts[j] = 1

LEMMA MarkedIsComplete ==
  ASSUME NEW j \in Job, Parts[j] = 1, Marked(j)
  PROVE  Complete(j)
<1>1. PICK i \in 1 .. Parts[j] : times[j][i] > 0
  BY DEF Marked
<1>2. \A k \in 1 .. Parts[j] : k = i
  BY <1>1
<1> QED BY <1>1, <1>2 DEF Complete

\* Recorded and not lost, of the jobs that write one document, whatever the others write.
SingleJobsKept ==
  \A j \in Job : Parts[j] = 1 =>
    /\ j \in index \cup Contents(processed) => Complete(j)
    /\ j \in accepted => Complete(j) \/ j \in Contents(queue) \cup Contents(failed)

LEMMA InvSingle ==
  ASSUME SpoolInv
  PROVE  SingleJobsKept
<1> SUFFICES ASSUME NEW j \in Job, Parts[j] = 1
             PROVE  /\ j \in index \cup Contents(processed) => Complete(j)
                    /\ j \in accepted => Complete(j) \/ j \in Contents(queue) \cup Contents(failed)
  BY DEF SingleJobsKept
<1>1. j \in index \cup Contents(processed) => Complete(j)
  BY KnownAtStart, MarkedIsComplete
<1>2. j # None
  BY ValuesAssumption
<1>3. \A dir : In(dir, j) => j \in Contents(dir)
  BY <1>2 DEF In, Contents
<1>4. j \in accepted => Complete(j) \/ j \in Contents(queue) \cup Contents(failed)
  BY <1>3, MarkedIsComplete DEF SpoolInv, Accounted
<1> QED BY <1>1, <1>4

LEMMA InvRecorded ==
  ASSUME SingleDocument, SpoolInv
  PROVE  RecordedIsApplied
BY KnownAtStart, InvSingle DEF RecordedIsApplied, SingleDocument, SingleJobsKept

LEMMA InvNotLost ==
  ASSUME SingleDocument, SpoolInv
  PROVE  NoJobLost
BY InvSingle DEF NoJobLost, SingleDocument, SingleJobsKept, SpoolInv, TypeOK

\* Only a file name that is free in processed/ is ever filled.
LEMMA ArchiveStep ==
  ASSUME SpoolInv, [Next]_vars, NEW n \in Name, processed[n] # None
  PROVE  processed'[n] = processed[n]
<1>1. CASE \E p \in Proc : MoveToProcessed(p) \/ ArchiveHandled(p)
  BY <1>1 DEF MoveToProcessed, ArchiveHandled, SpoolInv, TypeOK
<1>2. CASE UNCHANGED processed
  BY <1>2
<1>3. CASE UNCHANGED vars
  BY <1>3 DEF vars, dirs
<1> QED BY <1>1, <1>2, <1>3
        DEF Next, Enqueue, Requeue, ProcessAll, BeginPass, TakeNext, EndPass, ProcessJob, LoadJob,
            Handle, Apply, ApplyFails, WriteEvidence, Finish, AppendHandled, AppendIndex,
            ArchiveFailed, Crash, dirs

\* The state of every processor, directory and counter keeps its type.
THEOREM TypeCorrect == Spec => []TypeOK
<1>1. SpoolInv => TypeOK
  BY DEF SpoolInv
<1> QED BY <1>1, Invariant, PTL

\* However often a job comes back, under whatever name, after whatever crash or lost answer,
\* each of its documents receives its mutation at most once.
THEOREM AppliedOnce == Spec => []AppliedAtMostOnce
<1>1. SpoolInv => AppliedAtMostOnce
  BY DEF SpoolInv
<1> QED BY <1>1, Invariant, PTL

\* What processed/ and the index name was applied, when each job writes one document.
THEOREM RecordedTrue == SingleDocument => (Spec => []RecordedIsApplied)
<1> SUFFICES ASSUME SingleDocument PROVE Spec => []RecordedIsApplied
  OBVIOUS
<1>1. SpoolInv => RecordedIsApplied
  BY InvRecorded
<1> QED BY <1>1, Invariant, PTL

\* A job put in the spool is applied or still has a file, when each job writes one document.
THEOREM NothingLost == SingleDocument => (Spec => []NoJobLost)
<1> SUFFICES ASSUME SingleDocument PROVE Spec => []NoJobLost
  OBVIOUS
<1>1. SpoolInv => NoJobLost
  BY InvNotLost
<1> QED BY <1>1, Invariant, PTL

\* Beside jobs that write several documents, one that writes a single one is still applied when it
\* is recorded, and has a file until it is applied.
THEOREM SingleKept == Spec => []SingleJobsKept
<1>1. SpoolInv => SingleJobsKept
  BY InvSingle
<1> QED BY <1>1, Invariant, PTL

\* A file in processed/ is never replaced.
THEOREM ArchiveStays == Spec => ArchiveKept
<1>1. SpoolInv /\ [Next]_vars => [\A n \in Name : processed[n] # None => processed'[n] = processed[n]]_vars
  BY ArchiveStep
<1> QED BY <1>1, Invariant, PTL DEF Spec, ArchiveKept
=============================================================================
