------------------------- MODULE ProcessorLock_proofs -------------------------
(***************************************************************************)
(* Proofs about ProcessorLock, for any number of processes and passes.      *)
(*                                                                          *)
(* While starts never overlapped (~ raced) there is one process at most     *)
(* inside acquire(), and what it decides can be compared with the one that  *)
(* may hold the lock: it sees that holder in the file (ProbeSeesHolder), so *)
(* it never gets as far as the unlink (UnlinkMeansFree).                    *)
(***************************************************************************)
EXTENDS ProcessorLock, TLAPS

\* Only a live process is inside acquire() or release().
OnlyAliveRun == \A p \in Proc : pc[p] # "idle" => status[p] = "alive"

Born(q) == q \in Proc => status[q] # "unborn"

NamesAreBorn == Born(file.creator) /\ \A p \in Proc : Born(seen[p])

\* A process about to unlink read no pid, or the pid of a process that died.
UnlinkerSawDead ==
    \A p \in Proc : pc[p] = "unlinking" => seen[p] = None \/ status[seen[p]] = "dead"

OneAcquires == \A p, q \in Proc : pc[p] \in Acquiring /\ pc[q] \in Acquiring => p = q

HolderNamed == \A p \in Holders : file = [creator |-> p, written |-> TRUE]

WriterOwns ==
    \A p \in Proc : pc[p] = "writing" => file = [creator |-> p, written |-> FALSE]

ProbeSeesHolder ==
    \A p \in Proc : pc[p] = "probing" => \A q \in Holders : seen[p] = q

UnlinkMeansFree == \A p \in Proc : pc[p] = "unlinking" => Holders = {}

Uncontended ==
    OneAcquires /\ HolderNamed /\ WriterOwns /\ ProbeSeesHolder /\ UnlinkMeansFree

Living == OnlyAliveRun /\ NamesAreBorn /\ UnlinkerSawDead

IInv == TypeOK /\ Living /\ (raced \/ Uncontended)

-----------------------------------------------------------------------------
(***************************************************************************)
(* Types, and what is known of processes that are or were alive             *)
(***************************************************************************)
\* The files the lock path can hold, and what writing the pid makes of one.
LEMMA FileValues ==
    /\ NoFile \in File
    /\ \A p \in Proc : /\ [creator |-> p, written |-> FALSE] \in File
                      /\ [creator |-> p, written |-> TRUE] \in File
                      /\ [creator |-> p, written |-> FALSE] # NoFile
                      /\ [creator |-> p, written |-> TRUE] # NoFile
<1>1. NoFile \in File
  BY DEF File
<1>2. ASSUME NEW p \in Proc, NEW b \in BOOLEAN
      PROVE  [creator |-> p, written |-> b] \in [creator : Proc, written : BOOLEAN]
  OBVIOUS
<1>3. ASSUME NEW p \in Proc, NEW b \in BOOLEAN
      PROVE  [creator |-> p, written |-> b] # NoFile
  <2>1. [creator |-> p, written |-> b].creator = p
    OBVIOUS
  <2>2. NoFile.creator = None
    BY DEF NoFile
  <2> QED BY <2>1, <2>2, NoneAssumption
<1> QED BY <1>1, <1>2, <1>3 DEF File

LEMMA PidWritten ==
    ASSUME file \in File, NEW p \in Proc, file.creator = p
    PROVE  [file EXCEPT !.written = TRUE] = [creator |-> p, written |-> TRUE]
<1>1. NoFile.creator # p
  BY NoneAssumption DEF NoFile
<1>2. file \in [creator : Proc, written : BOOLEAN]
  BY <1>1 DEF File
<1>3. /\ [file EXCEPT !.written = TRUE] \in [creator : Proc, written : BOOLEAN]
      /\ [file EXCEPT !.written = TRUE].creator = p
      /\ [file EXCEPT !.written = TRUE].written = TRUE
  BY <1>2
<1>4. \A f \in [creator : Proc, written : BOOLEAN] :
         f = [creator |-> f.creator, written |-> f.written]
  OBVIOUS
<1> QED BY <1>3, <1>4, Zenon

\* read_lock() returns a pid, or none.
LEMMA ReadLockType ==
    ASSUME file \in File
    PROVE  ReadLock \in Proc \cup {None}
BY DEF ReadLock, File, NoFile

LEMMA InitHolds == Init => IInv
<1> SUFFICES ASSUME Init PROVE IInv
  OBVIOUS
<1>1. TypeOK
  <2>1. file \in File /\ raced \in BOOLEAN
    BY FileValues DEF Init
  <2>2. /\ status \in [Proc -> {"unborn", "alive", "dead"}]
        /\ pc \in [Proc -> {"idle", "holding"} \cup Acquiring \cup Releasing]
        /\ seen \in [Proc -> Proc \cup {None}]
        /\ passes \in [Proc -> 0 .. MaxPasses]
    BY MaxPassesAssumption DEF Init
  <2> QED BY <2>1, <2>2 DEF TypeOK
<1>2. Living
  BY NoneAssumption
     DEF Init, Living, OnlyAliveRun, NamesAreBorn, Born, UnlinkerSawDead, NoFile
<1>3. Uncontended
  BY DEF Init, Uncontended, OneAcquires, HolderNamed, WriterOwns, ProbeSeesHolder,
         UnlinkMeansFree, Holders, Acquiring, Releasing
<1> QED BY <1>1, <1>2, <1>3 DEF IInv

LEMMA TypeKept ==
    ASSUME TypeOK, [Next]_vars
    PROVE  TypeOK'
<1> USE DEF TypeOK, Acquiring, Releasing
<1>1. CASE UNCHANGED vars
  BY <1>1 DEF vars
<1>2. ASSUME NEW p \in Proc, Start(p) \/ Crash(p)
      PROVE  TypeOK'
  BY <1>2 DEF Start, Crash
<1>3. ASSUME NEW p \in Proc, BeginAcquire(p)
      PROVE  TypeOK'
  <2>1. passes' \in [Proc -> 0 .. MaxPasses]
    BY <1>3, MaxPassesAssumption DEF BeginAcquire
  <2>2. raced' \in BOOLEAN
    BY <1>3 DEF BeginAcquire
  <2>3. status' \in [Proc -> {"unborn", "alive", "dead"}] /\ seen' = seen /\ file' = file
    BY <1>3 DEF BeginAcquire
  <2>4. pc' \in [Proc -> {"idle", "holding"} \cup Acquiring \cup Releasing]
    BY <1>3 DEF BeginAcquire
  <2> QED BY <2>1, <2>2, <2>3, <2>4
<1>4. ASSUME NEW p \in Proc, OpenCreates(p) \/ OpenFileExists(p) \/ UnlinkStale(p)
      PROVE  TypeOK'
  BY <1>4, FileValues DEF OpenCreates, OpenFileExists, UnlinkStale
<1>5. ASSUME NEW p \in Proc, ReadExisting(p) \/ Refuse(p) \/ JudgeStale(p)
      PROVE  TypeOK'
  BY <1>5, ReadLockType DEF ReadExisting, Refuse, JudgeStale
<1>6. ASSUME NEW p \in Proc, WriteLock(p)
      PROVE  TypeOK'
  BY <1>6, FileValues, PidWritten DEF WriteLock
<1>7. ASSUME NEW p \in Proc, ReleaseStep(p)
      PROVE  TypeOK'
  BY <1>7, FileValues, ReadLockType DEF ReleaseStep, BeginRelease, CheckOwner, RemoveLock
<1> QED BY <1>1, <1>2, <1>3, <1>4, <1>5, <1>6, <1>7 DEF Next, AcquireStep

\* What is known of a process stays known: nothing returns from the dead, and
\* nothing that has a pid on record was never born.
LEMMA LivingKept ==
    ASSUME TypeOK, Living, [Next]_vars
    PROVE  Living'
<1> USE NoneAssumption
        DEF Living, OnlyAliveRun, NamesAreBorn, Born, UnlinkerSawDead, TypeOK, File, NoFile
<1>1. CASE UNCHANGED vars
  BY <1>1 DEF vars
<1>2. ASSUME NEW p \in Proc, Start(p)
      PROVE  Living'
  BY <1>2 DEF Start
<1>3. ASSUME NEW p \in Proc, Crash(p) \/ BeginAcquire(p)
      PROVE  Living'
  BY <1>3 DEF Crash, BeginAcquire
<1>4. ASSUME NEW p \in Proc, OpenCreates(p) \/ OpenFileExists(p) \/ UnlinkStale(p)
      PROVE  Living'
  BY <1>4 DEF OpenCreates, OpenFileExists, UnlinkStale
<1>5. ASSUME NEW p \in Proc, ReadExisting(p) \/ Refuse(p) \/ JudgeStale(p)
      PROVE  Living'
  BY <1>5 DEF ReadExisting, Refuse, JudgeStale, ReadLock, ProcessIsAlive
<1>6. ASSUME NEW p \in Proc, WriteLock(p) \/ ReleaseStep(p)
      PROVE  Living'
  BY <1>6 DEF WriteLock, ReleaseStep, BeginRelease, CheckOwner, RemoveLock, ReadLock
<1> QED BY <1>1, <1>2, <1>3, <1>4, <1>5, <1>6 DEF Next, AcquireStep

-----------------------------------------------------------------------------
(***************************************************************************)
(* Exclusion while starts do not overlap                                    *)
(***************************************************************************)
LEMMA UncontendedKept ==
    ASSUME IInv, ~ raced', [Next]_vars
    PROVE  Uncontended'
<1> USE NoneAssumption DEF Acquiring, Releasing, Holders, NoFile
<1>1. ~ raced /\ Uncontended
  <2>1. ASSUME NEW p \in Proc, Start(p) \/ Crash(p) \/ BeginAcquire(p)
        PROVE  ~ raced
    BY <2>1 DEF Start, Crash, BeginAcquire
  <2>2. ASSUME NEW p \in Proc, AcquireStep(p) \/ ReleaseStep(p)
        PROVE  raced' = raced
    BY <2>2 DEF AcquireStep, ReleaseStep, OpenCreates, OpenFileExists, ReadExisting,
                Refuse, JudgeStale, UnlinkStale, WriteLock, BeginRelease, CheckOwner,
                RemoveLock
  <2>3. UNCHANGED vars => raced' = raced
    BY DEF vars
  <2> QED BY <2>1, <2>2, <2>3 DEF IInv, Next
<1>2. TypeOK /\ Living
  BY DEF IInv
<1>3. CASE UNCHANGED vars
  BY <1>1, <1>3 DEF vars, Uncontended, OneAcquires, HolderNamed, WriterOwns,
                    ProbeSeesHolder, UnlinkMeansFree
\* A step that lets nobody hold the lock who did not, and changes no file.
<1>4. ASSUME NEW p \in Proc, Start(p) \/ Crash(p) \/ BeginAcquire(p)
      PROVE  Uncontended'
  <2>1. CASE Start(p)
    BY <1>1, <2>1 DEF Start, Uncontended, OneAcquires, HolderNamed, WriterOwns,
                      ProbeSeesHolder, UnlinkMeansFree
  <2>2. CASE Crash(p)
    BY <1>1, <1>2, <2>2
       DEF Crash, TypeOK, Uncontended, OneAcquires, HolderNamed, WriterOwns,
           ProbeSeesHolder, UnlinkMeansFree
  <2>3. CASE BeginAcquire(p)
    <3>1. /\ \A q \in Proc \ {p} : pc[q] \notin Acquiring /\ pc'[q] = pc[q]
          /\ pc[p] = "idle" /\ pc'[p] = "opening" /\ file' = file /\ seen' = seen
      BY <1>2, <2>3 DEF BeginAcquire, TypeOK
    <3>2. Holders' = Holders
      BY <3>1
    <3> QED BY <1>1, <3>1, <3>2
            DEF Uncontended, OneAcquires, HolderNamed, WriterOwns, ProbeSeesHolder,
                UnlinkMeansFree
  <2> QED BY <1>4, <2>1, <2>2, <2>3
<1>5. ASSUME NEW p \in Proc, OpenCreates(p) \/ OpenFileExists(p)
      PROVE  Uncontended'
  BY <1>1, <1>2, <1>5
     DEF OpenCreates, OpenFileExists, TypeOK, Uncontended, OneAcquires, HolderNamed,
         WriterOwns, ProbeSeesHolder, UnlinkMeansFree
\* The one process inside acquire() reads the holder's pid, if there is one,
\* and is refused.
<1>6. ASSUME NEW p \in Proc, ReadExisting(p)
      PROVE  Uncontended'
  BY <1>1, <1>2, <1>6
     DEF ReadExisting, ReadLock, TypeOK, Uncontended, OneAcquires, HolderNamed,
         WriterOwns, ProbeSeesHolder, UnlinkMeansFree
<1>7. ASSUME NEW p \in Proc, Refuse(p) \/ JudgeStale(p)
      PROVE  Uncontended'
  BY <1>1, <1>2, <1>7
     DEF Refuse, JudgeStale, ProcessIsAlive, Living, OnlyAliveRun, TypeOK, Uncontended,
         OneAcquires, HolderNamed, WriterOwns, ProbeSeesHolder, UnlinkMeansFree
<1>8. ASSUME NEW p \in Proc, UnlinkStale(p)
      PROVE  Uncontended'
  BY <1>1, <1>2, <1>8
     DEF UnlinkStale, TypeOK, Uncontended, OneAcquires, HolderNamed, WriterOwns,
         ProbeSeesHolder, UnlinkMeansFree
<1>9. ASSUME NEW p \in Proc, WriteLock(p)
      PROVE  Uncontended'
  <2>1. file = [creator |-> p, written |-> FALSE]
    BY <1>1, <1>9 DEF WriteLock, Uncontended, WriterOwns
  <2>2. file' = [creator |-> p, written |-> TRUE]
    BY <1>2, <1>9, <2>1, PidWritten DEF WriteLock, TypeOK
  <2>3. Holders = {}
    BY <1>1, <2>1 DEF Uncontended, HolderNamed
  <2>4. /\ pc[p] \in Acquiring /\ pc'[p] = "holding" /\ seen' = seen
        /\ \A q \in Proc \ {p} : pc'[q] = pc[q]
    BY <1>2, <1>9 DEF WriteLock, TypeOK
  <2>5. \A q \in Proc : pc'[q] \notin Acquiring
    BY <1>1, <2>4 DEF Uncontended, OneAcquires
  <2>6. Holders' = {p}
    BY <2>3, <2>4
  <2> QED BY <2>2, <2>5, <2>6
          DEF Uncontended, OneAcquires, HolderNamed, WriterOwns, ProbeSeesHolder,
              UnlinkMeansFree
<1>10. ASSUME NEW p \in Proc, ReleaseStep(p)
       PROVE  Uncontended'
  BY <1>1, <1>2, <1>10
     DEF ReleaseStep, BeginRelease, CheckOwner, RemoveLock, TypeOK, Uncontended,
         OneAcquires, HolderNamed, WriterOwns, ProbeSeesHolder, UnlinkMeansFree
<1> QED BY <1>3, <1>4, <1>5, <1>6, <1>7, <1>8, <1>9, <1>10 DEF Next, AcquireStep

\* The inductive invariant of the lock: types, what is known of the living and
\* the dead, and, until two starts overlap, the agreement of every process
\* inside acquire() or release() with the file.
THEOREM Invariant == Spec => []IInv
<1>1. Init => IInv
  BY InitHolds
<1>2. IInv /\ [Next]_vars => IInv'
  <2> SUFFICES ASSUME IInv, [Next]_vars PROVE IInv'
    OBVIOUS
  <2>1. TypeOK' /\ Living'
    BY TypeKept, LivingKept DEF IInv
  <2>2. raced' \in BOOLEAN
    BY <2>1 DEF TypeOK
  <2> QED BY <2>1, <2>2, UncontendedKept DEF IInv
<1> QED BY <1>1, <1>2, PTL DEF Spec

\* Every variable of every process keeps its type.
THEOREM TypeCorrect == Spec => []TypeOK
<1>1. IInv => TypeOK
  BY DEF IInv
<1> QED BY <1>1, Invariant, PTL

\* The exclusion the lock file gives: as long as starts never overlapped, one
\* process at most is between acquire() and release(), for any number of
\* processes, crashes and recoveries, and the file names it.
THEOREM Exclusion == Spec => []UncontendedExclusion
<1>1. IInv => UncontendedExclusion
  BY DEF IInv, Uncontended, HolderNamed, UncontendedExclusion, MutualExclusion
<1> QED BY <1>1, Invariant, PTL

\* As long as starts never overlapped, the lock file exists while a process
\* holds the lock, and names it.
THEOREM HolderIsNamed == Spec => []UncontendedHolderNamed
<1>1. IInv => UncontendedHolderNamed
  BY DEF IInv, Uncontended, HolderNamed, UncontendedHolderNamed
<1> QED BY <1>1, Invariant, PTL

\* unlink() never takes the file of a live process whose pid the caller had
\* read, contended or not.
THEOREM NoTheft == Spec => NoKnowingTheft
<1>1. ASSUME IInv, [Next]_vars
      PROVE  [\A p, o \in Proc :
                 (/\ p # o /\ pc[p] = "unlinking" /\ pc'[p] = "opening"
                  /\ file = [creator |-> o, written |-> TRUE]
                  /\ status[o] = "alive")
                 => seen[p] # o]_vars
  BY <1>1, NoneAssumption DEF IInv, Living, UnlinkerSawDead
<1> QED BY <1>1, Invariant, PTL DEF Spec, NoKnowingTheft
=============================================================================
