---------------------------- MODULE ProcessorLock ----------------------------
(***************************************************************************)
(* The single-processor lock file of the queue processor                    *)
(* (queue_processor/processor_lock.py), as the processes that contend for   *)
(* it execute it.                                                           *)
(*                                                                          *)
(* Every process that drains the queue - the Couch-primary daemon, the      *)
(* `btq` command line, the legacy file watcher - wraps the drain in one     *)
(* ProcessorLock.  The lock is a file: it is created with O_CREAT|O_EXCL    *)
(* and the owner's pid is written into it by a SECOND system call.  Each    *)
(* system call is one action here.  A pid is never reused (see README).     *)
(***************************************************************************)
EXTENDS Naturals, FiniteSets

CONSTANTS
    Proc,        \* the pids that may ever run a processor
    MaxPasses,   \* bound: how many passes one process may start
    None         \* "no pid": the lock file is absent, empty or unreadable

ASSUME NoneAssumption == None \notin Proc
ASSUME MaxPassesAssumption == MaxPasses \in Nat

VARIABLES
    status,      \* status[p]: "unborn", "alive" or "dead" (os.kill(pid, 0))
    pc,          \* pc[p]: where p is in acquire() / release()
    seen,        \* seen[p]: the pid p's last read_lock() returned
    file,        \* the file at temp/processor.lock, or NoFile
    passes,      \* passes[p]: acquire() calls p has begun (bounded)
    raced        \* history: two live processes were inside acquire() at once

vars == <<status, pc, seen, file, passes, raced>>

NoFile == [creator |-> None, written |-> FALSE]

\* A process unlinks a file only through its path, and creates the next one
\* only after leaving acquire(), so its creator identifies the inode.
File == [creator : Proc, written : BOOLEAN] \cup {NoFile}

Acquiring == {"opening", "reading", "probing", "unlinking", "writing"}
Releasing == {"checking", "removing"}

TypeOK ==
    /\ status \in [Proc -> {"unborn", "alive", "dead"}]
    /\ pc \in [Proc -> {"idle", "holding"} \cup Acquiring \cup Releasing]
    /\ seen \in [Proc -> Proc \cup {None}]
    /\ file \in File
    /\ passes \in [Proc -> 0 .. MaxPasses]
    /\ raced \in BOOLEAN

Init ==
    /\ status = [p \in Proc |-> "unborn"]
    /\ pc = [p \in Proc |-> "idle"]
    /\ seen = [p \in Proc |-> None]
    /\ file = NoFile
    /\ passes = [p \in Proc |-> 0]
    /\ raced = FALSE

(***************************************************************************)
(* Processes                                                                *)
(***************************************************************************)
Start(p) ==
    /\ status[p] = "unborn"
    /\ status' = [status EXCEPT ![p] = "alive"]
    /\ UNCHANGED <<pc, seen, file, passes, raced>>

\* A crash leaves the lock file as it is: empty if the owner had not written
\* its pid yet, stale if it had.
Crash(p) ==
    /\ status[p] = "alive"
    /\ status' = [status EXCEPT ![p] = "dead"]
    /\ pc' = [pc EXCEPT ![p] = "idle"]
    /\ UNCHANGED <<seen, file, passes, raced>>

\* read_lock(): the pid in the file, or None for an absent, empty or corrupt one.
ReadLock == IF file.written THEN file.creator ELSE None

\* Mutant of ProcessIsAlive: every recorded owner is taken for dead.
NobodyIsAlive(q) == FALSE

\* process_is_alive(): -1 (corrupt) and a missing pid are not alive.
ProcessIsAlive(q) == q \in Proc /\ status[q] = "alive"

(***************************************************************************)
(* acquire()                                                                *)
(***************************************************************************)
BeginAcquire(p) ==
    /\ status[p] = "alive" /\ pc[p] = "idle"
    /\ passes[p] < MaxPasses
    /\ passes' = [passes EXCEPT ![p] = @ + 1]
    /\ pc' = [pc EXCEPT ![p] = "opening"]
    /\ raced' = (raced \/ \E q \in Proc \ {p} : pc[q] \in Acquiring)
    /\ UNCHANGED <<status, seen, file>>

\* Mutant of OpenCreates: the open lacks O_EXCL and truncates a file it finds.
OpenTruncates(p) ==
    /\ pc[p] = "opening"
    /\ file' = [creator |-> p, written |-> FALSE]
    /\ pc' = [pc EXCEPT ![p] = "writing"]
    /\ UNCHANGED <<status, seen, passes, raced>>

\* os.open(O_CREAT | O_EXCL) succeeds: the file exists, with nothing in it.
OpenCreates(p) ==
    /\ pc[p] = "opening"
    /\ file = NoFile
    /\ file' = [creator |-> p, written |-> FALSE]
    /\ pc' = [pc EXCEPT ![p] = "writing"]
    /\ UNCHANGED <<status, seen, passes, raced>>

OpenFileExists(p) ==
    /\ pc[p] = "opening"
    /\ file # NoFile
    /\ pc' = [pc EXCEPT ![p] = "reading"]
    /\ UNCHANGED <<status, seen, file, passes, raced>>

ReadExisting(p) ==
    /\ pc[p] = "reading"
    /\ seen' = [seen EXCEPT ![p] = ReadLock]
    /\ pc' = [pc EXCEPT ![p] = "probing"]
    /\ UNCHANGED <<status, file, passes, raced>>

\* The recorded process is alive: ProcessorLockError.
Refuse(p) ==
    /\ pc[p] = "probing"
    /\ ProcessIsAlive(seen[p])
    /\ pc' = [pc EXCEPT ![p] = "idle"]
    /\ UNCHANGED <<status, seen, file, passes, raced>>

JudgeStale(p) ==
    /\ pc[p] = "probing"
    /\ ~ ProcessIsAlive(seen[p])
    /\ pc' = [pc EXCEPT ![p] = "unlinking"]
    /\ UNCHANGED <<status, seen, file, passes, raced>>

\* Mutant of UnlinkStale: the stale file is not removed before the retry.
RetryWithoutUnlink(p) ==
    /\ pc[p] = "unlinking"
    /\ pc' = [pc EXCEPT ![p] = "opening"]
    /\ UNCHANGED <<status, seen, file, passes, raced>>

\* path.unlink() removes whatever file is at the path by now (a missing file
\* is ignored), and the loop tries to create it again.
UnlinkStale(p) ==
    /\ pc[p] = "unlinking"
    /\ file' = NoFile
    /\ pc' = [pc EXCEPT ![p] = "opening"]
    /\ UNCHANGED <<status, seen, passes, raced>>

\* Mutant of WriteLock: the pid is written through the path, to whatever (or
\* no) file is there by now.
WriteByPath(p) ==
    /\ pc[p] = "writing"
    /\ file' = [file EXCEPT !.written = TRUE]
    /\ pc' = [pc EXCEPT ![p] = "holding"]
    /\ UNCHANGED <<status, seen, passes, raced>>

\* write_lock_fd() writes to the inode p created, which may no longer be the
\* file at the path.
WriteLock(p) ==
    /\ pc[p] = "writing"
    /\ file' = IF file.creator = p THEN [file EXCEPT !.written = TRUE] ELSE file
    /\ pc' = [pc EXCEPT ![p] = "holding"]
    /\ UNCHANGED <<status, seen, passes, raced>>

(***************************************************************************)
(* release()                                                                *)
(***************************************************************************)
BeginRelease(p) ==
    /\ pc[p] = "holding"
    /\ pc' = [pc EXCEPT ![p] = "checking"]
    /\ UNCHANGED <<status, seen, file, passes, raced>>

\* The file is removed only if it names this process.
CheckOwner(p) ==
    /\ pc[p] = "checking"
    /\ seen' = [seen EXCEPT ![p] = ReadLock]
    /\ pc' = [pc EXCEPT ![p] = IF ReadLock = p THEN "removing" ELSE "idle"]
    /\ UNCHANGED <<status, file, passes, raced>>

RemoveLock(p) ==
    /\ pc[p] = "removing"
    /\ file' = NoFile
    /\ pc' = [pc EXCEPT ![p] = "idle"]
    /\ UNCHANGED <<status, seen, passes, raced>>

AcquireStep(p) ==
    \/ OpenCreates(p) \/ OpenFileExists(p) \/ ReadExisting(p)
    \/ Refuse(p) \/ JudgeStale(p) \/ UnlinkStale(p) \/ WriteLock(p)

ReleaseStep(p) == BeginRelease(p) \/ CheckOwner(p) \/ RemoveLock(p)

Next ==
    \E p \in Proc :
        \/ Start(p) \/ Crash(p) \/ BeginAcquire(p)
        \/ AcquireStep(p) \/ ReleaseStep(p)

\* A process that is running is scheduled, and a drain ends; nothing makes a
\* process start, crash or begin another pass.
Fairness == \A p \in Proc : WF_vars(AcquireStep(p)) /\ WF_vars(ReleaseStep(p))

Spec == Init /\ [][Next]_vars /\ Fairness

(***************************************************************************)
(* Properties                                                               *)
(***************************************************************************)
\* The processes between a successful acquire() and the end of release().
Holders == {p \in Proc : pc[p] \in {"holding"} \cup Releasing}

\* Two processors never hold the lock together: what the runtime-hardening
\* ADR promises of processor_lock.py.
MutualExclusion == \A p, q \in Holders : p = q

\* As long as no two processes were inside acquire() at the same time, at most
\* one holds the lock, through every crash, stale recovery, and release that
\* overlaps an acquire(): the exclusion the lock file does give.
UncontendedExclusion == raced \/ MutualExclusion

\* While starts never overlapped, the lock file always names the process that
\* holds it, so a later start is refused and not taken for stale recovery.
UncontendedHolderNamed ==
    raced \/ \A p \in Holders : file = [creator |-> p, written |-> TRUE]

\* The file of a live process is never removed by a process that read that
\* process's pid in it: only a decision taken on an older file (or on one that
\* was still empty) can take a live holder's lock away.
NoKnowingTheft ==
    [][\A p, o \in Proc :
          (/\ p # o /\ pc[p] = "unlinking" /\ pc'[p] = "opening"
           /\ file = [creator |-> o, written |-> TRUE]
           /\ status[o] = "alive")
          => seen[p] # o]_vars

\* A lock left by a dead process does not block a process that keeps trying to
\* start: while one is inside acquire() it ends holding the lock, refused by a
\* live holder, or dead; it never spins on the stale file for ever.
AcquireTerminates ==
    \A p \in Proc : pc[p] \in Acquiring ~> pc[p] \notin Acquiring
=============================================================================
