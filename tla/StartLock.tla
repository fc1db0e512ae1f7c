----------------------------- MODULE StartLock -----------------------------
(***************************************************************************)
(* The lock file that serialises `daemon:start' between processes.  Every  *)
(* file operation is a step: an exclusive create, the write of the PID     *)
(* into the file just created, the two reads of readLock() (contents and   *)
(* age, in either order), and the unlinks, which act on whatever file is   *)
(* at the path by then.                                                    *)
(***************************************************************************)
EXTENDS Naturals

CONSTANTS Starters,  \* processes running `daemon:start', each once
          NoLock,    \* no file at the lock's path
          Faults     \* what may go wrong: "crash", "slow", "signal"

VARIABLES
  lock,      \* NoLock, or who created the lock file and whether its PID is in it
  old,       \* the lock file is older than UNREADABLE_LOCK_GRACE_MS
  pc,        \* what each process is doing
  text, age, \* what a readLock() under way has read so far
  \* History variable: a reclaim removed the lock of a process still running.
  stolen

lockVars == <<lock, old, pc, text, age, stolen>>

LockFile(p, written) == [by |-> p, written |-> written]
LockFiles == [by : Starters, written : BOOLEAN]

ASSUME LockNames == /\ NoLock \notin LockFiles
                    /\ Starters \cap {"unread", "missing", "blank"} = {}

Waiting == {"create", "read", "reclaim"}
Holding == {"held", "release", "unlock"}
Ended == {"done", "lockedOut", "crashed"}

LockTypeOK ==
  /\ lock \in LockFiles \union {NoLock}
  /\ old \in BOOLEAN
  /\ pc \in [Starters -> {"idle", "write"} \union Waiting \union Holding \union Ended]
  /\ text \in [Starters -> Starters \union {"unread", "missing", "blank"}]
  /\ age \in [Starters -> {"unread", "missing", "young", "old"}]
  /\ stolen \in BOOLEAN

LockInit ==
  /\ lock = NoLock
  /\ old = FALSE
  /\ pc = [p \in Starters |-> "idle"]
  /\ text = [p \in Starters |-> "unread"]
  /\ age = [p \in Starters |-> "unread"]
  /\ stolen = FALSE

Goes(p, place) == pc' = [pc EXCEPT ![p] = place]
ForgetsRead(p) == /\ text' = [text EXCEPT ![p] = "unread"]
                  /\ age' = [age EXCEPT ![p] = "unread"]

\* kill(pid, 0): a process that ended, however it ended, is not there.
RunsStart(p) == pc[p] \notin {"idle"} \union Ended

-----------------------------------------------------------------------------
(* acquireStartLock().                                                     *)

StartCommand(p) ==
  /\ pc[p] = "idle"
  /\ Goes(p, "create")
  /\ UNCHANGED <<lock, old, text, age, stolen>>

\* The `wx' flag: the create fails when the file exists.
CreatesIfAbsent_Overwrites == TRUE
CreatesIfAbsent == lock = NoLock

CreateLock(p) ==
  /\ pc[p] = "create"
  /\ CreatesIfAbsent
  /\ lock' = LockFile(p, FALSE)
  /\ old' = FALSE
  /\ Goes(p, "write")
  /\ UNCHANGED <<text, age, stolen>>

LockExists(p) ==
  /\ pc[p] = "create"
  /\ ~CreatesIfAbsent
  /\ Goes(p, "read")
  /\ UNCHANGED <<lock, old, text, age, stolen>>

\* The PID goes into the file this process created, linked or not.
WritePid(p) ==
  /\ pc[p] = "write"
  /\ lock' = IF lock = LockFile(p, FALSE) THEN LockFile(p, TRUE) ELSE lock
  /\ Goes(p, "held")
  /\ UNCHANGED <<old, text, age, stolen>>

\* readLock(): the contents and the age are read independently.
LockText == IF lock = NoLock THEN "missing"
            ELSE IF lock.written THEN lock.by ELSE "blank"
LockAge == IF lock = NoLock THEN "missing" ELSE IF old THEN "old" ELSE "young"

ReadText(p) ==
  /\ pc[p] \in {"read", "release"}
  /\ text[p] = "unread"
  /\ text' = [text EXCEPT ![p] = LockText]
  /\ UNCHANGED <<lock, old, pc, age, stolen>>

ReadAge(p) ==
  /\ pc[p] \in {"read", "release"}
  /\ age[p] = "unread"
  /\ age' = [age EXCEPT ![p] = LockAge]
  /\ UNCHANGED <<lock, old, pc, text, stolen>>

HasRead(p) == text[p] # "unread" /\ age[p] # "unread"
FoundNone(p) == "missing" \in {text[p], age[p]}

IsAbandoned_Always(p) == TRUE
IsAbandoned_AnyBlank(p) == text[p] = "blank" \/ (text[p] \in Starters /\ ~RunsStart(text[p]))
IsAbandoned(p) == \/ text[p] = "blank" /\ age[p] = "old"
                  \/ text[p] \in Starters /\ ~RunsStart(text[p])

\* Released between the attempt and the read: tried again at once.
RetriesLock(p) ==
  /\ pc[p] = "read"
  /\ FoundNone(p)
  /\ Goes(p, "create")
  /\ ForgetsRead(p)
  /\ UNCHANGED <<lock, old, stolen>>

TakesForAbandoned(p) ==
  /\ pc[p] = "read"
  /\ HasRead(p) /\ ~FoundNone(p)
  /\ IsAbandoned(p)
  /\ Goes(p, "reclaim")
  /\ ForgetsRead(p)
  /\ UNCHANGED <<lock, old, stolen>>

ReclaimLock(p) ==
  /\ pc[p] = "reclaim"
  /\ lock' = NoLock
  /\ stolen' = (stolen \/ (lock # NoLock /\ RunsStart(lock.by)))
  /\ Goes(p, "create")
  /\ UNCHANGED <<old, text, age>>

WaitsForLock(p) ==
  /\ pc[p] = "read"
  /\ HasRead(p) /\ ~FoundNone(p)
  /\ ~IsAbandoned(p)
  /\ Goes(p, "create")
  /\ ForgetsRead(p)
  /\ UNCHANGED <<lock, old, stolen>>

\* The deadline has passed: DAEMON_START_LOCKED.
GivesUpLock(p) ==
  /\ pc[p] = "read"
  /\ HasRead(p) /\ ~FoundNone(p)
  /\ ~IsAbandoned(p)
  /\ Goes(p, "lockedOut")
  /\ ForgetsRead(p)
  /\ UNCHANGED <<lock, old, stolen>>

-----------------------------------------------------------------------------
(* releaseStartLock().                                                     *)

BeginRelease(p) ==
  /\ pc[p] = "held"
  /\ Goes(p, "release")
  /\ UNCHANGED <<lock, old, text, age, stolen>>

SeesOwnLock_Skips(p) == FALSE
SeesOwnLock(p) == HasRead(p) /\ ~FoundNone(p) /\ text[p] = p

ReleaseFindsOwn(p) ==
  /\ pc[p] = "release"
  /\ SeesOwnLock(p)
  /\ Goes(p, "unlock")
  /\ ForgetsRead(p)
  /\ UNCHANGED <<lock, old, stolen>>

\* Gone, or claimed by some other process since.
ReleaseFindsOther(p) ==
  /\ pc[p] = "release"
  /\ HasRead(p) \/ FoundNone(p)
  /\ ~SeesOwnLock(p)
  /\ Goes(p, "done")
  /\ ForgetsRead(p)
  /\ UNCHANGED <<lock, old, stolen>>

Unlock(p) ==
  /\ pc[p] = "unlock"
  /\ lock' = NoLock
  /\ Goes(p, "done")
  /\ UNCHANGED <<old, text, age, stolen>>

-----------------------------------------------------------------------------
\* Timing: a creator writes its PID, and a reader makes its second read, well
\* within the grace period, unless it died before.
LockAges ==
  /\ lock # NoLock
  /\ ~old
  /\ lock.written \/ ~RunsStart(lock.by)
  /\ \A p \in Starters : ~(pc[p] = "read" /\ text[p] = "blank" /\ age[p] = "unread")
  /\ old' = TRUE
  /\ UNCHANGED <<lock, pc, text, age, stolen>>

StarterCrashes(p) ==
  /\ "crash" \in Faults
  /\ RunsStart(p)
  /\ Goes(p, "crashed")
  /\ ForgetsRead(p)
  /\ UNCHANGED <<lock, old, stolen>>

\* All of a process's steps but the ones that enter and leave what the lock
\* protects, and its crash.
LockStep(p) ==
  \/ CreateLock(p) \/ LockExists(p) \/ WritePid(p)
  \/ ReadText(p) \/ ReadAge(p) \/ RetriesLock(p)
  \/ TakesForAbandoned(p) \/ ReclaimLock(p) \/ WaitsForLock(p) \/ GivesUpLock(p)
  \/ ReleaseFindsOwn(p) \/ ReleaseFindsOther(p) \/ Unlock(p)

LockNext ==
  \/ \E p \in Starters : \/ StartCommand(p) \/ LockStep(p)
                         \/ BeginRelease(p) \/ StarterCrashes(p)
  \/ LockAges

LockSpec == LockInit /\ [][LockNext]_lockVars

-----------------------------------------------------------------------------
(* Properties.                                                             *)

HoldsLock(p) == pc[p] \in {"write"} \union Holding

(***************************************************************************)
(* "Concurrent `daemon:start' calls are serialised": at most one process   *)
(* is between the creation of its lock and its release.                    *)
(***************************************************************************)
OneStarter == \A p, q \in Starters : HoldsLock(p) /\ HoldsLock(q) => p = q

(***************************************************************************)
(* Whatever the number of processes and wherever they crash, the lock is   *)
(* exclusive until a reclaim, which checks the lock and then removes       *)
(* whatever is there, has removed one whose owner is still running.        *)
(***************************************************************************)
OneStarterUntilStolen == ~stolen => OneStarter

(***************************************************************************)
(* A start that has ended by itself leaves no lock of its own behind, so   *)
(* it blocks no later start.                                               *)
(***************************************************************************)
EndedStartsHoldNoLock ==
  lock # NoLock => pc[lock.by] \notin {"done", "lockedOut"}
=============================================================================
