-------------------------- MODULE StartLockProofs --------------------------
(***************************************************************************)
(* Proofs about StartLock, for any number of processes and any crashes.    *)
(***************************************************************************)
EXTENDS StartLock, TLAPS

\* The lock names whoever holds it ...
HolderIsNamed ==
  ~stolen => \A p \in Starters : HoldsLock(p) => lock # NoLock /\ lock.by = p

\* ... and whom it names holds it, or crashed.
NamedIsHolder ==
  lock # NoLock => HoldsLock(lock.by) \/ pc[lock.by] = "crashed"

\* Nothing is remembered of a readLock() that is over.
ReadsAreFresh ==
  \A p \in Starters : pc[p] \notin {"read", "release"} =>
                        text[p] = "unread" /\ age[p] = "unread"

\* The owner of the lock, when it comes to release it, finds its own PID.
OwnerSeesItself ==
  \A p \in Starters :
    /\ lock # NoLock /\ lock.by = p
    /\ pc[p] \in Holding
    => /\ lock.written
       /\ text[p] \in {"unread", p}
       /\ age[p] # "missing"

LInv == LockTypeOK /\ HolderIsNamed /\ NamedIsHolder /\ ReadsAreFresh /\ OwnerSeesItself

LEMMA LockIsAFile ==
  ASSUME NEW p \in Starters, NEW w \in BOOLEAN
  PROVE  /\ LockFile(p, w) \in LockFiles
         /\ LockFile(p, w) # NoLock
         /\ LockFile(p, w).by = p
         /\ LockFile(p, w).written = w
BY LockNames DEF LockFile, LockFiles

LEMMA LockInitLInv == LockInit => LInv
BY LockNames
DEF LockInit, LInv, LockTypeOK, HolderIsNamed, NamedIsHolder, ReadsAreFresh,
    OwnerSeesItself, HoldsLock, Waiting, Holding, Ended

\* The files this specification's records stand for differ from no file.
LEMMA LockFields ==
  ASSUME LockTypeOK, lock # NoLock
  PROVE  lock.by \in Starters /\ lock.written \in BOOLEAN
BY DEF LockTypeOK, LockFiles

LEMMA LInvStep == LInv /\ [LockNext]_lockVars => LInv'
  <1> SUFFICES ASSUME LInv, [LockNext]_lockVars PROVE LInv'
    OBVIOUS
  <1> USE DEF LInv
  <1> DEFINE Kept == /\ HolderIsNamed' /\ NamedIsHolder' /\ ReadsAreFresh' /\ OwnerSeesItself'
  <1>1. LockTypeOK'
    <2>1. ASSUME NEW p \in Starters, CreateLock(p) \/ WritePid(p) PROVE LockTypeOK'
      BY <2>1, LockIsAFile DEF CreateLock, WritePid, Goes, LockTypeOK, Holding
    <2>2. ASSUME NEW p \in Starters, ReadText(p) \/ ReadAge(p) PROVE LockTypeOK'
      BY <2>2 DEF ReadText, ReadAge, LockText, LockAge, LockTypeOK, LockFiles
    <2>3. ASSUME NEW p \in Starters,
                 \/ StartCommand(p) \/ LockExists(p) \/ RetriesLock(p)
                 \/ TakesForAbandoned(p) \/ WaitsForLock(p) \/ GivesUpLock(p)
                 \/ BeginRelease(p) \/ ReleaseFindsOwn(p) \/ ReleaseFindsOther(p)
                 \/ StarterCrashes(p)
          PROVE  LockTypeOK'
      BY <2>3
      DEF StartCommand, LockExists, RetriesLock, TakesForAbandoned, WaitsForLock,
          GivesUpLock, BeginRelease, ReleaseFindsOwn, ReleaseFindsOther,
          StarterCrashes, Goes, ForgetsRead, LockTypeOK, Waiting, Holding, Ended
    <2>4. ASSUME NEW p \in Starters, ReclaimLock(p) \/ Unlock(p) PROVE LockTypeOK'
      BY <2>4 DEF ReclaimLock, Unlock, Goes, LockTypeOK, Waiting, Ended, RunsStart
    <2>5. ASSUME LockAges \/ UNCHANGED lockVars PROVE LockTypeOK'
      BY <2>5 DEF LockAges, lockVars, LockTypeOK
    <2> QED
      BY <2>1, <2>2, <2>3, <2>4, <2>5 DEF LockNext, LockStep
  <1>2. ASSUME NEW p \in Starters, CreateLock(p) PROVE Kept
    <2>1. lock = NoLock /\ lock' = LockFile(p, FALSE) /\ lock'.by = p
      BY <1>2, LockIsAFile DEF CreateLock, CreatesIfAbsent
    <2>2. pc' = [pc EXCEPT ![p] = "write"] /\ UNCHANGED <<text, age, stolen>> /\ pc[p] = "create"
      BY <1>2 DEF CreateLock, Goes
    <2>3. lock' # NoLock
      BY <2>1, LockIsAFile
    <2>4. HolderIsNamed'
      BY <2>1, <2>2, <2>3 DEF LockTypeOK, HolderIsNamed, HoldsLock, Holding
    <2>5. pc'[p] = "write"
      BY <2>2 DEF LockTypeOK
    <2>6. NamedIsHolder'
      BY <2>1, <2>5 DEF NamedIsHolder, HoldsLock
    <2>7. ReadsAreFresh'
      BY <2>2 DEF LockTypeOK, ReadsAreFresh
    <2>8. OwnerSeesItself'
      BY <2>1, <2>5 DEF OwnerSeesItself, Holding
    <2> QED
      BY <2>4, <2>6, <2>7, <2>8
  <1>3. ASSUME NEW p \in Starters, WritePid(p) PROVE Kept
    <2>1. HolderIsNamed'
      BY <1>3, LockIsAFile DEF WritePid, Goes, LockTypeOK, HolderIsNamed, HoldsLock, Holding
    <2>2. NamedIsHolder' /\ ReadsAreFresh'
      BY <1>3, LockIsAFile, LockFields, ZenonT(40)
      DEF WritePid, Goes, LockTypeOK, NamedIsHolder, ReadsAreFresh, HoldsLock, Holding
    <2>3. lock # NoLock /\ lock.by = p /\ ~lock.written => lock = LockFile(p, FALSE)
      BY DEF LockTypeOK, LockFiles, LockFile
    <2>4. lock' # NoLock /\ lock'.by = p => lock'.written
      BY <1>3, <2>3, LockIsAFile, LockFields DEF WritePid
    <2>5. text'[p] = "unread" /\ age'[p] = "unread"
      BY <1>3 DEF WritePid, ReadsAreFresh
    <2>6. ASSUME NEW q \in Starters \ {p}, lock' # NoLock, lock'.by = q, pc'[q] \in Holding
          PROVE  lock'.written /\ text'[q] \in {"unread", q} /\ age'[q] # "missing"
      BY <1>3, <2>6, LockIsAFile DEF WritePid, Goes, LockTypeOK, OwnerSeesItself
    <2>7. OwnerSeesItself'
      BY <2>4, <2>5, <2>6 DEF OwnerSeesItself
    <2> QED
      BY <2>1, <2>2, <2>7
  <1>4. ASSUME NEW p \in Starters,
               \/ StartCommand(p) \/ LockExists(p) \/ RetriesLock(p)
               \/ TakesForAbandoned(p) \/ WaitsForLock(p) \/ GivesUpLock(p)
        PROVE  Kept
    <2>1. PICK x \in {"create", "read", "reclaim", "lockedOut"} : pc' = [pc EXCEPT ![p] = x]
      BY <1>4
      DEF StartCommand, LockExists, RetriesLock, TakesForAbandoned, WaitsForLock, GivesUpLock, Goes
    <2>2. /\ UNCHANGED <<lock, stolen>>
          /\ pc[p] \in {"idle", "create", "read"}
          /\ \/ text' = [text EXCEPT ![p] = "unread"] /\ age' = [age EXCEPT ![p] = "unread"]
             \/ pc[p] # "read" /\ UNCHANGED <<text, age>>
      BY <1>4
      DEF StartCommand, LockExists, RetriesLock, TakesForAbandoned, WaitsForLock, GivesUpLock,
          ForgetsRead
    <2>3. HolderIsNamed'
      BY <2>1, <2>2 DEF LockTypeOK, HolderIsNamed, HoldsLock, Holding
    <2>4. NamedIsHolder'
      BY <2>1, <2>2, LockFields DEF LockTypeOK, NamedIsHolder, HoldsLock, Holding
    <2>5. ReadsAreFresh' /\ OwnerSeesItself'
      BY <2>1, <2>2 DEF LockTypeOK, ReadsAreFresh, OwnerSeesItself, Holding
    <2> QED
      BY <2>3, <2>4, <2>5
  <1>5. ASSUME NEW p \in Starters, BeginRelease(p) \/ ReleaseFindsOwn(p) PROVE Kept
    <2>1. /\ UNCHANGED <<lock, stolen>>
          /\ pc[p] \in {"held", "release"}
          /\ \/ pc' = [pc EXCEPT ![p] = "release"] /\ pc[p] = "held"
             \/ pc' = [pc EXCEPT ![p] = "unlock"]
          /\ \/ text' = [text EXCEPT ![p] = "unread"] /\ age' = [age EXCEPT ![p] = "unread"]
             \/ pc[p] = "held" /\ UNCHANGED <<text, age>>
      BY <1>5 DEF BeginRelease, ReleaseFindsOwn, Goes, ForgetsRead
    <2>2. HolderIsNamed'
      BY <2>1 DEF LockTypeOK, HolderIsNamed, HoldsLock, Holding
    <2>3. NamedIsHolder'
      BY <2>1, LockFields DEF LockTypeOK, NamedIsHolder, HoldsLock, Holding
    <2>4. ReadsAreFresh' /\ OwnerSeesItself'
      BY <2>1 DEF LockTypeOK, ReadsAreFresh, OwnerSeesItself, Holding
    <2> QED
      BY <2>2, <2>3, <2>4
  <1>6. ASSUME NEW p \in Starters, ReleaseFindsOther(p) PROVE Kept
    <2>1. ~(lock # NoLock /\ lock.by = p)
      BY <1>6, LockNames DEF ReleaseFindsOther, SeesOwnLock, HasRead, FoundNone, OwnerSeesItself, Holding
    <2>2. HolderIsNamed'
      BY <1>6 DEF ReleaseFindsOther, Goes, LockTypeOK, HolderIsNamed, HoldsLock, Holding
    <2>3. NamedIsHolder'
      BY <1>6, <2>1, LockFields
      DEF ReleaseFindsOther, Goes, LockTypeOK, NamedIsHolder, HoldsLock, Holding
    <2>4. ReadsAreFresh' /\ OwnerSeesItself'
      BY <1>6 DEF ReleaseFindsOther, Goes, ForgetsRead, LockTypeOK, ReadsAreFresh, OwnerSeesItself, Holding
    <2> QED
      BY <2>2, <2>3, <2>4
  <1>7. ASSUME NEW p \in Starters, StarterCrashes(p) PROVE Kept
    <2>1. HolderIsNamed'
      BY <1>7 DEF StarterCrashes, Goes, LockTypeOK, HolderIsNamed, HoldsLock, Holding
    <2>2. NamedIsHolder'
      BY <1>7, LockFields DEF StarterCrashes, Goes, LockTypeOK, NamedIsHolder, HoldsLock, Holding
    <2>3. ReadsAreFresh' /\ OwnerSeesItself'
      BY <1>7
      DEF StarterCrashes, Goes, ForgetsRead, LockTypeOK, ReadsAreFresh, OwnerSeesItself, Holding
    <2> QED
      BY <2>1, <2>2, <2>3
  <1>8. ASSUME NEW p \in Starters, ReadText(p) \/ ReadAge(p) PROVE Kept
    <2>1. /\ UNCHANGED <<lock, stolen, pc>>
          /\ pc[p] \in {"read", "release"}
          /\ \/ text' = [text EXCEPT ![p] = LockText] /\ UNCHANGED age
             \/ age' = [age EXCEPT ![p] = LockAge] /\ UNCHANGED text
      BY <1>8 DEF ReadText, ReadAge
    <2>2. HolderIsNamed' /\ NamedIsHolder'
      BY <2>1 DEF HolderIsNamed, NamedIsHolder, HoldsLock
    <2>3. ReadsAreFresh'
      BY <2>1 DEF LockTypeOK, ReadsAreFresh
    <2>4. OwnerSeesItself'
      BY <2>1 DEF LockTypeOK, OwnerSeesItself, LockText, LockAge
    <2> QED
      BY <2>2, <2>3, <2>4
  <1>9. ASSUME NEW p \in Starters, ReclaimLock(p) PROVE Kept
    <2>1. /\ lock' = NoLock
          /\ pc[p] = "reclaim" /\ pc' = [pc EXCEPT ![p] = "create"]
          /\ UNCHANGED <<text, age>>
          /\ ~stolen' => ~stolen /\ (lock = NoLock \/ ~RunsStart(lock.by))
      BY <1>9 DEF ReclaimLock, Goes, LockTypeOK
    <2>2. HolderIsNamed'
      <3> SUFFICES ASSUME ~stolen', NEW q \in Starters, HoldsLock(q)' PROVE FALSE
        BY DEF HolderIsNamed
      <3>1. HoldsLock(q)
        BY <2>1 DEF LockTypeOK, HoldsLock, Holding
      <3>2. lock # NoLock /\ lock.by = q
        BY <2>1, <3>1 DEF HolderIsNamed
      <3> QED
        BY <2>1, <3>1, <3>2 DEF RunsStart, HoldsLock, Holding, Ended
    <2>3. NamedIsHolder' /\ ReadsAreFresh' /\ OwnerSeesItself'
      BY <2>1 DEF LockTypeOK, NamedIsHolder, ReadsAreFresh, OwnerSeesItself
    <2> QED
      BY <2>2, <2>3
  <1>10. ASSUME NEW p \in Starters, Unlock(p) PROVE Kept
    <2>1. /\ lock' = NoLock /\ UNCHANGED <<text, age, stolen>>
          /\ pc[p] = "unlock" /\ pc' = [pc EXCEPT ![p] = "done"]
      BY <1>10 DEF Unlock, Goes
    <2>2. HolderIsNamed'
      BY <2>1 DEF LockTypeOK, HolderIsNamed, HoldsLock, Holding
    <2>3. NamedIsHolder' /\ ReadsAreFresh' /\ OwnerSeesItself'
      BY <2>1 DEF LockTypeOK, NamedIsHolder, ReadsAreFresh, OwnerSeesItself
    <2> QED
      BY <2>2, <2>3
  <1>11. ASSUME LockAges \/ UNCHANGED lockVars PROVE Kept
    BY <1>11
    DEF LockAges, lockVars, HolderIsNamed, NamedIsHolder, ReadsAreFresh, OwnerSeesItself, HoldsLock
  <1>12. Kept
    BY <1>2, <1>3, <1>4, <1>5, <1>6, <1>7, <1>8, <1>9, <1>10, <1>11 DEF LockNext, LockStep
  <1> QED
    BY <1>1, <1>12

LEMMA LInvHolds == LockSpec => []LInv
  <1> QED
    BY LockInitLInv, LInvStep, PTL DEF LockSpec

(***************************************************************************)
(* The state has the declared types.                                       *)
(***************************************************************************)
THEOREM LockTypes == LockSpec => []LockTypeOK
  <1>1. LInv => LockTypeOK
    BY DEF LInv
  <1> QED
    BY <1>1, LInvHolds, PTL

(***************************************************************************)
(* Mutual exclusion of `daemon:start' for any number of processes and any  *)
(* crashes, as long as no reclaim has removed the lock of a running one.   *)
(***************************************************************************)
THEOREM Exclusive == LockSpec => []OneStarterUntilStolen
  <1>1. LInv => OneStarterUntilStolen
    BY DEF LInv, HolderIsNamed, OneStarterUntilStolen, OneStarter
  <1> QED
    BY <1>1, LInvHolds, PTL

(***************************************************************************)
(* A start that ends, whether it held the lock or gave up waiting for it,  *)
(* leaves no lock of its own, for any number of processes.                 *)
(***************************************************************************)
THEOREM NoneLeftBehind == LockSpec => []EndedStartsHoldNoLock
  <1>1. LInv => EndedStartsHoldNoLock
    BY DEF LInv, NamedIsHolder, EndedStartsHoldNoLock, HoldsLock, Holding
  <1> QED
    BY <1>1, LInvHolds, PTL
=============================================================================
