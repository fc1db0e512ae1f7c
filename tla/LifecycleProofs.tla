--------------------------- MODULE LifecycleProofs ---------------------------
(***************************************************************************)
(* For any number of starts, daemons and kills.  The start lock works here *)
(* as it does alone; a kill that reports success has stopped its daemon;   *)
(* and a running daemon is recorded unless one of the accidents happened   *)
(* that the model names.                                                   *)
(***************************************************************************)
EXTENDS Lifecycle, StartLockProofs

LifeTypes ==
  /\ file \in Daemons \union {NoFile, Blank}
  /\ work \in [Starters -> {"look", "probe", "doubt", "spawn", "wait", "health",
                            "found", "started", "failed"} \union Removing]
  /\ rec \in [Starters -> Records]
  /\ main \in [Daemons -> {"off", "booting", "bound", "opened", "orphan", "wrote", "up"}]
  /\ down \in [Daemons -> {"no", "ending", "closing", "checking", "removing", "gone"}]
  /\ port \in [Daemons -> Ports \union {NoPort}]
  /\ listens \in SUBSET Daemons
  /\ kpc \in [Killers -> {"idle", "read", "signal", "wait", "stopped", "noRecord", "stuck"}
                         \union Removing]
  /\ krec \in [Killers -> Records]
  /\ accident \in BOOLEAN

-----------------------------------------------------------------------------
(* What always holds.                                                      *)

\* A start that does not have the lock yet has not begun its work.
LooksFirst == \A p \in Starters : pc[p] \in {"idle", "write"} \union Waiting => work[p] = "look"

\* Nothing of a daemon is there before it is spawned.
NotYetSpawned ==
  \A p \in Starters :
    work[p] \in {"look", "probe", "doubt", "spawn", "found"} \union Removing => main[p] = "off"

Written(d) == main[d] \in {"wrote", "up"}
RecordIsWritten == file \in Daemons => Written(file)

Active(d) == Alive(d) /\ down[d] = "no"
ActiveListens == \A d \in Daemons : Active(d) /\ main[d] # "booting" => d \in listens

\* What a kill knows of the daemon it read of, which once gone stays gone.
KillerKnows ==
  \A k \in Killers :
    /\ kpc[k] \in {"signal", "wait", "stopped"} \union Removing => krec[k] \in Daemons
    /\ krec[k] \in Daemons => main[krec[k]] # "off"
    /\ kpc[k] \in {"stopped"} \union Removing => down[krec[k]] = "gone"
    /\ kpc[k] = "stopped" => file # krec[k]

Always == LifeTypes /\ LooksFirst /\ NotYetSpawned /\ RecordIsWritten
          /\ ActiveListens /\ KillerKnows

-----------------------------------------------------------------------------
(* What holds until an accident.                                           *)

\* The start of d waits for it; or d has recorded itself and still is.
InProgress(d) == pc[d] = "held" /\ work[d] \in {"wait", "health"}
Settled(d) == Written(d) /\ (down[d] = "no" => file = d)
AccountedFor == \A d \in Daemons : Alive(d) => InProgress(d) \/ Settled(d)

\* While a start waits, the state file is its daemon's, or there is none.
FileOfTheNewDaemon ==
  \A d \in Daemons : InProgress(d) /\ Alive(d) =>
    /\ main[d] = "opened" => file = Blank
    /\ main[d] = "orphan" => file = NoFile
    /\ main[d] = "wrote" => file \in {d, NoFile}
    /\ main[d] = "up" /\ down[d] = "no" => file = d
    /\ work[d] = "health" => Settled(d)

\* What the holder of the lock knows: none, one, or its own daemon is active.
HolderKnows ==
  \A p \in Starters : pc[p] = "held" =>
    \A d \in Daemons : Active(d) =>
      /\ work[p] \notin {"doubt", "spawn"} \union Removing
      /\ work[p] = "probe" => d = rec[p]
      /\ work[p] \in {"wait", "health"} => d = p

Calm == ~accident /\ ~stolen
WhileCalm == Calm => AccountedFor /\ FileOfTheNewDaemon /\ HolderKnows

LifeInv == LInv /\ Always /\ WhileCalm

-----------------------------------------------------------------------------
(* The lock, as part of the life cycle, is the lock.                       *)

LEMMA LockRefined == [LifecycleNext]_lifeVars => [LockNext]_lockVars
BY DEF LifecycleNext, LockNext, lifeVars, Locking, StartWorks, LookForRecord,
  ProbeAnswered, ProbeFails, Doubts, StartRereads, StartErases, Spawn, SeesRecord,
  StartHealth, ChildExited, StartupTimeout, StartAlone, StartFinishes, StartDies,
  StartTime, MainStep, Listen, ListenFails, OpenState, WriteState, Chmod, ChmodFails,
  Signal, ShutdownStep, CloseServer, ServerClosed, ForceExit, ChecksRecord,
  RemovesRecord, DaemonCrashes, DaemonAlone, KillCommand, KillStep, KillReads,
  KillFindsDead, KillSignals, KillStopsWaiting, KillGivesUp, KillRereads, KillErases,
  KillAlone

\* No two starts work at a time.
LEMMA OneHolder ==
  ASSUME LInv, ~stolen, NEW p \in Starters, NEW q \in Starters,
         pc[p] = "held", pc[q] = "held"
  PROVE  p = q
BY DEF LInv, HolderIsNamed, HoldsLock, Holding

-----------------------------------------------------------------------------
(* Every step keeps what always holds.                                    *)

\* The steps of a start that holds the lock.
LEMMA StartsKeepAlways ==
  ASSUME Always, NEW p \in Starters, StartWorks(p)
  PROVE  Always'
<1> USE LifecycleConstants DEF Always, LifeTypes, LooksFirst, NotYetSpawned, RecordIsWritten,
      Written, ActiveListens, Active, Alive, KillerKnows, Records, Daemons, Removing, lockVars,
      daemonVars, killVars, startVars
<1>1. CASE LookForRecord(p)
  <2>1. RecordRead \in Records /\ (RecordRead # Nobody => RecordRead = file)
    BY DEF RecordRead
  <2>2. LifeTypes'
    BY <1>1, <2>1 DEF LookForRecord, Works, StartAlone
  <2>3. LooksFirst'
    BY <1>1 DEF LookForRecord, Works, StartAlone, Waiting
  <2>4. NotYetSpawned'
    BY <1>1 DEF LookForRecord, Works, StartAlone
  <2>5. RecordIsWritten' /\ ActiveListens' /\ KillerKnows'
    BY <1>1 DEF LookForRecord, StartAlone
  <2> QED BY <2>2, <2>3, <2>4, <2>5
<1>2. CASE ProbeAnswered(p)
  BY <1>2 DEF ProbeAnswered, Works, StartAlone
<1>3. CASE ProbeFails(p)
  BY <1>3 DEF ProbeFails, Works, ItHappens
<1>4. CASE Doubts(p)
  BY <1>4 DEF Doubts, Works, StartAlone
<1>5. CASE StartRereads(p)
  BY <1>5 DEF StartRereads, Works, StartAlone
<1>6. CASE StartErases(p)
  BY <1>6 DEF StartErases, Works, RemoveFile, ItHappens
<1>7. CASE Spawn(p)
  BY <1>7 DEF Spawn, Works
<1>8. CASE SeesRecord(p)
  BY <1>8 DEF SeesRecord, Works, StartAlone
<1>9. CASE StartHealth(p)
  BY <1>9 DEF StartHealth, Works, StartAlone
<1>10. CASE ChildExited(p)
  BY <1>10 DEF ChildExited, Works, StartAlone
<1>11. CASE StartupTimeout(p)
  BY <1>11 DEF StartupTimeout, Works, ItHappens
<1> QED BY <1>1, <1>2, <1>3, <1>4, <1>5, <1>6, <1>7, <1>8, <1>9, <1>10, <1>11 DEF
      StartWorks

\* The steps of a daemon, and what can happen to it.
LEMMA DaemonsKeepAlways ==
  ASSUME Always, NEW d \in Daemons, MainStep(d) \/ Signal(d) \/ ShutdownStep(d) \/ DaemonCrashes(d)
  PROVE  Always'
<1> USE LifecycleConstants DEF Always, LifeTypes, LooksFirst, NotYetSpawned, RecordIsWritten,
      Written, ActiveListens, Active, Alive, KillerKnows, Records, Daemons, Removing, lockVars,
      daemonVars, killVars, startVars
<1>1. CASE Listen(d)
  BY <1>1 DEF Listen, Boots, DaemonAlone
<1>2. CASE ListenFails(d)
  BY <1>2 DEF ListenFails, Exits, DaemonAlone
<1>3. CASE OpenState(d)
  BY <1>3 DEF OpenState, Boots, DaemonAlone
<1>4. CASE WriteState(d)
  BY <1>4 DEF WriteState, Boots, DaemonAlone
<1>5. CASE Chmod(d)
  BY <1>5 DEF Chmod, Boots, DaemonAlone
<1>6. CASE ChmodFails(d)
  BY <1>6 DEF ChmodFails, Exits, DaemonAlone
<1>7. CASE CloseServer(d)
  BY <1>7 DEF CloseServer, Downs, DaemonAlone
<1>8. CASE ServerClosed(d)
  BY <1>8 DEF ServerClosed, Downs, DaemonAlone
<1>9. CASE ForceExit(d)
  BY <1>9 DEF ForceExit, Downs, DaemonAlone
<1>10. CASE ChecksRecord(d)
  BY <1>10 DEF ChecksRecord, Downs, OwnsFile, DaemonAlone
<1>11. CASE RemovesRecord(d)
  BY <1>11 DEF RemovesRecord, Downs, RemoveFile, ItHappens
<1>12. CASE Signal(d)
  BY <1>12 DEF Signal, Signalled, Exits, DaemonAlone
<1>13. CASE DaemonCrashes(d)
  BY <1>13 DEF DaemonCrashes, Exits, DaemonAlone
<1> QED BY <1>1, <1>2, <1>3, <1>4, <1>5, <1>6, <1>7, <1>8, <1>9, <1>10, <1>11, <1>12,
      <1>13 DEF MainStep, ShutdownStep

\* The steps of a kill.
LEMMA KillsKeepAlways ==
  ASSUME Always, NEW k \in Killers, KillCommand(k) \/ KillStep(k)
  PROVE  Always'
<1> USE LifecycleConstants DEF Always, LifeTypes, LooksFirst, NotYetSpawned, RecordIsWritten,
      Written, ActiveListens, Active, Alive, KillerKnows, Records, Daemons, Removing, lockVars,
      daemonVars, killVars, startVars
<1>1. CASE KillCommand(k)
  BY <1>1 DEF KillCommand, Kills, KillAlone
<1>2. CASE KillReads(k)
  BY <1>2 DEF KillReads, Kills, KillAlone, RecordRead
<1>3. CASE KillFindsDead(k)
  BY <1>3 DEF KillFindsDead, Kills, KillAlone
<1>4. CASE KillSignals(k)
  BY <1>4 DEF KillSignals, Kills, Signalled
<1>5. CASE KillStopsWaiting(k)
  BY <1>5 DEF KillStopsWaiting, Kills, KillAlone, MayStopWaiting
<1>6. CASE KillGivesUp(k)
  BY <1>6 DEF KillGivesUp, Kills, KillAlone
<1>7. CASE KillRereads(k)
  BY <1>7 DEF KillRereads, Kills, KillAlone
<1>8. CASE KillErases(k)
  BY <1>8 DEF KillErases, Kills, RemoveFile, ItHappens
<1> QED BY <1>1, <1>2, <1>3, <1>4, <1>5, <1>6, <1>7, <1>8 DEF KillStep

\* What a lock step does to its process: who waits has waited, who holds the
\* lock with its PID in it had just created it or gives it up.
LEMMA LockMoves ==
  ASSUME LockTypeOK, NEW p \in Starters,
         StartCommand(p) \/ LockStep(p) \/ BeginRelease(p) \/ StarterCrashes(p)
  PROVE  /\ \A q \in Starters \ {p} : pc'[q] = pc[q]
         /\ pc'[p] \in {"idle", "write"} \union Waiting =>
              pc[p] \in {"idle", "write"} \union Waiting
         /\ pc'[p] = "held" => pc[p] = "write"
         /\ pc[p] = "held" => BeginRelease(p) \/ StarterCrashes(p)
<1>1. DOMAIN pc = Starters /\ pc = [q \in Starters |-> pc[q]]
  BY DEF LockTypeOK
<1>2. CASE StartCommand(p)
  BY <1>1, <1>2 DEF StartCommand, Waiting, Goes
<1>3. CASE LockStep(p)
  <2>1. CASE ReadText(p) \/ ReadAge(p)
    BY <2>1 DEF ReadText, ReadAge, Waiting
  <2>2. CASE CreateLock(p) \/ LockExists(p) \/ WritePid(p)
    BY <1>1, <2>2 DEF CreateLock, LockExists, WritePid, Waiting, Goes
  <2>3. CASE RetriesLock(p) \/ TakesForAbandoned(p) \/ ReclaimLock(p)
             \/ WaitsForLock(p) \/ GivesUpLock(p)
    BY <1>1, <2>3 DEF RetriesLock, TakesForAbandoned, ReclaimLock, WaitsForLock,
                      GivesUpLock, Waiting, Goes
  <2>4. CASE ReleaseFindsOwn(p) \/ ReleaseFindsOther(p) \/ Unlock(p)
    BY <1>1, <2>4 DEF ReleaseFindsOwn, ReleaseFindsOther, Unlock, Waiting, Goes
  <2> QED BY <1>3, <2>1, <2>2, <2>3, <2>4 DEF LockStep
<1>4. CASE BeginRelease(p)
  BY <1>1, <1>4 DEF BeginRelease, Waiting, Goes
<1>5. CASE StarterCrashes(p)
  BY <1>1, <1>5 DEF StarterCrashes, Waiting, Goes
<1> QED BY <1>2, <1>3, <1>4, <1>5

\* A stolen lock stays so.
LEMMA StolenStays ==
  ASSUME LockTypeOK, [LockNext]_lockVars, stolen
  PROVE  stolen'
BY DEF LockTypeOK, LockNext, lockVars, StartCommand, LockStep, BeginRelease,
       StarterCrashes, CreateLock, LockExists, WritePid, ReadText, ReadAge, RetriesLock,
       TakesForAbandoned, ReclaimLock, WaitsForLock, GivesUpLock, ReleaseFindsOwn,
       ReleaseFindsOther, Unlock, LockAges

\* The steps on the lock, which leave the rest alone.
LEMMA LocksKeepAlways ==
  ASSUME LockTypeOK, Always, UNCHANGED <<startVars, daemonVars, killVars>>,
         accident' \in BOOLEAN,
         \/ \E p \in Starters : \/ StartCommand(p) \/ LockStep(p)
                                \/ BeginRelease(p) \/ StarterCrashes(p)
         \/ LockAges
  PROVE  Always'
<1>1. LooksFirst'
  <2>1. ASSUME NEW p \in Starters,
               StartCommand(p) \/ LockStep(p) \/ BeginRelease(p) \/ StarterCrashes(p)
        PROVE  LooksFirst'
    BY <2>1, LockMoves DEF Always, LooksFirst, startVars
  <2>2. CASE LockAges
    BY <2>2 DEF Always, LooksFirst, startVars, LockAges
  <2> QED BY <2>1, <2>2
<1>2. LifeTypes' /\ NotYetSpawned' /\ RecordIsWritten' /\ ActiveListens' /\ KillerKnows'
  BY DEF Always, LifeTypes, NotYetSpawned, RecordIsWritten, Written, ActiveListens,
         Active, Alive, KillerKnows, startVars, daemonVars, killVars
<1> QED BY <1>1, <1>2 DEF Always

-----------------------------------------------------------------------------
(* Every step keeps what holds until an accident.                          *)

\* The steps of a start that holds the lock.
LEMMA StartsKeepCalm ==
  ASSUME LifeInv, Calm, Calm', NEW p \in Starters, StartWorks(p)
  PROVE  AccountedFor' /\ FileOfTheNewDaemon' /\ HolderKnows'
<1>0. /\ Always /\ AccountedFor /\ FileOfTheNewDaemon /\ HolderKnows
      /\ \A x, y \in Starters : pc[x] = "held" /\ pc[y] = "held" => x = y
  BY OneHolder DEF LifeInv, WhileCalm, Calm
<1> USE <1>0, LifecycleConstants DEF Always, LifeTypes, LooksFirst, NotYetSpawned,
      RecordIsWritten, Written, ActiveListens, Active, Alive, KillerKnows, Daemons, Records,
      Removing, AccountedFor, FileOfTheNewDaemon, HolderKnows, InProgress, Settled,
      Calm, lockVars, daemonVars, killVars, startVars
<1>1. CASE LookForRecord(p)
  BY <1>1 DEF LookForRecord, Works, StartAlone, RecordRead
<1>2. CASE ProbeAnswered(p)
  BY <1>2 DEF ProbeAnswered, Works, StartAlone
<1>3. CASE ProbeFails(p)
  <2>1. ~Healthy(rec[p])
    BY <1>3 DEF ProbeFails, ItHappens
  <2>2. pc[p] = "held" /\ work[p] = "probe"
    BY <1>3 DEF ProbeFails, Works
  <2>3. \A d \in Daemons : ~Active(d)
    <3> SUFFICES ASSUME NEW d \in Daemons, Active(d) PROVE FALSE
      OBVIOUS
    <3>1. d = rec[p] /\ ~InProgress(d)
      BY <2>2
    <3>2. d \in listens
      BY <3>1
    <3> QED BY <2>1, <3>1, <3>2 DEF Healthy
  <2> QED BY <1>3, <2>2, <2>3 DEF ProbeFails, Works
<1>4. CASE Doubts(p)
  BY <1>4 DEF Doubts, Works, StartAlone
<1>5. CASE StartRereads(p)
  BY <1>5 DEF StartRereads, Works, StartAlone
<1>6. CASE StartErases(p)
  BY <1>6 DEF StartErases, Works, RemoveFile, ItHappens
<1>7. CASE Spawn(p)
  BY <1>7 DEF Spawn, Works
<1>8. CASE SeesRecord(p)
  <2>1. Settled(p) /\ pc[p] = "held" /\ work[p] = "wait" /\ work'[p] = "health"
    BY <1>8 DEF SeesRecord, Works, OwnRecord
  <2>2. \A d \in Daemons : InProgress(d)' <=> InProgress(d)
    BY <1>8, <2>1 DEF SeesRecord, Works, StartAlone
  <2>3. AccountedFor'
    BY <1>8, <2>2 DEF SeesRecord, StartAlone
  <2>4. FileOfTheNewDaemon'
    BY <1>8, <2>1, <2>2 DEF SeesRecord, StartAlone, Works
  <2>5. HolderKnows'
    BY <1>8, <2>1 DEF SeesRecord, StartAlone, Works
  <2> QED BY <2>3, <2>4, <2>5
<1>9. CASE StartHealth(p)
  BY <1>9 DEF StartHealth, Works, StartAlone
<1>10. CASE ChildExited(p)
  BY <1>10 DEF ChildExited, Works, StartAlone
<1>11. CASE StartupTimeout(p)
  <2>1. ~Alive(p)
    BY <1>11 DEF StartupTimeout, ItHappens
  <2> QED BY <1>11, <2>1 DEF StartupTimeout, Works
<1> QED BY <1>1, <1>2, <1>3, <1>4, <1>5, <1>6, <1>7, <1>8, <1>9, <1>10, <1>11 DEF
      StartWorks

\* The steps of a daemon, and what can happen to it.
LEMMA DaemonsKeepCalm ==
  ASSUME LifeInv, Calm, Calm', NEW d \in Daemons, MainStep(d) \/ Signal(d) \/ ShutdownStep(d) \/ DaemonCrashes(d)
  PROVE  AccountedFor' /\ FileOfTheNewDaemon' /\ HolderKnows'
<1>0. /\ Always /\ AccountedFor /\ FileOfTheNewDaemon /\ HolderKnows
      /\ \A x, y \in Starters : pc[x] = "held" /\ pc[y] = "held" => x = y
  BY OneHolder DEF LifeInv, WhileCalm, Calm
<1> USE <1>0, LifecycleConstants DEF Always, LifeTypes, LooksFirst, NotYetSpawned,
      RecordIsWritten, Written, ActiveListens, Active, Alive, KillerKnows, Daemons, Records,
      Removing, AccountedFor, FileOfTheNewDaemon, HolderKnows, InProgress, Settled,
      Calm, lockVars, daemonVars, killVars, startVars
<1>1. CASE Listen(d)
  BY <1>1 DEF Listen, Boots, DaemonAlone
<1>2. CASE ListenFails(d)
  BY <1>2 DEF ListenFails, Exits, DaemonAlone
<1>3. CASE OpenState(d)
  BY <1>3 DEF OpenState, Boots, DaemonAlone
<1>4. CASE WriteState(d)
  BY <1>4 DEF WriteState, Boots, DaemonAlone
<1>5. CASE Chmod(d)
  BY <1>5 DEF Chmod, Boots, DaemonAlone
<1>6. CASE ChmodFails(d)
  BY <1>6 DEF ChmodFails, Exits, DaemonAlone
<1>7. CASE CloseServer(d)
  BY <1>7 DEF CloseServer, Downs, DaemonAlone
<1>8. CASE ServerClosed(d)
  BY <1>8 DEF ServerClosed, Downs, DaemonAlone
<1>9. CASE ForceExit(d)
  BY <1>9 DEF ForceExit, Downs, DaemonAlone
<1>10. CASE ChecksRecord(d)
  BY <1>10 DEF ChecksRecord, Downs, OwnsFile, DaemonAlone
<1>11. CASE RemovesRecord(d)
  <2>1. file \in Daemons => file = d
    BY <1>11 DEF RemovesRecord, ItHappens
  <2> QED BY <1>11, <2>1 DEF RemovesRecord, Downs, RemoveFile
<1>12. CASE Signal(d)
  BY <1>12 DEF Signal, Signalled, Exits, DaemonAlone
<1>13. CASE DaemonCrashes(d)
  BY <1>13 DEF DaemonCrashes, Exits, DaemonAlone
<1> QED BY <1>1, <1>2, <1>3, <1>4, <1>5, <1>6, <1>7, <1>8, <1>9, <1>10, <1>11, <1>12,
      <1>13 DEF MainStep, ShutdownStep

\* The steps of a kill.
LEMMA KillsKeepCalm ==
  ASSUME LifeInv, Calm, Calm', NEW k \in Killers, KillCommand(k) \/ KillStep(k)
  PROVE  AccountedFor' /\ FileOfTheNewDaemon' /\ HolderKnows'
<1>0. /\ Always /\ AccountedFor /\ FileOfTheNewDaemon /\ HolderKnows
      /\ \A x, y \in Starters : pc[x] = "held" /\ pc[y] = "held" => x = y
  BY OneHolder DEF LifeInv, WhileCalm, Calm
<1> USE <1>0, LifecycleConstants DEF Always, LifeTypes, LooksFirst, NotYetSpawned,
      RecordIsWritten, Written, ActiveListens, Active, Alive, KillerKnows, Daemons, Records,
      Removing, AccountedFor, FileOfTheNewDaemon, HolderKnows, InProgress, Settled,
      Calm, lockVars, daemonVars, killVars, startVars
<1>1. CASE KillCommand(k)
  BY <1>1 DEF KillCommand, Kills, KillAlone
<1>2. CASE KillReads(k)
  BY <1>2 DEF KillReads, Kills, KillAlone, RecordRead
<1>3. CASE KillFindsDead(k)
  BY <1>3 DEF KillFindsDead, Kills, KillAlone
<1>4. CASE KillSignals(k)
  BY <1>4 DEF KillSignals, Kills, Signalled
<1>5. CASE KillStopsWaiting(k)
  BY <1>5 DEF KillStopsWaiting, Kills, KillAlone, MayStopWaiting
<1>6. CASE KillGivesUp(k)
  BY <1>6 DEF KillGivesUp, Kills, KillAlone
<1>7. CASE KillRereads(k)
  BY <1>7 DEF KillRereads, Kills, KillAlone
<1>8. CASE KillErases(k)
  <2>1. file \in Daemons => file = krec[k]
    BY <1>8 DEF KillErases, ItHappens
  <2> QED BY <1>8, <2>1 DEF KillErases, Kills, RemoveFile
<1> QED BY <1>1, <1>2, <1>3, <1>4, <1>5, <1>6, <1>7, <1>8 DEF KillStep

\* The steps on the lock: nobody's work is cut short without an accident.
LEMMA LocksKeepCalm ==
  ASSUME LifeInv, Calm, UNCHANGED <<startVars, daemonVars>>,
         \/ \E p \in Starters :
              \/ StartCommand(p) \/ LockStep(p)
              \/ BeginRelease(p) /\ work[p] \notin {"wait", "health"}
              \/ StarterCrashes(p) /\ ~InProgress(p)
         \/ LockAges
  PROVE  AccountedFor' /\ FileOfTheNewDaemon' /\ HolderKnows'
<1>0. /\ LooksFirst /\ AccountedFor /\ FileOfTheNewDaemon /\ HolderKnows /\ LockTypeOK
      /\ UNCHANGED <<work, rec, file, main, down>>
  BY DEF LifeInv, LInv, Always, WhileCalm, startVars, daemonVars
<1>1. \A p \in Starters : pc'[p] = "held" => pc[p] = "held" \/ work[p] = "look"
  BY <1>0, LockMoves DEF LooksFirst, LockAges
<1>2. \A d \in Starters : InProgress(d)' <=> InProgress(d)
  <2>1. ASSUME NEW d \in Starters, InProgress(d) PROVE pc'[d] = "held"
    <3>1. pc[d] = "held" /\ work[d] \in {"wait", "health"}
      BY <2>1 DEF InProgress
    <3>2. CASE LockAges
      BY <3>1, <3>2 DEF LockAges
    <3>3. ASSUME NEW p \in Starters,
                 \/ StartCommand(p) \/ LockStep(p)
                 \/ BeginRelease(p) /\ work[p] \notin {"wait", "health"}
                 \/ StarterCrashes(p) /\ ~InProgress(p)
          PROVE  pc'[d] = "held"
      <4>1. CASE d # p
        BY <1>0, <3>1, <3>3, <4>1, LockMoves
      <4>2. CASE d = p
        <5>1. ~LockStep(p) /\ ~StartCommand(p)
          BY <3>1, <4>2
             DEF StartCommand, LockStep, CreateLock, LockExists, WritePid, ReadText, ReadAge,
                 RetriesLock, TakesForAbandoned, ReclaimLock, WaitsForLock, GivesUpLock,
                 ReleaseFindsOwn, ReleaseFindsOther, Unlock
        <5> QED BY <2>1, <3>1, <3>3, <4>2, <5>1
      <4> QED BY <4>1, <4>2
    <3> QED BY <3>2, <3>3
  <2>2. ASSUME NEW d \in Starters, pc'[d] = "held", work'[d] \in {"wait", "health"}
        PROVE  InProgress(d)
    BY <1>0, <1>1, <2>2 DEF InProgress
  <2> QED BY <1>0, <2>1, <2>2 DEF InProgress
<1>3. AccountedFor'
  BY <1>0, <1>2 DEF AccountedFor, Daemons, Settled, Written, Alive
<1>4. FileOfTheNewDaemon'
  BY <1>0, <1>2 DEF FileOfTheNewDaemon, Daemons, Settled, Written, Alive
<1>5. HolderKnows'
  BY <1>0, <1>1 DEF HolderKnows, Active, Alive, Removing
<1> QED BY <1>3, <1>4, <1>5

-----------------------------------------------------------------------------
LEMMA LifeStarts == LifecycleInit => LifeInv
<1> SUFFICES ASSUME LifecycleInit PROVE LifeInv
  OBVIOUS
<1>1. LInv
  BY LockInitLInv DEF LifecycleInit
<1>2. Always
  BY LifecycleConstants
     DEF LifecycleInit, Always, LifeTypes, LooksFirst, NotYetSpawned, RecordIsWritten,
         ActiveListens, Active, Alive, KillerKnows, Records, Daemons, Removing
<1>3. WhileCalm
  BY DEF LifecycleInit, LockInit, WhileCalm, AccountedFor, FileOfTheNewDaemon,
         HolderKnows, Active, Alive, Daemons
<1> QED BY <1>1, <1>2, <1>3 DEF LifeInv

LEMMA LifeSteps == LifeInv /\ [LifecycleNext]_lifeVars => LifeInv'
<1> SUFFICES ASSUME LifeInv, [LifecycleNext]_lifeVars PROVE LifeInv'
  OBVIOUS
<1>1. LockTypeOK /\ Always
  BY DEF LifeInv, LInv
<1>2. LInv'
  BY LockRefined, LInvStep DEF LifeInv
\* What goes on elsewhere than on the lock.
<1>3. ASSUME Always', accident => accident',
             Calm /\ Calm' => AccountedFor' /\ FileOfTheNewDaemon' /\ HolderKnows'
      PROVE  LifeInv'
  <2>1. ~stolen' => ~stolen
    BY <1>1, LockRefined, StolenStays
  <2>2. Calm' => Calm
    BY <1>3, <2>1 DEF Calm
  <2> QED BY <1>2, <1>3, <2>2 DEF LifeInv, WhileCalm
<1>4. ASSUME NEW p \in Starters, StartWorks(p) PROVE LifeInv'
  <2>1. accident => accident'
    BY <1>4 DEF StartWorks, LookForRecord, ProbeAnswered, ProbeFails, Doubts, StartRereads,
       StartErases, Spawn, SeesRecord, StartHealth, ChildExited, StartupTimeout,
       StartAlone, ItHappens
  <2> QED BY <1>1, <1>3, <1>4, <2>1, StartsKeepAlways, StartsKeepCalm
<1>5. ASSUME NEW d \in Daemons,
             MainStep(d) \/ Signal(d) \/ ShutdownStep(d) \/ DaemonCrashes(d)
      PROVE  LifeInv'
  <2>1. accident => accident'
    BY <1>5 DEF MainStep, Signal, ShutdownStep, DaemonCrashes, Listen, ListenFails,
       OpenState, WriteState, Chmod, ChmodFails, CloseServer, ServerClosed, ForceExit,
       ChecksRecord, RemovesRecord, DaemonAlone, ItHappens
  <2> QED BY <1>1, <1>3, <1>5, <2>1, DaemonsKeepAlways, DaemonsKeepCalm
<1>6. ASSUME NEW k \in Killers, KillCommand(k) \/ KillStep(k) PROVE LifeInv'
  <2>1. accident => accident'
    BY <1>6 DEF KillCommand, KillStep, KillReads, KillFindsDead, KillSignals,
       KillStopsWaiting, KillGivesUp, KillRereads, KillErases, KillAlone, ItHappens
  <2> QED BY <1>1, <1>3, <1>6, <2>1, KillsKeepAlways, KillsKeepCalm
<1>7. ASSUME NEW p \in Starters, Locking(p) \/ StartFinishes(p) PROVE LifeInv'
  <2>1. /\ UNCHANGED <<startVars, daemonVars, killVars>> /\ accident' = accident
        /\ \/ StartCommand(p) \/ LockStep(p)
           \/ BeginRelease(p) /\ work[p] \notin {"wait", "health"}
    BY <1>7 DEF Locking, StartFinishes
  <2>2. accident' \in BOOLEAN
    BY <1>1, <2>1 DEF Always, LifeTypes
  <2>3. Always'
    BY <1>1, <2>1, <2>2, LocksKeepAlways
  <2>4. Calm => AccountedFor' /\ FileOfTheNewDaemon' /\ HolderKnows'
    BY <2>1, LocksKeepCalm
  <2> QED BY <1>3, <2>1, <2>3, <2>4
<1>8. ASSUME NEW p \in Starters, StartDies(p) PROVE LifeInv'
  <2>1. /\ UNCHANGED <<startVars, daemonVars, killVars>> /\ StarterCrashes(p)
        /\ accident' = (accident \/ InProgress(p))
    BY <1>8 DEF StartDies, ItHappens, InProgress
  <2>2. accident' \in BOOLEAN /\ (accident => accident')
    BY <2>1
  <2>3. Always'
    BY <1>1, <2>1, <2>2, LocksKeepAlways
  <2>4. Calm' => ~InProgress(p)
    BY <2>1 DEF Calm
  <2>5. Calm /\ Calm' => AccountedFor' /\ FileOfTheNewDaemon' /\ HolderKnows'
    BY <2>1, <2>4, LocksKeepCalm
  <2> QED BY <1>3, <2>2, <2>3, <2>5
<1>9. CASE StartTime
  <2>1. UNCHANGED <<startVars, daemonVars, killVars>> /\ accident' = accident /\ LockAges
    BY <1>9 DEF StartTime
  <2>2. accident' \in BOOLEAN
    BY <1>1, <2>1 DEF Always, LifeTypes
  <2>3. Always'
    BY <1>1, <2>1, <2>2, LocksKeepAlways
  <2>4. Calm => AccountedFor' /\ FileOfTheNewDaemon' /\ HolderKnows'
    BY <2>1, LocksKeepCalm
  <2> QED BY <1>3, <2>1, <2>3, <2>4
<1>10. CASE UNCHANGED lifeVars
  BY <1>10 DEF lifeVars, lockVars, startVars, daemonVars, killVars, LifeInv, LInv, LockTypeOK,
     HolderIsNamed, NamedIsHolder, ReadsAreFresh, OwnerSeesItself, HoldsLock, Always, LifeTypes,
     LooksFirst, NotYetSpawned, RecordIsWritten, Written, ActiveListens, Active, Alive,
     KillerKnows, WhileCalm, Calm, AccountedFor, FileOfTheNewDaemon, HolderKnows,
     InProgress, Settled
<1> QED BY <1>4, <1>5, <1>6, <1>7, <1>8, <1>9, <1>10 DEF LifecycleNext

LEMMA LifeInvariant == LifecycleSpec => []LifeInv
BY LifeStarts, LifeSteps, PTL DEF LifecycleSpec

(***************************************************************************)
(* The starts, the daemons and the kills keep their types, the records     *)
(* they read and the state file itself included.                           *)
(***************************************************************************)
THEOREM LifecycleTypes == LifecycleSpec => []LifecycleTypeOK
<1>1. LifeInv => LifecycleTypeOK
  BY DEF LifeInv, LInv, Always, LifeTypes, LifecycleTypeOK
<1> QED BY <1>1, LifeInvariant, PTL

(***************************************************************************)
(* What a start does while it holds the lock, and everything the daemons   *)
(* and the kills do, leaves the lock to acquireStartLock() and             *)
(* releaseStartLock(): every behaviour here is one of the lock alone.      *)
(***************************************************************************)
THEOREM LifecycleImplementsLock == LifecycleSpec => LockSpec
<1>1. LifecycleInit => LockInit
  BY DEF LifecycleInit
<1> QED BY <1>1, LockRefined, PTL DEF LifecycleSpec, LockSpec

(***************************************************************************)
(* daemon:kill: when it reports the daemon stopped, that daemon is gone    *)
(* for good and the state file does not name it, whatever other starts,    *)
(* kills and daemons did to the file between its steps.                    *)
(***************************************************************************)
THEOREM KillTellsTheTruth == LifecycleSpec => []KilledMeansStopped
<1>1. LifeInv => KilledMeansStopped
  BY DEF LifeInv, Always, KillerKnows, KilledMeansStopped, Alive
<1> QED BY <1>1, LifeInvariant, PTL

(***************************************************************************)
(* daemon:start and the daemons: for any number of them, every daemon in   *)
(* service is the recorded one, so there is one, until one of the named    *)
(* accidents happens or a lock is stolen.                                  *)
(***************************************************************************)
THEOREM RunningIsRecorded == LifecycleSpec => []RecordedUnlessAccident
<1>1. LifeInv => RecordedUnlessAccident
  BY DEF LifeInv, WhileCalm, Calm, AccountedFor, FileOfTheNewDaemon, InProgress, Settled,
         RecordedUnlessAccident, RunningDaemonIsRecorded, InService, Alive
<1> QED BY <1>1, LifeInvariant, PTL
=============================================================================
