----------------------------- MODULE Lifecycle -----------------------------
(***************************************************************************)
(* Processes around the state file: `daemon:start', which under the start  *)
(* lock looks for a running daemon and spawns one if it finds none; the    *)
(* daemons, which bind a port, record themselves, shut down and remove     *)
(* their record; and `daemon:kill', which signals the recorded daemon.     *)
(* A daemon is named by the start that spawns it.                          *)
(***************************************************************************)
EXTENDS StartLock

CONSTANTS Ports,   \* the ports a daemon may bind
          NoPort,
          NoFile,  \* no state file
          Blank,   \* a state file that does not parse: opened and not yet written
          Nobody,  \* no daemon
          Killers  \* processes running `daemon:kill', each once

ASSUME LifecycleConstants == /\ NoPort \notin Ports
                             /\ {NoFile, Blank, Nobody} \cap Starters = {}
                             /\ NoFile # Blank

VARIABLES
  file,      \* the state file: a record, Blank or NoFile
  work, rec, \* what each start does under the lock, and the record it read
  main,      \* how far each daemon's main() is
  down,      \* how far its shutdown is, which runs beside main()
  port,      \* the port it bound
  listens,   \* the daemons whose server accepts connections
  kpc, krec, \* what each kill does, and the record it read
  \* History variable: something happened that can leave a daemon unrecorded.
  accident

startVars == <<work, rec>>
daemonVars == <<file, main, down, port, listens>>
killVars == <<kpc, krec>>
lifeVars == <<lockVars, startVars, daemonVars, killVars, accident>>

Daemons == Starters
Records == Daemons \union {Nobody}
Removing == {"reread", "erase"}

LifecycleTypeOK ==
  /\ LockTypeOK
  /\ file \in Daemons \union {NoFile, Blank}
  /\ work \in [Starters -> {"look", "probe", "doubt", "spawn", "wait", "health",
                            "found", "started", "failed"} \union Removing]
  /\ rec \in [Starters -> Records]
  /\ main \in [Daemons -> {"off", "booting", "bound", "opened", "orphan", "wrote", "up"}]
  /\ down \in [Daemons -> {"no", "ending", "closing", "checking", "removing", "gone"}]
  /\ port \in [Daemons -> Ports \union {NoPort}]
  /\ listens \in SUBSET Daemons
  /\ kpc \in [Killers -> {"idle", "read", "signal", "wait", "stopped", "noRecord", "stuck"}
                         \union Removing]
  /\ krec \in [Killers -> Records]
  /\ accident \in BOOLEAN

LifecycleInit ==
  /\ LockInit
  /\ file = NoFile
  /\ work = [p \in Starters |-> "look"]
  /\ rec = [p \in Starters |-> Nobody]
  /\ main = [d \in Daemons |-> "off"]
  /\ down = [d \in Daemons |-> "no"]
  /\ port = [d \in Daemons |-> NoPort]
  /\ listens = {}
  /\ kpc = [k \in Killers |-> "idle"]
  /\ krec = [k \in Killers |-> Nobody]
  /\ accident = FALSE

Alive(d) == main[d] # "off" /\ down[d] # "gone"

\* GET /health at the recorded port, whoever answers there.
Healthy(d) == \E e \in listens : port[e] = port[d]

RecordRead_Unparsed == file
RecordRead_Unreadable == Nobody
\* readDaemonState(): null unless the file parses.
RecordRead == IF file \in Daemons THEN file ELSE Nobody

\* unlink(): a daemon that has the file open goes on writing to it, unseen.
RemoveFile ==
  /\ file' = NoFile
  /\ main' = [d \in Daemons |-> IF main[d] = "opened" THEN "orphan" ELSE main[d]]

Exits(d) == /\ down' = [down EXCEPT ![d] = "gone"]
            /\ listens' = listens \ {d}

ItHappens(bad) == accident' = (accident \/ bad)

-----------------------------------------------------------------------------
(* daemon:start, while it holds the lock.                                  *)

Works(p, here, there) == /\ pc[p] = "held" /\ work[p] = here
                         /\ work' = [work EXCEPT ![p] = there]
StartAlone == UNCHANGED <<lockVars, daemonVars, killVars, accident>>

LookForRecord(p) ==
  /\ rec' = [rec EXCEPT ![p] = RecordRead]
  /\ Works(p, "look", IF RecordRead = Nobody THEN "spawn" ELSE "probe")
  /\ StartAlone

ProbeAnswered(p) ==
  /\ Works(p, "probe", "found")
  /\ Healthy(rec[p])
  /\ UNCHANGED rec /\ StartAlone

\* A slow daemon may miss a probe it could have answered.
ProbeFails(p) ==
  /\ Works(p, "probe", "doubt")
  /\ Healthy(rec[p]) => "slow" \in Faults
  /\ ItHappens(Healthy(rec[p]))
  /\ UNCHANGED <<lockVars, rec, daemonVars, killVars>>

\* Only the record of a process that is gone is removed.
RecordKept(p) == Alive(rec[p])

Doubts(p) ==
  /\ Works(p, "doubt", IF RecordKept(p) THEN "spawn" ELSE "reread")
  /\ UNCHANGED rec /\ StartAlone

StartRereads(p) ==
  /\ Works(p, "reread", IF file = rec[p] THEN "erase" ELSE "spawn")
  /\ UNCHANGED rec /\ StartAlone

StartErases(p) ==
  /\ Works(p, "erase", "spawn")
  /\ RemoveFile
  /\ ItHappens(file \in Daemons \ {rec[p]})
  /\ UNCHANGED <<lockVars, rec, down, port, listens, killVars>>

Spawn(p) ==
  /\ Works(p, "spawn", "wait")
  /\ main' = [main EXCEPT ![p] = "booting"]
  /\ UNCHANGED <<lockVars, rec, file, down, port, listens, killVars, accident>>

OwnRecord_Any(p) == file \in Daemons
\* Only the daemon just spawned counts, never an older record.
OwnRecord(p) == file = p

SeesRecord(p) ==
  /\ Works(p, "wait", "health")
  /\ OwnRecord(p)
  /\ UNCHANGED rec /\ StartAlone

StartHealth(p) ==
  /\ \/ Works(p, "health", "started") /\ Healthy(p)
     \/ Works(p, "health", "wait")
  /\ UNCHANGED rec /\ StartAlone

ChildExited(p) ==
  /\ Works(p, "wait", "failed")
  /\ down[p] = "gone"
  /\ UNCHANGED rec /\ StartAlone

\* STARTUP_TIMEOUT_MS have passed: the child, if it lives, is left to itself.
StartupTimeout(p) ==
  /\ Works(p, "wait", "failed")
  /\ Alive(p) => "slow" \in Faults
  /\ ItHappens(Alive(p))
  /\ UNCHANGED <<lockVars, rec, daemonVars, killVars>>

StartWorks(p) ==
  \/ LookForRecord(p) \/ ProbeAnswered(p) \/ ProbeFails(p) \/ Doubts(p)
  \/ StartRereads(p) \/ StartErases(p) \/ Spawn(p) \/ SeesRecord(p)
  \/ StartHealth(p) \/ ChildExited(p) \/ StartupTimeout(p)

\* The finally block: however the start ended, the lock is released.
StartFinishes(p) ==
  /\ work[p] \in {"found", "started", "failed"}
  /\ BeginRelease(p)
  /\ UNCHANGED <<startVars, daemonVars, killVars, accident>>

Locking(p) ==
  /\ StartCommand(p) \/ LockStep(p)
  /\ UNCHANGED <<startVars, daemonVars, killVars, accident>>

\* A child outlives the start that spawned it.
StartDies(p) ==
  /\ StarterCrashes(p)
  /\ ItHappens(pc[p] = "held" /\ work[p] \in {"wait", "health"})
  /\ UNCHANGED <<startVars, daemonVars, killVars>>

StartTime ==
  /\ LockAges
  /\ UNCHANGED <<startVars, daemonVars, killVars, accident>>

-----------------------------------------------------------------------------
(* The daemon: main().                                                     *)

Boots(d, here, there) == /\ Alive(d) /\ main[d] = here
                         /\ main' = [main EXCEPT ![d] = there]
DaemonAlone == UNCHANGED <<lockVars, startVars, killVars, accident>>

\* The first free port of the range.
Free(n) == \A e \in listens : port[e] # n

Listen(d) ==
  /\ Boots(d, "booting", "bound")
  /\ down[d] \in {"no", "ending"}
  /\ \E n \in Ports : /\ Free(n) /\ \A low \in Ports : low < n => ~Free(low)
                      /\ port' = [port EXCEPT ![d] = n]
  /\ listens' = listens \union {d}
  /\ UNCHANGED <<file, down>> /\ DaemonAlone

ListenFails(d) ==
  /\ Alive(d) /\ main[d] = "booting"
  /\ Exits(d)
  /\ UNCHANGED <<file, main, port>> /\ DaemonAlone

\* writeFile(): opened and cut to nothing, then written; then chmod().
OpenState(d) ==
  /\ Boots(d, "bound", "opened")
  /\ file' = Blank
  /\ UNCHANGED <<down, port, listens>> /\ DaemonAlone

WriteState(d) ==
  /\ \/ Boots(d, "opened", "wrote") /\ file' = d
     \/ Boots(d, "orphan", "wrote") /\ UNCHANGED file
  /\ UNCHANGED <<down, port, listens>> /\ DaemonAlone

Chmod(d) ==
  /\ file # NoFile
  /\ Boots(d, "wrote", "up")
  /\ UNCHANGED <<file, down, port, listens>> /\ DaemonAlone

ChmodFails(d) ==
  /\ file = NoFile
  /\ Alive(d) /\ main[d] = "wrote"
  /\ Exits(d)
  /\ UNCHANGED <<file, main, port>> /\ DaemonAlone

MainStep(d) == \/ Listen(d) \/ ListenFails(d) \/ OpenState(d) \/ WriteState(d)
               \/ Chmod(d) \/ ChmodFails(d)

-----------------------------------------------------------------------------
(* The daemon: onSignal(), shutdown() and forceExit().                     *)

Downs(d, here, there) == /\ Alive(d) /\ down[d] \in here
                         /\ down' = [down EXCEPT ![d] = there]

\* A second signal means "stop now".
Signalled(d) ==
  down' = [down EXCEPT ![d] = IF @ = "no" THEN "ending"
                              ELSE IF @ \in {"ending", "closing"} THEN "checking" ELSE @]

\* From outside; before the handlers are installed it kills.
Signal(d) ==
  /\ "signal" \in Faults
  /\ Alive(d)
  /\ \/ Signalled(d) /\ UNCHANGED listens
     \/ main[d] = "booting" /\ Exits(d)
  /\ UNCHANGED <<file, main, port>> /\ DaemonAlone

\* The session has been ended; server.close() stops listening at once ...
CloseServer(d) ==
  /\ Downs(d, {"ending"}, "closing")
  /\ listens' = listens \ {d}
  /\ UNCHANGED <<file, main, port>> /\ DaemonAlone

\* ... and returns when the requests in flight are answered.
ServerClosed(d) ==
  /\ Downs(d, {"closing"}, "checking")
  /\ UNCHANGED <<file, main, port, listens>> /\ DaemonAlone

ForceExit(d) ==
  /\ Downs(d, {"ending", "closing"}, "checking")
  /\ UNCHANGED <<file, main, port, listens>> /\ DaemonAlone

OwnsFile_Unchecked(d) == TRUE
OwnsFile(d) == file = d

\* removeDaemonStateIfOwnedBy(process.pid), and exit.
ChecksRecord(d) ==
  /\ \/ OwnsFile(d) /\ Downs(d, {"checking"}, "removing") /\ UNCHANGED listens
     \/ ~OwnsFile(d) /\ Downs(d, {"checking"}, "gone") /\ listens' = listens \ {d}
  /\ UNCHANGED <<file, main, port>> /\ DaemonAlone

RemovesRecord(d) ==
  /\ Downs(d, {"removing"}, "gone")
  /\ listens' = listens \ {d}
  /\ RemoveFile
  /\ ItHappens(file \in Daemons \ {d})
  /\ UNCHANGED <<lockVars, startVars, port, killVars>>

DaemonCrashes(d) ==
  /\ "crash" \in Faults
  /\ Alive(d)
  /\ Exits(d)
  /\ UNCHANGED <<file, main, port>> /\ DaemonAlone

ShutdownStep(d) == \/ CloseServer(d) \/ ServerClosed(d) \/ ForceExit(d)
                   \/ ChecksRecord(d) \/ RemovesRecord(d)

-----------------------------------------------------------------------------
(* daemon:kill.                                                            *)

Kills(k, here, there) == /\ kpc[k] = here
                         /\ kpc' = [kpc EXCEPT ![k] = there]
KillAlone == UNCHANGED <<lockVars, startVars, daemonVars, accident>>

KillCommand(k) == /\ Kills(k, "idle", "read")
                  /\ UNCHANGED krec /\ KillAlone

KillReads(k) ==
  /\ Kills(k, "read", IF RecordRead = Nobody THEN "noRecord" ELSE "signal")
  /\ krec' = [krec EXCEPT ![k] = RecordRead]
  /\ KillAlone

KillFindsDead(k) ==
  /\ Kills(k, "signal", "reread")
  /\ ~Alive(krec[k])
  /\ UNCHANGED krec /\ KillAlone

KillSignals(k) ==
  /\ Kills(k, "signal", "wait")
  /\ Alive(krec[k])
  /\ Signalled(krec[k])
  /\ UNCHANGED <<lockVars, startVars, file, main, port, listens, krec, accident>>

MayStopWaiting_Early(k) == TRUE
MayStopWaiting(k) == ~Alive(krec[k])

KillStopsWaiting(k) ==
  /\ Kills(k, "wait", "reread")
  /\ MayStopWaiting(k)
  /\ UNCHANGED krec /\ KillAlone

KillGivesUp(k) ==
  /\ Kills(k, "wait", "stuck")
  /\ UNCHANGED krec /\ KillAlone

KillRereads(k) ==
  /\ Kills(k, "reread", IF file = krec[k] THEN "erase" ELSE "stopped")
  /\ UNCHANGED krec /\ KillAlone

KillErases(k) ==
  /\ Kills(k, "erase", "stopped")
  /\ RemoveFile
  /\ ItHappens(file \in Daemons \ {krec[k]})
  /\ UNCHANGED <<lockVars, startVars, down, port, listens, krec>>

KillStep(k) == \/ KillReads(k) \/ KillFindsDead(k) \/ KillSignals(k)
               \/ KillStopsWaiting(k) \/ KillGivesUp(k) \/ KillRereads(k) \/ KillErases(k)

-----------------------------------------------------------------------------
LifecycleNext ==
  \/ \E p \in Starters : Locking(p) \/ StartWorks(p) \/ StartFinishes(p) \/ StartDies(p)
  \/ StartTime
  \/ \E d \in Daemons : MainStep(d) \/ Signal(d) \/ ShutdownStep(d) \/ DaemonCrashes(d)
  \/ \E k \in Killers : KillCommand(k) \/ KillStep(k)

LifecycleSpec == LifecycleInit /\ [][LifecycleNext]_lifeVars

-----------------------------------------------------------------------------
(* Properties.                                                             *)

InService(d) == main[d] = "up" /\ down[d] = "no"

(***************************************************************************)
(* No "running daemon the CLI cannot find": the state file names every     *)
(* daemon in service.  It follows that there is only one.                  *)
(***************************************************************************)
RunningDaemonIsRecorded == \A d \in Daemons : InService(d) => file = d

(***************************************************************************)
(* The same, unless a start died waiting for its daemon or gave up on it   *)
(* alive, a live daemon missed a probe, a removal hit a record written     *)
(* after its check, or a start lost its lock to a reclaim: these are all   *)
(* the ways to lose a running daemon.                                      *)
(***************************************************************************)
RecordedUnlessAccident == ~accident /\ ~stolen => RunningDaemonIsRecorded

(***************************************************************************)
(* A kill that reports the recorded daemon stopped, by it or before, has   *)
(* left neither that daemon running nor its record.                        *)
(***************************************************************************)
KilledMeansStopped ==
  \A k \in Killers : kpc[k] = "stopped" => ~Alive(krec[k]) /\ file # krec[k]
=============================================================================
