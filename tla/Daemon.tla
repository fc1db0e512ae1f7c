------------------------------- MODULE Daemon -------------------------------
(***************************************************************************)
(* The daemon process: the session manager together with the element       *)
(* registry, whose references are flushed when a session is lost, the      *)
(* find-element handler that fills the registry across several awaits, and *)
(* the shutdown sequence.                                                  *)
(***************************************************************************)
EXTENDS SessionManager

CONSTANTS Finders,     \* activations of the POST /elements/find handler
          MaxMatches   \* bound: the most elements a selector matches

ASSUME MaxMatchesIsNatural == MaxMatches \in Nat

VARIABLES
  refs,    \* the registry: stored references, by what the properties tell apart
  finds,   \* what each find handler is doing
  phase,   \* "up", "ending" (endSession), "closing" (server.close), "exited"
  exit,    \* how the process exited
  \* History variable: a connect was under way at or after the shutdown.
  lateConnect

daemonVars == <<refs, finds, phase, exit, lateConnect>>
allVars == <<vars, daemonVars>>

\* `sess' is the session id the find read after locating its element; `todo'
\* is how many references it still has to store.
Finding(stage, s, n) == [stage |-> stage, sess |-> s, todo |-> n]
Idle == Finding("idle", NoSession, 0)

\* `sess' is the reference's sessionId; `late' tells a reference that was
\* stored when its session was no longer the daemon's.
References == [sess : Sessions, late : BOOLEAN]

DaemonTypeOK ==
  /\ TypeOK
  /\ refs \in SUBSET References
  /\ finds \in [Finders -> [stage : {"idle", "locating", "counting", "storing"},
                            sess : MaybeSession, todo : 0..MaxMatches + 1]]
  /\ phase \in {"up", "ending", "closing", "exited"}
  /\ exit \in {"none", "clean", "forced"}
  /\ lateConnect \in BOOLEAN

DaemonInit ==
  /\ Init
  /\ refs = {}
  /\ finds = [f \in Finders |-> Idle]
  /\ phase = "up"
  /\ exit = "none"
  /\ lateConnect = FALSE

Accepting == phase \in {"up", "ending"}   \* server.close() refuses new requests
Running == phase # "exited"

-----------------------------------------------------------------------------
(* The registry's side of the session manager's steps: the handler the     *)
(* daemon registers with setSessionLostHandler is invalidateAll.           *)

OnSessionLost_Nothing == UNCHANGED refs
OnSessionLost == refs' = {}

\* endSession() calls the handler whenever it settles, discard() when it runs.
Loses == \/ \E c \in Callers : IsDoing(c, "end") /\ ~IsDoing(c, "end")'
         \/ driver # NoSession /\ driver' = NoSession

LosesSession == IF Loses THEN OnSessionLost ELSE UNCHANGED refs

ManagerStep ==
  /\ Running
  /\ \/ \E h \in Handlers : HandlerStep(h) /\ (Arrive(h) => Accepting)
     \/ \E h \in Handlers : EndBegin(h)
     \/ \E c \in Callers \ Enders : EndSettles(c)
     \/ \E b \in Beats : BeatStep(b)
     \/ TimePasses
  /\ LosesSession
  /\ lateConnect' = (lateConnect \/ (phase # "up" /\ starting'))
  /\ UNCHANGED <<finds, phase, exit>>

-----------------------------------------------------------------------------
(* POST /elements/find.  A failed lookup, whatever its cause, is reported  *)
(* as ELEMENT_NOT_FOUND and leaves the session alone.                      *)

FindBegin(f) ==
  /\ Accepting
  /\ finds[f] = Idle
  /\ driver # NoSession
  /\ Touch
  /\ finds' = [finds EXCEPT ![f] = Finding("locating", NoSession, 0)]
  /\ UNCHANGED <<driver, starting, timer, intervals, failures, inFlight, calls,
                 appium, badBeats, released, refs, phase, exit, lateConnect>>

\* Not found, or found when no session is left (SESSION_NOT_ACTIVE).
FindFails(f) ==
  /\ Running
  /\ finds[f].stage = "locating"
  /\ finds' = [finds EXCEPT ![f] = Idle]
  /\ UNCHANGED <<vars, refs, phase, exit, lateConnect>>

FindLocated_NullKept(f) ==
  /\ Running
  /\ finds[f].stage = "locating"
  /\ finds' = [finds EXCEPT ![f] = Finding("counting", driver, 0)]
  /\ UNCHANGED <<vars, refs, phase, exit, lateConnect>>

\* getSessionId(), then the matches are counted.
FindLocated(f) ==
  /\ Running
  /\ finds[f].stage = "locating"
  /\ driver # NoSession
  /\ finds' = [finds EXCEPT ![f] = Finding("counting", driver, 0)]
  /\ UNCHANGED <<vars, refs, phase, exit, lateConnect>>

Stored(s) == [sess |-> s, late |-> s # driver]
Store(s) == refs' = refs \union {Stored(s)}

\* One match, or none any more: its reference is stored at once.  (`all' with
\* no match left stores none.)
FindCounted(f) ==
  /\ Running
  /\ finds[f].stage = "counting"
  /\ Store(finds[f].sess) \/ UNCHANGED refs
  /\ finds' = [finds EXCEPT ![f] = Idle]
  /\ UNCHANGED <<vars, phase, exit, lateConnect>>

\* Several matches: a fingerprint is read before each reference is stored,
\* for one of the matches or (`all') for each of the n.
FindAmbiguous(f) ==
  /\ Running
  /\ finds[f].stage = "counting"
  /\ \E n \in {1} \union 2..MaxMatches :
       finds' = [finds EXCEPT ![f] = Finding("storing", finds[f].sess, n)]
  /\ UNCHANGED <<vars, refs, phase, exit, lateConnect>>

FindStores(f) ==
  LET left == finds[f].todo - 1 IN
  /\ Running
  /\ finds[f].stage = "storing"
  /\ Store(finds[f].sess)
  /\ finds' = [finds EXCEPT ![f] =
                 IF left > 0 THEN Finding("storing", finds[f].sess, left) ELSE Idle]
  /\ UNCHANGED <<vars, phase, exit, lateConnect>>

FindStep(f) == \/ FindBegin(f) \/ FindFails(f) \/ FindLocated(f)
               \/ FindCounted(f) \/ FindAmbiguous(f) \/ FindStores(f)

-----------------------------------------------------------------------------
(* shutdown(): on a signal, or once the reply to POST /daemon/shutdown has *)
(* been sent.                                                              *)

EndsActive_Skipped(e) == UNCHANGED vars /\ phase' = "closing"
EndsActive(e) ==
  \/ /\ EndBegin(e)
     /\ phase' = "ending"
  \/ /\ driver = NoSession
     /\ phase' = "closing"
     /\ UNCHANGED vars

ShutdownBegins(e) ==
  /\ phase = "up"
  /\ EndsActive(e)
  /\ lateConnect' = starting
  /\ UNCHANGED <<refs, finds, exit>>

ShutdownEndsSession(e) ==
  /\ phase = "ending"
  /\ EndSettles(e)
  /\ LosesSession
  /\ phase' = "closing"
  /\ UNCHANGED <<finds, exit, lateConnect>>

\* server.close() waits for the requests in flight.
Drained == /\ \A h \in Handlers : IsDoing(h, "free")
           /\ \A f \in Finders : finds[f] = Idle

ExitClean ==
  /\ phase = "closing"
  /\ Drained
  /\ phase' = "exited"
  /\ exit' = "clean"
  /\ UNCHANGED <<vars, refs, finds, lateConnect>>

\* SHUTDOWN_FORCE_EXIT_MS have passed, a second signal came, or closing failed.
ExitForced ==
  /\ phase \in {"ending", "closing"}
  /\ phase' = "exited"
  /\ exit' = "forced"
  /\ UNCHANGED <<vars, refs, finds, lateConnect>>

\* The Appium server outlives the daemon.
Appium == /\ \E s \in Sessions : AppiumDrops(s)
          /\ UNCHANGED daemonVars

DaemonNext ==
  \/ ManagerStep
  \/ \E f \in Finders : FindStep(f)
  \/ \E e \in Enders : ShutdownBegins(e) \/ ShutdownEndsSession(e)
  \/ ExitClean \/ ExitForced
  \/ Appium

DaemonSpec == DaemonInit /\ [][DaemonNext]_allVars

-----------------------------------------------------------------------------
(* Properties.                                                             *)

(***************************************************************************)
(* "Stored element references are only meaningful within a session": while *)
(* a session is held, and references can be resolved, every reference in   *)
(* the registry is of that session.                                        *)
(***************************************************************************)
ReferencesAreCurrent ==
  driver # NoSession => \A r \in refs : r.sess = driver

(***************************************************************************)
(* Each way of losing a session flushes the registry before anything else  *)
(* can run: a reference outlives its session only when a find that was     *)
(* already past the session's end stored it.                               *)
(***************************************************************************)
ReferencesDieWithTheirSession ==
  \A r \in refs : r.late \/ r.sess = driver

(***************************************************************************)
(* From the shutdown's first step on the daemon holds no session whose     *)
(* deletion was not tried: whatever other requests, beats and endings were *)
(* under way, none of them comes back with another session, unless a       *)
(* connect was among them.                                                 *)
(***************************************************************************)
ShutdownLetsGo ==
  phase # "up" /\ ~lateConnect => driver = NoSession \/ driver \in released

(***************************************************************************)
(* "Daemon stopped cleanly": no session is left live on the Appium server  *)
(* without its deletion having been tried, unless a connect was under way  *)
(* when the shutdown began or began after it.                              *)
(***************************************************************************)
CleanExitReleasesTheDevice ==
  exit = "clean" /\ ~lateConnect =>
    \A s \in Sessions : appium[s] = "live" => s \in released
=============================================================================
