---------------------------- MODULE DaemonProofs ----------------------------
(***************************************************************************)
(* Proofs about Daemon: the session manager's invariants survive the       *)
(* composition, a lost session takes its references with it, the held      *)
(* session is let go by a shutdown, and a clean exit leaves no device held *)
(* by a client that sends one request at a time.                           *)
(***************************************************************************)
EXTENDS Daemon, SessionManagerProofs

\* Past getSessionId() a find carries the id of a session.
FindsNameSessions ==
  \A f \in Finders : finds[f].stage \in {"counting", "storing"} =>
                       finds[f].sess \in Sessions

DInv == /\ IInv
        /\ DaemonTypeOK
        /\ FindsNameSessions
        /\ ReferencesDieWithTheirSession

-----------------------------------------------------------------------------
LEMMA DaemonInitDInv == DaemonInit => DInv
  <1> SUFFICES ASSUME DaemonInit PROVE DInv
    OBVIOUS
  <1>1. IInv
    BY InitIInv DEF DaemonInit
  <1>2. finds \in [Finders -> [stage : {"idle", "locating", "counting", "storing"},
                               sess : MaybeSession, todo : 0..MaxMatches + 1]]
    BY MaxMatchesIsNatural DEF DaemonInit, Idle, Finding, MaybeSession
  <1>3. DaemonTypeOK
    BY <1>1, <1>2 DEF IInv, DaemonInit, DaemonTypeOK
  <1>4. FindsNameSessions /\ ReferencesDieWithTheirSession
    BY DEF DaemonInit, FindsNameSessions, ReferencesDieWithTheirSession, Idle, Finding
  <1> QED
    BY <1>1, <1>3, <1>4 DEF DInv

(***************************************************************************)
(* To the session manager every step of the daemon is one of its own, or a *)
(* stutter, or the touch of a find request.                                *)
(***************************************************************************)
LEMMA DaemonStep ==
  ASSUME [DaemonNext]_allVars
  PROVE  [Next]_vars \/ \E f \in Finders : FindBegin(f)
  <1>1. ASSUME ManagerStep PROVE [Next]_vars
    BY <1>1 DEF ManagerStep, Callers, Next
  <1>2. ASSUME NEW e \in Enders, ShutdownBegins(e) \/ ShutdownEndsSession(e)
        PROVE  [Next]_vars
    BY <1>2 DEF ShutdownBegins, ShutdownEndsSession, EndsActive, Callers, Next
  <1>3. ASSUME Appium PROVE [Next]_vars
    BY <1>3 DEF Appium, Next
  <1>4. ASSUME NEW f \in Finders, FindStep(f)
        PROVE  FindBegin(f) \/ UNCHANGED vars
    BY <1>4 DEF FindStep, FindFails, FindLocated, FindCounted, FindAmbiguous, FindStores
  <1>5. ASSUME ExitClean \/ ExitForced \/ UNCHANGED allVars PROVE UNCHANGED vars
    BY <1>5 DEF ExitClean, ExitForced, allVars
  <1> QED
    BY <1>1, <1>2, <1>3, <1>4, <1>5 DEF DaemonNext

LEMMA DaemonKeepsIInv == IInv /\ [DaemonNext]_allVars => IInv'
  <1> SUFFICES ASSUME IInv, [DaemonNext]_allVars PROVE IInv'
    OBVIOUS
  <1>1. ASSUME NEW f \in Finders, FindBegin(f) PROVE IInv'
    <2>1. TypeOK'
      BY <1>1, LimitsAreNatural DEF FindBegin, Touch, IInv, TypeOK
    <2>2. UNCHANGED <<driver, starting, timer, intervals, failures, inFlight,
                      calls, appium, badBeats, released>>
      BY <1>1 DEF FindBegin
    <2> QED
      BY <2>1, <2>2
      DEF IInv, CallsNameSessions, WaitsOn, Opened, DriverWasOpened,
          OneStartAtATime, Starter, SessionIsWatched, BeatsNeverStack, IsDoing,
          FailuresAreItsOwn
  <1> QED
    BY <1>1, DaemonStep, IInvStep

(***************************************************************************)
(* A reference is flushed when the stored session goes, and the stored     *)
(* session never changes into another without going first.                 *)
(***************************************************************************)
LEMMA DriverChanges ==
  ASSUME IInv, [Next]_vars
  PROVE  driver' = driver \/ driver = NoSession \/ driver' = NoSession
  <1>1. ASSUME NEW h \in Handlers, HandlerStep(h)
        PROVE  driver' = driver \/ driver = NoSession \/ driver' = NoSession
    BY <1>1 DEF HandlerStep, Arrive, Dismiss, StartBegin, RemoteFails, RemoteAnswers,
       Configured, ConfigureFails, CleanupSettles, RequestBegin, RequestGoesOn,
       RequestSettles, RequestReportsGone, MarkSessionLost, Discard, IsDoing,
       IInv, OneStartAtATime, Starter, StartCalls
  <1>2. ASSUME NEW b \in Beats, BeatStep(b)
        PROVE  driver' = driver \/ driver' = NoSession
    BY <1>2 DEF BeatStep, BeatIdle, EndSession, BeatSends, BeatAnswered,
       BeatFails, CountFailure, Discard
  <1> QED
    BY <1>1, <1>2 DEF Next, EndBegin, EndSession, EndSettles, AppiumDrops,
       TimePasses, vars

(***************************************************************************)
(* What a step of the manager does to the references: a lost session takes *)
(* them all, and any other step leaves them and their session alone.       *)
(***************************************************************************)
LEMMA ManagerKeepsReferences ==
  ASSUME DInv, [Next]_vars, TypeOK', LosesSession, UNCHANGED finds
  PROVE  /\ refs' \in SUBSET References
         /\ FindsNameSessions'
         /\ ReferencesDieWithTheirSession'
  <1>1. refs \in SUBSET References
    BY DEF DInv, DaemonTypeOK
  <1>2. refs' = {} \/ (~Loses /\ refs' = refs)
    BY DEF LosesSession, OnSessionLost
  <1>3. FindsNameSessions'
    BY DEF DInv, FindsNameSessions
  <1>4. CASE refs' = {}
    BY <1>3, <1>4 DEF ReferencesDieWithTheirSession
  <1>5. CASE ~Loses /\ refs' = refs
    <2>1. driver' = driver \/ driver = NoSession
      BY <1>5, DriverChanges DEF Loses, DInv
    <2>2. ASSUME NEW r \in refs, ~r.late PROVE r.sess = driver'
      BY <1>1, <2>1, <2>2, NoSessionIsNone
      DEF DInv, ReferencesDieWithTheirSession, References
    <2> QED
      BY <1>1, <1>3, <1>5, <2>2 DEF ReferencesDieWithTheirSession
  <1> QED
    BY <1>2, <1>4, <1>5

LEMMA DInvStep == DInv /\ [DaemonNext]_allVars => DInv'
  <1> SUFFICES ASSUME DInv, [DaemonNext]_allVars PROVE DInv'
    OBVIOUS
  <1> DEFINE Goal == /\ DaemonTypeOK'
                     /\ FindsNameSessions'
                     /\ ReferencesDieWithTheirSession'
  <1>1. IInv'
    BY DaemonKeepsIInv DEF DInv
  <1>2. TypeOK /\ TypeOK' /\ DaemonTypeOK
    BY <1>1 DEF DInv, IInv
  <1>3. ASSUME ManagerStep PROVE Goal
    <2>1. [Next]_vars
      BY <1>3 DEF ManagerStep, Callers, Next
    <2>2. /\ refs' \in SUBSET References
          /\ FindsNameSessions'
          /\ ReferencesDieWithTheirSession'
      BY <1>2, <1>3, <2>1, ManagerKeepsReferences DEF ManagerStep
    <2>3. lateConnect' \in BOOLEAN
      BY <1>2, <1>3 DEF ManagerStep, TypeOK, DaemonTypeOK
    <2> QED
      BY <1>2, <1>3, <2>2, <2>3 DEF ManagerStep, DaemonTypeOK
  <1>4. ASSUME NEW e \in Enders, ShutdownBegins(e) PROVE Goal
    <2>1. driver' = driver
      BY <1>4 DEF ShutdownBegins, EndsActive, EndBegin, EndSession, vars
    <2> QED
      BY <1>2, <1>4, <2>1
      DEF ShutdownBegins, EndsActive, DInv, DaemonTypeOK, TypeOK,
          FindsNameSessions, ReferencesDieWithTheirSession
  <1>5. ASSUME NEW e \in Enders, ShutdownEndsSession(e) PROVE Goal
    <2>1. [Next]_vars
      BY <1>5 DEF ShutdownEndsSession, Callers, Next
    <2>2. /\ refs' \in SUBSET References
          /\ FindsNameSessions'
          /\ ReferencesDieWithTheirSession'
      BY <1>2, <1>5, <2>1, ManagerKeepsReferences DEF ShutdownEndsSession
    <2> QED
      BY <1>2, <1>5, <2>2 DEF ShutdownEndsSession, DaemonTypeOK
  <1>6. ASSUME NEW f \in Finders, FindStep(f) PROVE Goal
    <2>1. UNCHANGED <<driver, phase, exit, lateConnect>>
      BY <1>6 DEF FindStep, FindBegin, FindFails, FindLocated, FindCounted,
                  FindAmbiguous, FindStores, vars
    <2>2. /\ finds' \in [Finders -> [stage : {"idle", "locating", "counting", "storing"},
                                     sess : MaybeSession, todo : 0..MaxMatches + 1]]
          /\ FindsNameSessions'
      <3> DEFINE Find == [stage : {"idle", "locating", "counting", "storing"},
                          sess : MaybeSession, todo : 0..MaxMatches + 1]
      <3>1. finds \in [Finders -> Find]
        BY <1>2 DEF DaemonTypeOK
      <3>2. PICK new \in Find : /\ finds' = [finds EXCEPT ![f] = new]
                                /\ new.stage \in {"counting", "storing"} =>
                                     new.sess \in Sessions
        <4>1. ASSUME FindBegin(f) \/ FindFails(f) \/ FindCounted(f)
              PROVE  \E stage \in {"idle", "locating"} :
                       finds' = [finds EXCEPT ![f] = Finding(stage, NoSession, 0)]
          BY <4>1 DEF FindBegin, FindFails, FindCounted, Idle
        <4>2. \A stage \in {"idle", "locating"} : Finding(stage, NoSession, 0) \in Find
          BY MaxMatchesIsNatural DEF Finding, MaybeSession
        <4>3. CASE FindBegin(f) \/ FindFails(f) \/ FindCounted(f)
          BY <4>1, <4>2, <4>3 DEF Finding
        <4>4. CASE FindLocated(f)
          <5>1. Finding("counting", driver, 0) \in Find /\ driver \in Sessions
            BY <4>4, <1>2, MaxMatchesIsNatural
            DEF FindLocated, Finding, MaybeSession, TypeOK
          <5> QED
            BY <4>4, <5>1 DEF FindLocated, Finding
        <4>5. CASE FindAmbiguous(f)
          <5>1. PICK n \in {1} \union 2..MaxMatches :
                  finds' = [finds EXCEPT ![f] = Finding("storing", finds[f].sess, n)]
            BY <4>5 DEF FindAmbiguous
          <5>2. finds[f].sess \in Sessions
            BY <4>5 DEF FindAmbiguous, DInv, FindsNameSessions
          <5>3. n \in 0..MaxMatches + 1
            BY MaxMatchesIsNatural
          <5>4. Finding("storing", finds[f].sess, n) \in Find
            BY <5>2, <5>3 DEF Finding, MaybeSession
          <5> QED
            BY <5>1, <5>2, <5>4 DEF Finding
        <4>6. CASE FindStores(f)
          <5> DEFINE left == finds[f].todo - 1
                     next == IF left > 0 THEN Finding("storing", finds[f].sess, left)
                                         ELSE Idle
          <5>1. finds[f] \in Find /\ finds[f].sess \in Sessions
            BY <3>1, <4>6 DEF FindStores, DInv, FindsNameSessions
          <5>2. next \in Find
            <6>1. left > 0 => left \in 0..MaxMatches + 1
              BY <5>1, MaxMatchesIsNatural
            <6> QED
              BY <5>1, <6>1, MaxMatchesIsNatural DEF Idle, Finding, MaybeSession
          <5>3. next.stage = "storing" => next.sess \in Sessions
            BY <5>1 DEF Idle, Finding
          <5>4. next.stage # "counting"
            BY <4>6, <5>1 DEF FindStores, Idle, Finding
          <5>5. finds' = [finds EXCEPT ![f] = next]
            BY <4>6 DEF FindStores
          <5> HIDE DEF next
          <5> QED
            BY <5>2, <5>3, <5>4, <5>5
        <4> QED
          BY <1>6, <4>3, <4>4, <4>5, <4>6 DEF FindStep
      <3>3. finds' \in [Finders -> Find]
        BY <3>1, <3>2
      <3>4. FindsNameSessions'
        BY <3>1, <3>2 DEF DInv, FindsNameSessions
      <3> QED
        BY <3>3, <3>4
    <2>3. refs' = refs \/ (finds[f].sess \in Sessions /\ Store(finds[f].sess))
      BY <1>6 DEF FindStep, FindBegin, FindFails, FindLocated, FindCounted,
                  FindAmbiguous, FindStores, DInv, FindsNameSessions
    <2>4. refs' \in SUBSET References /\ ReferencesDieWithTheirSession'
      <3>1. CASE refs' = refs
        BY <1>2, <2>1, <3>1 DEF DInv, DaemonTypeOK, ReferencesDieWithTheirSession
      <3>2. CASE finds[f].sess \in Sessions /\ Store(finds[f].sess)
        <4>1. /\ Stored(finds[f].sess) \in References
              /\ Stored(finds[f].sess).late \/ Stored(finds[f].sess).sess = driver
          BY <3>2 DEF Stored, References
        <4>2. refs' = refs \union {Stored(finds[f].sess)}
          BY <3>2 DEF Store
        <4> QED
          BY <1>2, <2>1, <4>1, <4>2
          DEF DInv, DaemonTypeOK, ReferencesDieWithTheirSession
      <3> QED
        BY <2>3, <3>1, <3>2
    <2> QED
      BY <1>2, <2>1, <2>2, <2>4 DEF DaemonTypeOK
  <1>7. ASSUME ExitClean \/ ExitForced PROVE Goal
    BY <1>2, <1>7 DEF ExitClean, ExitForced, DInv, DaemonTypeOK,
       FindsNameSessions, ReferencesDieWithTheirSession, vars
  <1>8. ASSUME Appium \/ UNCHANGED allVars PROVE Goal
    BY <1>2, <1>8 DEF Appium, AppiumDrops, DInv, DaemonTypeOK, FindsNameSessions,
       ReferencesDieWithTheirSession, daemonVars, allVars, vars
  <1>9. Goal
    BY <1>3, <1>4, <1>5, <1>6, <1>7, <1>8 DEF DaemonNext
  <1> QED
    BY <1>1, <1>9 DEF DInv

-----------------------------------------------------------------------------
THEOREM DaemonInvariance == DaemonSpec => []DInv
  <1>1. DaemonInit => DInv
    BY DaemonInitDInv
  <1>2. DInv /\ [DaemonNext]_allVars => DInv'
    BY DInvStep
  <1> QED
    BY <1>1, <1>2, PTL DEF DaemonSpec

(***************************************************************************)
(* The daemon's variables stay in their types, whatever the finds store    *)
(* and however the shutdown falls among them.                              *)
(***************************************************************************)
THEOREM DaemonTypeCorrect == DaemonSpec => []DaemonTypeOK
  <1>1. DInv => DaemonTypeOK
    BY DEF DInv
  <1> QED
    BY <1>1, DaemonInvariance, PTL

(***************************************************************************)
(* Every way a session is lost, the shutdown's included, flushes the       *)
(* registry: only a find that outlived its session leaves a reference to   *)
(* it behind.                                                              *)
(***************************************************************************)
THEOREM LostSessionTakesItsReferences ==
  DaemonSpec => []ReferencesDieWithTheirSession
  <1>1. DInv => ReferencesDieWithTheirSession
    BY DEF DInv
  <1> QED
    BY <1>1, DaemonInvariance, PTL

-----------------------------------------------------------------------------
(***************************************************************************)
(* The shutdown, whatever it overlaps.                                     *)
(***************************************************************************)

\* Only a shutdown occupies an ender, and only a drained server exits clean.
ShutdownIsUnderWay ==
  /\ phase = "up" => ~lateConnect
  /\ \A e \in Enders : IsDoing(e, "end") => phase # "up"
  /\ exit = "clean" => phase = "exited"

NothingStarts == phase # "up" /\ ~lateConnect => ~starting

ShutdownInv == ShutdownIsUnderWay /\ NothingStarts /\ ShutdownLetsGo

LEMMA ShutdownInit == DaemonInit => ShutdownInv
  BY DEF DaemonInit, Init, Free, Doing, IsDoing, Callers, ShutdownInv,
         ShutdownIsUnderWay, NothingStarts, ShutdownLetsGo

(***************************************************************************)
(* Outside a connect no session is stored, and what was released stays so. *)
(***************************************************************************)
LEMMA NothingStored ==
  ASSUME IInv, ~starting, [Next]_vars
  PROVE  driver' \in {driver, NoSession} /\ released \subseteq released'
  <1>1. ASSUME NEW h \in Handlers, HandlerStep(h)
        PROVE  driver' \in {driver, NoSession} /\ released \subseteq released'
    BY <1>1
    DEF HandlerStep, Arrive, Dismiss, StartBegin, RemoteFails, RemoteAnswers,
        Configured, ConfigureFails, CleanupSettles, RequestBegin, RequestGoesOn,
        RequestSettles, RequestReportsGone, MarkSessionLost, Discard, IsDoing,
        IInv, OneStartAtATime, Starter, StartCalls
  <1>2. ASSUME NEW b \in Beats, BeatStep(b)
        PROVE  driver' \in {driver, NoSession} /\ released \subseteq released'
    BY <1>2 DEF BeatStep, BeatIdle, EndSession, BeatSends, BeatAnswered,
       BeatFails, CountFailure, Discard
  <1> QED
    BY <1>1, <1>2 DEF Next, EndBegin, EndSession, EndSettles, AppiumDrops,
       TimePasses, vars

LEMMA ManagerLeavesEnders ==
  ASSUME TypeOK, ManagerStep, NEW e \in Enders
  PROVE  calls'[e] = calls[e]
  <1> USE CallersApart DEF TypeOK, Callers, Become, EndSession
  <1>1. ASSUME NEW h \in Handlers, HandlerStep(h) \/ EndBegin(h)
        PROVE  calls'[e] = calls[e]
    BY <1>1
    DEF HandlerStep, Arrive, Dismiss, StartBegin, RemoteFails, RemoteAnswers,
        Configured, ConfigureFails, CleanupSettles, RequestBegin, RequestGoesOn,
        RequestSettles, RequestReportsGone, EndBegin
  <1>2. ASSUME NEW c \in Callers \ Enders, EndSettles(c)
        PROVE  calls'[e] = calls[e]
    BY <1>2 DEF EndSettles
  <1>3. ASSUME NEW b \in Beats, BeatStep(b) PROVE calls'[e] = calls[e]
    BY <1>3 DEF BeatStep, BeatIdle, BeatSends, BeatAnswered, BeatFails
  <1> QED
    BY <1>1, <1>2, <1>3 DEF ManagerStep, TimePasses

(***************************************************************************)
(* A connect at or after the shutdown is never forgotten, and the rest of  *)
(* the shutdown keeps to its order.                                        *)
(***************************************************************************)
LEMMA UnderWayStep ==
  ASSUME DInv, ShutdownIsUnderWay, [DaemonNext]_allVars
  PROVE  ShutdownIsUnderWay' /\ (lateConnect => lateConnect')
  <1>1. TypeOK /\ DaemonTypeOK
    BY DEF DInv, DaemonTypeOK
  <1>2. ASSUME ManagerStep
        PROVE  ShutdownIsUnderWay' /\ (lateConnect => lateConnect')
    <2>1. \A e \in Enders : calls'[e] = calls[e]
      BY <1>1, <1>2, ManagerLeavesEnders
    <2> QED
      BY <1>2, <2>1 DEF ManagerStep, ShutdownIsUnderWay, IsDoing
  <1>3. ASSUME NEW e \in Enders, ShutdownBegins(e)
        PROVE  ShutdownIsUnderWay' /\ (lateConnect => lateConnect')
    BY <1>3 DEF ShutdownBegins, EndsActive, ShutdownIsUnderWay
  <1>4. ASSUME NEW e \in Enders, ShutdownEndsSession(e)
        PROVE  ShutdownIsUnderWay' /\ (lateConnect => lateConnect')
    BY <1>4 DEF ShutdownEndsSession, ShutdownIsUnderWay
  <1>5. ASSUME NEW f \in Finders, FindStep(f)
        PROVE  UNCHANGED <<calls, phase, exit, lateConnect>>
    BY <1>5 DEF FindStep, FindBegin, FindFails, FindLocated, FindCounted,
                FindAmbiguous, FindStores, vars
  <1>6. ASSUME ExitClean \/ ExitForced
        PROVE  ShutdownIsUnderWay' /\ (lateConnect => lateConnect')
    BY <1>6 DEF ExitClean, ExitForced, ShutdownIsUnderWay
  <1>7. ASSUME Appium \/ UNCHANGED allVars
        PROVE  UNCHANGED <<calls, phase, exit, lateConnect>>
    BY <1>7 DEF Appium, AppiumDrops, daemonVars, allVars, vars
  <1>8. ASSUME UNCHANGED <<calls, phase, exit, lateConnect>>
        PROVE  ShutdownIsUnderWay' /\ (lateConnect => lateConnect')
    BY <1>8 DEF ShutdownIsUnderWay, IsDoing
  <1> QED
    BY <1>2, <1>3, <1>4, <1>5, <1>6, <1>7, <1>8 DEF DaemonNext

LEMMA LetGoStep ==
  ASSUME DInv, ShutdownInv, [DaemonNext]_allVars
  PROVE  NothingStarts' /\ ShutdownLetsGo'
  <1> SUFFICES ASSUME ~lateConnect' PROVE NothingStarts' /\ ShutdownLetsGo'
    BY DEF NothingStarts, ShutdownLetsGo
  <1>1. ~lateConnect /\ (phase # "up" => ~starting /\ driver \in {NoSession} \union released)
    BY UnderWayStep DEF ShutdownInv, NothingStarts, ShutdownLetsGo
  <1>2. ASSUME phase # "up"
        PROVE  driver' \in {NoSession} \union released'
    <2>1. ASSUME [Next]_vars PROVE driver' \in {driver, NoSession} /\ released \subseteq released'
      BY <1>1, <1>2, <2>1, NothingStored DEF DInv
    <2>2. ASSUME NEW f \in Finders, FindBegin(f) PROVE UNCHANGED <<driver, released>>
      BY <2>2 DEF FindBegin
    <2> QED
      BY <1>1, <1>2, <2>1, <2>2, DaemonStep
  <1>3. ASSUME UNCHANGED phase, phase # "up" => ~starting'
        PROVE  NothingStarts' /\ ShutdownLetsGo'
    BY <1>2, <1>3 DEF NothingStarts, ShutdownLetsGo
  <1>4. ASSUME ManagerStep PROVE UNCHANGED phase /\ (phase # "up" => ~starting')
    BY <1>4 DEF ManagerStep
  <1>5. ASSUME NEW e \in Enders, ShutdownBegins(e)
        PROVE  NothingStarts' /\ ShutdownLetsGo'
    <2>1. ~starting /\ UNCHANGED <<starting, driver>>
      BY <1>5 DEF ShutdownBegins, EndsActive, EndBegin, EndSession, vars
    <2>2. driver # NoSession => driver \in released'
      BY <1>5 DEF ShutdownBegins, EndsActive, EndBegin, EndSession
    <2> QED
      BY <2>1, <2>2 DEF NothingStarts, ShutdownLetsGo
  <1>6. ASSUME NEW e \in Enders, ShutdownEndsSession(e)
        PROVE  NothingStarts' /\ ShutdownLetsGo'
    BY <1>1, <1>6 DEF ShutdownEndsSession, EndSettles, NothingStarts, ShutdownLetsGo
  <1>7. ASSUME NEW f \in Finders, FindStep(f) PROVE UNCHANGED <<phase, starting>>
    BY <1>7 DEF FindStep, FindBegin, FindFails, FindLocated, FindCounted,
                FindAmbiguous, FindStores, vars
  <1>8. ASSUME ExitClean \/ ExitForced PROVE NothingStarts' /\ ShutdownLetsGo'
    BY <1>1, <1>8 DEF ExitClean, ExitForced, NothingStarts, ShutdownLetsGo, vars
  <1>9. ASSUME Appium \/ UNCHANGED allVars PROVE UNCHANGED <<phase, starting>>
    BY <1>9 DEF Appium, AppiumDrops, daemonVars, allVars, vars
  <1> QED
    BY <1>1, <1>3, <1>4, <1>5, <1>6, <1>7, <1>8, <1>9 DEF DaemonNext

LEMMA ShutdownInvariance == DaemonSpec => [](DInv /\ ShutdownInv)
  <1>1. DaemonInit => ShutdownInv
    BY ShutdownInit
  <1>2. DInv /\ ShutdownInv /\ [DaemonNext]_allVars => ShutdownInv'
    BY UnderWayStep, LetGoStep DEF ShutdownInv
  <1> QED
    BY <1>1, <1>2, DaemonInvariance, PTL DEF DaemonSpec

(***************************************************************************)
(* However many requests, beats, idle endings and signals overlap: from    *)
(* the shutdown's first step on, the daemon holds no session whose         *)
(* deletion was not tried, unless a connect was in its way.                *)
(***************************************************************************)
THEOREM HeldSessionIsLetGo == DaemonSpec => []ShutdownLetsGo
  <1>1. ShutdownInv => ShutdownLetsGo
    BY DEF ShutdownInv
  <1> QED
    BY <1>1, ShutdownInvariance, PTL

-----------------------------------------------------------------------------
(***************************************************************************)
(* The shutdown of a daemon whose client sends one request at a time: the  *)
(* session it lets go is the only one there is.                            *)
(***************************************************************************)
CleanInv == /\ ~lateConnect => SoloInv
            /\ CleanExitReleasesTheDevice

LEMMA CleanInit == DaemonInit => CleanInv
  BY SoloInit DEF DaemonInit, CleanInv, CleanExitReleasesTheDevice

\* With the idle timeout off, the clock a find touches stands still.
LEMMA TouchIsIdle ==
  ASSUME IdleLimit = 0, TypeOK, [DaemonNext]_allVars PROVE [Next]_vars
  <1>1. ASSUME NEW f \in Finders, FindBegin(f) PROVE UNCHANGED vars
    <2>1. idle = 0
      BY DEF TypeOK
    <2> QED
      BY <1>1, <2>1 DEF FindBegin, Touch, vars
  <1> QED
    BY <1>1, DaemonStep

(***************************************************************************)
(* The server closes once no handler is busy: a session still live is then *)
(* the stored one, which the shutdown let go, or one whose deletion was    *)
(* tried; and an exited daemon creates no other.                           *)
(***************************************************************************)
LEMMA ExitStep ==
  ASSUME DInv, ShutdownInv, CleanInv, [DaemonNext]_allVars, ~lateConnect
  PROVE  CleanExitReleasesTheDevice'
  <1> SUFFICES ASSUME exit' = "clean", NEW s \in Sessions, appium'[s] = "live"
               PROVE  s \in released'
    BY DEF CleanExitReleasesTheDevice
  <1>1. TypeOK
    BY DEF DInv, IInv
  <1>2. CASE exit = "clean"
    <2>1. phase = "exited"
      BY <1>2 DEF ShutdownInv, ShutdownIsUnderWay
    <2>2. Appium \/ UNCHANGED allVars
      BY <2>1 DEF DaemonNext, ManagerStep, Running, FindStep, FindBegin,
         Accepting, FindFails, FindLocated, FindCounted, FindAmbiguous,
         FindStores, ShutdownBegins, ShutdownEndsSession, ExitClean, ExitForced
    <2>3. appium[s] = "live" /\ released' = released
      BY <1>1, <2>2 DEF Appium, AppiumDrops, allVars, vars, TypeOK
    <2> QED
      BY <1>2, <2>3 DEF CleanInv, CleanExitReleasesTheDevice
  <1>3. CASE exit # "clean"
    <2>1. ExitClean
      BY <1>3 DEF DaemonNext, ManagerStep, FindStep, FindBegin, FindFails,
         FindLocated, FindCounted, FindAmbiguous, FindStores, ShutdownBegins,
         ShutdownEndsSession, ExitForced, Appium, daemonVars, allVars
    <2>2. phase = "closing" /\ UNCHANGED vars
            /\ \A h \in Handlers : ~Connecting(calls[h])
      BY <2>1 DEF ExitClean, Drained, IsDoing, Connecting
    <2>3. appium[s] = "live" /\ released' = released
      BY <2>2 DEF vars
    <2>4. ShutdownLetsGo /\ NoSessionLeaked
      BY DEF ShutdownInv, CleanInv, SoloInv
    <2>5. s = driver \/ s \in released
      BY <2>2, <2>3, <2>4 DEF NoSessionLeaked
    <2> QED
      BY <2>2, <2>3, <2>4, <2>5, NoSessionIsNone DEF ShutdownLetsGo
  <1> QED
    BY <1>2, <1>3

LEMMA CleanStep ==
  ASSUME OneAtATime, DInv, ShutdownInv, CleanInv, [DaemonNext]_allVars
  PROVE  CleanInv'
  <1>1. lateConnect => lateConnect'
    BY UnderWayStep DEF ShutdownInv
  <1>2. CASE lateConnect'
    BY <1>2 DEF CleanInv, CleanExitReleasesTheDevice
  <1>3. CASE ~lateConnect'
    <2>1. ~lateConnect /\ IInv /\ SoloInv
      BY <1>1, <1>3 DEF CleanInv, DInv
    <2>2. ConnectsAlone
      BY <2>1 DEF ConnectsAlone, ShutdownInv, ShutdownIsUnderWay, NothingStarts
    <2>3. [Next]_vars
      BY TouchIsIdle DEF OneAtATime, DInv, DaemonTypeOK
    <2>4. SoloInv'
      BY <2>1, <2>2, <2>3, SoloStep
    <2>5. CleanExitReleasesTheDevice'
      BY <2>1, ExitStep
    <2> QED
      BY <2>4, <2>5 DEF CleanInv
  <1> QED
    BY <1>2, <1>3

(***************************************************************************)
(* When the client sends one request at a time, finds excepted, and the    *)
(* idle timeout is off, a daemon that stopped cleanly has tried to delete  *)
(* every session still live, unless a connect was in the shutdown's way.   *)
(***************************************************************************)
THEOREM CleanExit ==
  ASSUME OneAtATime PROVE DaemonSpec => []CleanExitReleasesTheDevice
  <1>1. DaemonInit => CleanInv
    BY CleanInit
  <1>2. DInv /\ ShutdownInv /\ CleanInv /\ [DaemonNext]_allVars => CleanInv'
    BY OneAtATime, CleanStep
  <1>3. CleanInv => CleanExitReleasesTheDevice
    BY DEF CleanInv
  <1> QED
    BY <1>1, <1>2, <1>3, ShutdownInvariance, PTL DEF DaemonSpec

-----------------------------------------------------------------------------
(* What the manager promises, the daemon as a whole keeps: finds, the      *)
(* registry and the shutdown add nothing that the lease does not allow.    *)

LEMMA FindsKeepTheLease ==
  ASSUME NEW f \in Finders, FindBegin(f)
  PROVE  UNCHANGED Lease!vars
  BY DEF FindBegin, Lease!vars, stageBar, sessionBar, usedBar, SessionOfConnect

(***************************************************************************)
(* The daemon implements OneSession: a single lease on one session at a    *)
(* time, through shutdowns and finds as well.                              *)
(***************************************************************************)
THEOREM DaemonHoldsOneSession == DaemonSpec => HoldsOneSession
  <1>1. DaemonInit => Lease!Init
    BY DEF DaemonInit, Init, Lease!Init, stageBar, sessionBar, usedBar,
           SessionOfConnect, Connecting, Free, Doing, Callers
  <1>2. DInv /\ DInv' /\ [DaemonNext]_allVars => [Lease!Next]_Lease!vars
    BY DaemonStep, LeaseStep, FindsKeepTheLease DEF DInv
  <1> QED
    BY <1>1, <1>2, DaemonInvariance, PTL DEF DaemonSpec, HoldsOneSession, Lease!Spec

(***************************************************************************)
(* The daemon's heartbeat discards a session only after FailureLimit       *)
(* consecutive failed beats on that very session, whatever endings, finds  *)
(* and signals come between.                                               *)
(***************************************************************************)
THEOREM DaemonHeartbeatIsPatient == DaemonSpec => HeartbeatDiscardsTheUnresponsive
  <1>1. ASSUME NEW f \in Finders, FindBegin(f), NEW b \in Beats PROVE ~DiscardedByBeat(b)
    BY <1>1 DEF FindBegin, DiscardedByBeat
  <1>2. DInv /\ [DaemonNext]_allVars =>
          [\A b \in Beats : DiscardedByBeat(b) =>
             calls[b].sess = driver /\ badBeats'[driver] = FailureLimit]_vars
    BY <1>1, DaemonStep, DiscardStep DEF DInv
  <1> QED
    BY <1>2, DaemonInvariance, PTL DEF DaemonSpec, HeartbeatDiscardsTheUnresponsive
=============================================================================
