------------------------ MODULE SessionManagerProofs ------------------------
(***************************************************************************)
(* Proofs about SessionManager, for any number of sessions, handlers and   *)
(* beats, any failure limit and any idle limit; and, at the end, what      *)
(* holds for a client that sends one request at a time.                    *)
(***************************************************************************)
EXTENDS SessionManager, TLAPS

(***************************************************************************)
(* What an activation waits on is a session the Appium server has opened,  *)
(* and so is the stored session.                                           *)
(***************************************************************************)
WaitsOn(c) == calls[c].kind \in {"configure", "cleanup", "end", "beat", "request"}
Opened(s) == s \in Sessions /\ appium[s] # "none"

CallsNameSessions == \A c \in Callers : WaitsOn(c) => Opened(calls[c].sess)
DriverWasOpened == driver # NoSession => Opened(driver)

IInv == /\ TypeOK
        /\ CallsNameSessions
        /\ DriverWasOpened
        /\ OneStartAtATime
        /\ SessionIsWatched
        /\ BeatsNeverStack
        /\ FailuresAreItsOwn

(***************************************************************************)
(* The actions that only move an activation between stages in which it     *)
(* waits for nothing that the invariants speak of.                         *)
(***************************************************************************)
RequestStep(h) == \/ Arrive(h) \/ Dismiss(h) \/ RequestBegin(h)
                  \/ RequestGoesOn(h) \/ RequestSettles(h)

-----------------------------------------------------------------------------
LEMMA InitIInv == Init => IInv
  <1> SUFFICES ASSUME Init PROVE IInv
    OBVIOUS
  <1> USE DEF Init
  <1>1. TypeOK
    <2>1. calls \in [Callers -> [kind : Kinds, sess : MaybeSession]]
      BY DEF Kinds, MaybeSession, Free, Doing
    <2>2. /\ failures \in 0..FailureLimit /\ idle \in 0..IdleLimit
          /\ badBeats \in [Sessions -> 0..FailureLimit]
      BY LimitsAreNatural
    <2> QED
      BY <2>1, <2>2 DEF TypeOK, MaybeSession
  <1>2. \A c \in Callers : calls[c].kind = "free"
    BY DEF Free, Doing
  <1>3. CallsNameSessions /\ DriverWasOpened
    BY <1>2 DEF CallsNameSessions, WaitsOn, DriverWasOpened
  <1>4. OneStartAtATime
    BY <1>2 DEF OneStartAtATime, Starter, StartCalls, Callers
  <1>5. SessionIsWatched /\ FailuresAreItsOwn
    BY DEF SessionIsWatched, FailuresAreItsOwn
  <1>6. BeatsNeverStack
    BY <1>2 DEF BeatsNeverStack, IsDoing, Callers
  <1> QED
    BY <1>1, <1>3, <1>4, <1>5, <1>6 DEF IInv

-----------------------------------------------------------------------------
LEMMA TypeStep ==
  TypeOK /\ CallsNameSessions /\ DriverWasOpened /\ [Next]_vars => TypeOK'
  <1> SUFFICES ASSUME TypeOK, CallsNameSessions, DriverWasOpened, [Next]_vars
               PROVE  TypeOK'
    OBVIOUS
  <1> USE NoSessionIsNone, LimitsAreNatural
          DEF TypeOK, MaybeSession, Kinds, Doing, Free, Become, IsDoing, Callers
  <1>1. ASSUME NEW h \in Handlers, RequestStep(h) PROVE TypeOK'
    BY <1>1 DEF RequestStep, Arrive, Touch, Dismiss, RequestBegin,
                RequestGoesOn, RequestSettles
  <1>2. ASSUME NEW h \in Handlers, StartBegin(h) PROVE TypeOK'
    BY <1>2 DEF StartBegin
  <1>3. ASSUME NEW h \in Handlers, RemoteFails(h) PROVE TypeOK'
    BY <1>3 DEF RemoteFails
  <1>4. ASSUME NEW h \in Handlers, NEW s \in Sessions, RemoteAnswers(h, s)
        PROVE TypeOK'
    BY <1>4 DEF RemoteAnswers
  <1>5. ASSUME NEW h \in Handlers, Configured(h) PROVE TypeOK'
    <2>1. calls[h].sess \in Sessions
      BY <1>5 DEF Configured, CallsNameSessions, WaitsOn, Opened
    <2>2. /\ driver' \in MaybeSession /\ timer' \in MaybeSession
          /\ intervals' \in SUBSET Sessions
      BY <1>5, <2>1 DEF Configured, StartHeartbeat
    <2>3. failures' \in 0..FailureLimit /\ idle' \in 0..IdleLimit
      BY <1>5 DEF Configured, StartHeartbeat, Touch
    <2>4. calls' \in [Callers -> [kind : Kinds, sess : MaybeSession]]
      BY <1>5 DEF Configured
    <2> QED
      BY <1>5, <2>2, <2>3, <2>4 DEF Configured
  <1>6. ASSUME NEW h \in Handlers, ConfigureFails(h) PROVE TypeOK'
    BY <1>6 DEF ConfigureFails, CallsNameSessions, WaitsOn, Opened
  <1>7. ASSUME NEW h \in Handlers, CleanupSettles(h) PROVE TypeOK'
    BY <1>7 DEF CleanupSettles, DeleteSettles
  <1>8. ASSUME NEW h \in Handlers, RequestReportsGone(h) PROVE TypeOK'
    BY <1>8 DEF RequestReportsGone, MarkSessionLost, Discard, StopHeartbeat
  <1>9. ASSUME NEW c \in Callers, EndSession(c) PROVE TypeOK'
    BY <1>9 DEF EndSession, StopHeartbeat
  <1>10. ASSUME NEW c \in Callers, EndSettles(c) PROVE TypeOK'
    BY <1>10 DEF EndSettles, DeleteSettles
  <1>11. ASSUME NEW b \in Beats, BeatSends(b) PROVE TypeOK'
    BY <1>11 DEF BeatSends
  <1>12. ASSUME NEW b \in Beats, BeatAnswered(b) PROVE TypeOK'
    <2> DEFINE s == calls[b].sess
    <2>1. s \in Sessions
      BY <1>12 DEF BeatAnswered, CallsNameSessions, WaitsOn, Opened
    <2>2. badBeats' \in [Sessions -> 0..FailureLimit]
      BY <1>12, <2>1 DEF BeatAnswered
    <2>3. /\ UNCHANGED <<driver, starting, timer, intervals, idle, appium, released>>
          /\ inFlight' = FALSE
          /\ failures' \in 0..FailureLimit
      BY <1>12 DEF BeatAnswered, BeatDone
    <2>4. calls' \in [Callers -> [kind : Kinds, sess : MaybeSession]]
      BY <1>12 DEF BeatAnswered
    <2> QED
      BY <2>2, <2>3, <2>4
  <1>13. ASSUME NEW b \in Beats, BeatFails(b) PROVE TypeOK'
    <2> DEFINE s == calls[b].sess
    <2>1. s \in Sessions
      BY <1>13 DEF BeatFails, CallsNameSessions, WaitsOn, Opened
    <2>2. badBeats' \in [Sessions -> 0..FailureLimit]
      BY <1>13, <2>1 DEF BeatFails
    <2>3. failures' \in 0..FailureLimit /\ released' \in SUBSET Sessions
      BY <1>13, <2>1 DEF BeatFails, StillCurrent, CountFailure, Discard, StopHeartbeat
    <2>4. /\ driver' \in MaybeSession /\ timer' \in MaybeSession
          /\ intervals' \in SUBSET Sessions
      BY <1>13 DEF BeatFails, CountFailure, Discard, StopHeartbeat
    <2>5. calls' \in [Callers -> [kind : Kinds, sess : MaybeSession]]
      BY <1>13 DEF BeatFails
    <2>6. /\ starting' = starting /\ idle' = idle /\ appium' = appium
          /\ inFlight' = FALSE
      BY <1>13 DEF BeatFails, BeatDone
    <2> QED
      BY <2>2, <2>3, <2>4, <2>5, <2>6
  <1>14. ASSUME NEW s \in Sessions, AppiumDrops(s) PROVE TypeOK'
    BY <1>14 DEF AppiumDrops
  <1>15. ASSUME TimePasses PROVE TypeOK'
    BY <1>15 DEF TimePasses
  <1>16. ASSUME UNCHANGED vars PROVE TypeOK'
    BY <1>16 DEF vars
  <1> QED
    BY <1>1, <1>2, <1>3, <1>4, <1>5, <1>6, <1>7, <1>8, <1>9, <1>10, <1>11,
       <1>12, <1>13, <1>14, <1>15, <1>16
    DEF Next, HandlerStep, BeatStep, RequestStep, EndBegin, BeatIdle

-----------------------------------------------------------------------------
(***************************************************************************)
(* The Appium server's side: a session once opened is never forgotten, and *)
(* the answer to remote() is the only step that opens one.                 *)
(***************************************************************************)
LEMMA AppiumFrame ==
  ASSUME TypeOK, CallsNameSessions, [Next]_vars,
         \A h \in Handlers, s \in Sessions : ~RemoteAnswers(h, s)
  PROVE  usedBar' = usedBar
  <1> USE DEF TypeOK, usedBar
  <1>1. ASSUME UNCHANGED appium PROVE usedBar' = usedBar
    BY <1>1
  <1>2. ASSUME NEW c \in Callers, WaitsOn(c), DeleteSettles(calls[c].sess)
        PROVE  usedBar' = usedBar
    BY <1>2 DEF DeleteSettles, CallsNameSessions, Opened
  <1>3. ASSUME NEW h \in Handlers, HandlerStep(h) PROVE usedBar' = usedBar
    <2>1. CASE CleanupSettles(h)
      BY <2>1, <1>2 DEF CleanupSettles, IsDoing, WaitsOn, Callers
    <2>2. CASE ~CleanupSettles(h)
      BY <2>2, <1>1, <1>3
      DEF HandlerStep, Arrive, Dismiss, StartBegin, RemoteFails, Configured,
          ConfigureFails, RequestBegin, RequestGoesOn, RequestSettles,
          RequestReportsGone
    <2> QED
      BY <2>1, <2>2
  <1>4. ASSUME NEW c \in Callers, EndSettles(c) PROVE usedBar' = usedBar
    BY <1>4, <1>2 DEF EndSettles, IsDoing, WaitsOn
  <1>5. ASSUME NEW c, EndSession(c) PROVE usedBar' = usedBar
    BY <1>5, <1>1 DEF EndSession
  <1>6. ASSUME NEW b \in Beats, BeatStep(b) PROVE usedBar' = usedBar
    BY <1>6, <1>5, <1>1 DEF BeatStep, BeatIdle, BeatSends, BeatAnswered, BeatFails
  <1>7. ASSUME NEW s \in Sessions, AppiumDrops(s) PROVE usedBar' = usedBar
    BY <1>7 DEF AppiumDrops
  <1>8. ASSUME TimePasses \/ UNCHANGED vars PROVE usedBar' = usedBar
    BY <1>8, <1>1 DEF TimePasses, vars
  <1> QED
    BY <1>3, <1>4, <1>5, <1>6, <1>7, <1>8 DEF Next, EndBegin

LEMMA StaysOpened ==
  TypeOK /\ CallsNameSessions /\ [Next]_vars =>
    \A s \in Sessions : appium[s] # "none" => appium'[s] # "none"
  <1> SUFFICES ASSUME TypeOK, CallsNameSessions, [Next]_vars,
                      NEW s \in Sessions, appium[s] # "none"
               PROVE  appium'[s] # "none"
    OBVIOUS
  <1>1. ASSUME NEW h \in Handlers, NEW t \in Sessions, RemoteAnswers(h, t)
        PROVE  appium'[s] # "none"
    BY <1>1 DEF RemoteAnswers, TypeOK
  <1>2. CASE \A h \in Handlers, t \in Sessions : ~RemoteAnswers(h, t)
    BY <1>2, AppiumFrame DEF usedBar
  <1> QED
    BY <1>1, <1>2

(***************************************************************************)
(* An activation that starts to wait does so on the stored session, on the *)
(* session it already waited on, or on the one remote() just returned.     *)
(***************************************************************************)
LEMMA OpenedStep ==
  TypeOK /\ CallsNameSessions /\ DriverWasOpened /\ [Next]_vars
    => CallsNameSessions' /\ DriverWasOpened'
  <1> SUFFICES ASSUME TypeOK, CallsNameSessions, DriverWasOpened, [Next]_vars
               PROVE  CallsNameSessions' /\ DriverWasOpened'
    OBVIOUS
  <1> DEFINE OpenNext(s) == s \in Sessions /\ appium'[s] # "none"
             Named(call) == call.kind \in {"configure", "cleanup", "end", "beat", "request"}
                              => OpenNext(call.sess)
  <1>1. \A c \in Callers : Named(calls[c])
    BY StaysOpened DEF CallsNameSessions, WaitsOn, Opened
  <1>2. driver # NoSession => OpenNext(driver)
    BY StaysOpened DEF DriverWasOpened, Opened
  <1>3. ASSUME NEW c \in Callers, NEW call, Become(c, call), Named(call)
        PROVE  CallsNameSessions'
    BY <1>1, <1>3 DEF Become, TypeOK, CallsNameSessions, WaitsOn, Opened
  <1>4. ASSUME driver' \in {driver, NoSession} PROVE DriverWasOpened'
    BY <1>2, <1>4 DEF DriverWasOpened, Opened
  <1> HIDE DEF Named
  <1>5. Named(Free) /\ Named(Doing("arrived", NoSession))
          /\ Named(Doing("create", NoSession))
    BY DEF Named, Free, Doing
  <1>6. ASSUME driver # NoSession, NEW kind PROVE Named(Doing(kind, driver))
    BY <1>2, <1>6 DEF Named, Doing
  <1>7. ASSUME NEW h \in Handlers, RequestStep(h)
        PROVE  CallsNameSessions' /\ DriverWasOpened'
    BY <1>7, <1>3, <1>4, <1>5, <1>6
    DEF RequestStep, Arrive, Dismiss, RequestBegin, RequestGoesOn,
        RequestSettles, Callers
  <1>8. ASSUME NEW h \in Handlers, StartBegin(h) \/ RemoteFails(h) \/ CleanupSettles(h)
        PROVE  CallsNameSessions' /\ DriverWasOpened'
    BY <1>8, <1>3, <1>4, <1>5 DEF StartBegin, RemoteFails, CleanupSettles, Callers
  <1>9. ASSUME NEW h \in Handlers, NEW s \in Sessions, RemoteAnswers(h, s)
        PROVE  CallsNameSessions' /\ DriverWasOpened'
    <2>1. OpenNext(s)
      BY <1>9 DEF RemoteAnswers, TypeOK
    <2>2. Named(Doing("configure", s))
      BY <2>1 DEF Named, Doing
    <2> QED
      BY <1>9, <2>2, <1>3, <1>4 DEF RemoteAnswers, Callers
  <1>10. ASSUME NEW h \in Handlers, Configured(h)
         PROVE  CallsNameSessions' /\ DriverWasOpened'
    <2>1. OpenNext(calls[h].sess)
      BY <1>10, <1>1 DEF Configured, IsDoing, Named, Callers
    <2> QED
      BY <1>10, <2>1, <1>3, <1>5 DEF Configured, DriverWasOpened, Opened, Callers
  <1>11. ASSUME NEW h \in Handlers, ConfigureFails(h)
         PROVE  CallsNameSessions' /\ DriverWasOpened'
    <2>1. Named(Doing("cleanup", calls[h].sess))
      BY <1>11, <1>1 DEF ConfigureFails, IsDoing, Named, Doing, Callers
    <2> QED
      BY <1>11, <2>1, <1>3, <1>4 DEF ConfigureFails, Callers
  <1>12. ASSUME NEW h \in Handlers, RequestReportsGone(h)
         PROVE  CallsNameSessions' /\ DriverWasOpened'
    BY <1>12, <1>3, <1>4, <1>5
    DEF RequestReportsGone, MarkSessionLost, Discard, Callers
  <1>13. ASSUME NEW c \in Callers, EndSession(c)
         PROVE  CallsNameSessions' /\ DriverWasOpened'
    BY <1>13, <1>3, <1>4, <1>6 DEF EndSession
  <1>14. ASSUME NEW c \in Callers, EndSettles(c)
         PROVE  CallsNameSessions' /\ DriverWasOpened'
    BY <1>14, <1>3, <1>4, <1>5 DEF EndSettles
  <1>15. ASSUME NEW b \in Beats, BeatSends(b) \/ BeatAnswered(b)
         PROVE  CallsNameSessions' /\ DriverWasOpened'
    BY <1>15, <1>3, <1>4, <1>5, <1>6 DEF BeatSends, BeatAnswered, Callers
  <1>16. ASSUME NEW b \in Beats, BeatFails(b)
         PROVE  CallsNameSessions' /\ DriverWasOpened'
    BY <1>16, <1>3, <1>4, <1>5 DEF BeatFails, CountFailure, Discard, Callers
  <1>17. ASSUME UNCHANGED <<driver, calls>>
         PROVE  CallsNameSessions' /\ DriverWasOpened'
    BY <1>17, <1>1, <1>4 DEF CallsNameSessions, WaitsOn, Named, Opened
  <1> QED
    BY <1>7, <1>8, <1>9, <1>10, <1>11, <1>12, <1>13, <1>14, <1>15, <1>16, <1>17
    DEF Next, HandlerStep, BeatStep, RequestStep, EndBegin, BeatIdle, Callers,
        AppiumDrops, TimePasses, vars
-----------------------------------------------------------------------------
(***************************************************************************)
(* The start guards.  Steps that leave the set of connects alone, one that *)
(* begins a connect, those that finish it.                                 *)
(***************************************************************************)
LEMMA OneStartStep ==
  TypeOK /\ OneStartAtATime /\ [Next]_vars => OneStartAtATime'
  <1> SUFFICES ASSUME TypeOK, OneStartAtATime, [Next]_vars
               PROVE  OneStartAtATime'
    OBVIOUS
  <1> USE DEF Become, IsDoing
  <1>1. ASSUME UNCHANGED starting, driver' \in {driver, NoSession},
               \A h \in Handlers : Starter(h)' <=> Starter(h)
        PROVE  OneStartAtATime'
    BY <1>1 DEF OneStartAtATime
  <1>2. ASSUME NEW c \in Callers, NEW call, Become(c, call),
               call.kind \in StartCalls <=> calls[c].kind \in StartCalls,
               UNCHANGED starting, driver' \in {driver, NoSession}
        PROVE  OneStartAtATime'
    BY <1>1, <1>2 DEF TypeOK, Starter, Callers
  <1>3. ASSUME NEW h \in Handlers, Starter(h), Become(h, Free), starting' = FALSE
        PROVE  OneStartAtATime'
    BY <1>3 DEF OneStartAtATime, Starter, StartCalls, Free, Doing, TypeOK, Callers
  <1>4. ASSUME NEW h \in Handlers, StartBegin(h) PROVE OneStartAtATime'
    BY <1>4 DEF StartBegin, MayStart, OneStartAtATime, Starter, StartCalls,
                Doing, TypeOK, Callers
  <1>5. ASSUME NEW h \in Handlers,
               RemoteFails(h) \/ Configured(h) \/ CleanupSettles(h)
        PROVE  OneStartAtATime'
    BY <1>5, <1>3 DEF RemoteFails, Configured, CleanupSettles, Starter, StartCalls
  <1> USE DEF StartCalls, Doing, Free
  <1>6. ASSUME NEW h \in Handlers, RequestStep(h) PROVE OneStartAtATime'
    BY <1>6, <1>2 DEF RequestStep, Arrive, Dismiss, RequestBegin,
                      RequestGoesOn, RequestSettles, Callers
  <1>7. ASSUME NEW h \in Handlers, NEW s \in Sessions, RemoteAnswers(h, s)
        PROVE  OneStartAtATime'
    BY <1>7, <1>2 DEF RemoteAnswers, Callers
  <1>8. ASSUME NEW h \in Handlers, ConfigureFails(h) PROVE OneStartAtATime'
    BY <1>8, <1>2 DEF ConfigureFails, Callers
  <1>9. ASSUME NEW h \in Handlers, RequestReportsGone(h) PROVE OneStartAtATime'
    BY <1>9, <1>2 DEF RequestReportsGone, MarkSessionLost, Discard, Callers
  <1>10. ASSUME NEW c \in Callers, calls[c].kind \in {"arrived", "free"},
                EndSession(c)
         PROVE  OneStartAtATime'
    BY <1>10, <1>2 DEF EndSession
  <1>11. ASSUME NEW c \in Callers, EndSettles(c) PROVE OneStartAtATime'
    BY <1>11, <1>2 DEF EndSettles
  <1>12. ASSUME NEW b \in Beats, BeatSends(b) \/ BeatAnswered(b)
         PROVE  OneStartAtATime'
    BY <1>12, <1>2 DEF BeatSends, BeatAnswered, Callers
  <1>13. ASSUME NEW b \in Beats, BeatFails(b) PROVE OneStartAtATime'
    BY <1>13, <1>2 DEF BeatFails, CountFailure, Discard, Callers
  <1>14. ASSUME UNCHANGED <<driver, starting, calls>> PROVE OneStartAtATime'
    BY <1>14, <1>1 DEF Starter
  <1> QED
    BY <1>4, <1>5, <1>6, <1>7, <1>8, <1>9, <1>10, <1>11, <1>12, <1>13, <1>14
    DEF Next, HandlerStep, BeatStep, RequestStep, EndBegin, BeatIdle, Callers,
        AppiumDrops, TimePasses, vars

-----------------------------------------------------------------------------
(***************************************************************************)
(* The heartbeat watches the stored session: it is armed as the session is *)
(* stored, and only an endSession() of that session disarms it and leaves  *)
(* the session stored.                                                     *)
(***************************************************************************)
LEMMA WatchedStep ==
  TypeOK /\ SessionIsWatched /\ [Next]_vars => SessionIsWatched'
  <1> SUFFICES ASSUME TypeOK, SessionIsWatched, [Next]_vars
               PROVE  SessionIsWatched'
    OBVIOUS
  <1> USE DEF Become, IsDoing, Doing, Free
  <1>1. ASSUME driver' = NoSession PROVE SessionIsWatched'
    BY <1>1 DEF SessionIsWatched
  <1>2. ASSUME NEW c \in Callers, NEW call, Become(c, call),
               calls[c].kind # "end", UNCHANGED <<driver, timer, intervals>>
        PROVE  SessionIsWatched'
    <2>1. \A d \in Callers : calls[d].kind = "end" => calls'[d] = calls[d]
      BY <1>2 DEF TypeOK
    <2> QED
      BY <1>2, <2>1 DEF SessionIsWatched
  <1>3. ASSUME NEW h \in Handlers, Configured(h) PROVE SessionIsWatched'
    BY <1>3 DEF Configured, StartHeartbeat, SessionIsWatched
  <1>4. ASSUME NEW h \in Handlers, RequestStep(h) PROVE SessionIsWatched'
    BY <1>4, <1>2 DEF RequestStep, Arrive, Dismiss, RequestBegin,
                      RequestGoesOn, RequestSettles, Callers
  <1>5. ASSUME NEW h \in Handlers, \/ StartBegin(h) \/ RemoteFails(h)
                                   \/ ConfigureFails(h) \/ CleanupSettles(h)
        PROVE  SessionIsWatched'
    BY <1>5, <1>2 DEF StartBegin, RemoteFails, ConfigureFails, CleanupSettles, Callers
  <1>6. ASSUME NEW h \in Handlers, NEW s \in Sessions, RemoteAnswers(h, s)
        PROVE  SessionIsWatched'
    BY <1>6, <1>2 DEF RemoteAnswers, Callers
  <1>7. ASSUME NEW h \in Handlers, RequestReportsGone(h) PROVE SessionIsWatched'
    BY <1>7, <1>1, <1>2 DEF RequestReportsGone, MarkSessionLost, Discard, Callers
  <1>8. ASSUME NEW c \in Callers, EndSession(c) PROVE SessionIsWatched'
    BY <1>8 DEF EndSession, SessionIsWatched, TypeOK
  <1>9. ASSUME NEW c \in Callers, EndSettles(c) PROVE SessionIsWatched'
    BY <1>9, <1>1 DEF EndSettles
  <1>10. ASSUME NEW b \in Beats, BeatSends(b) \/ BeatAnswered(b)
         PROVE  SessionIsWatched'
    BY <1>10, <1>2 DEF BeatSends, BeatAnswered, Callers
  <1>11. ASSUME NEW b \in Beats, BeatFails(b) PROVE SessionIsWatched'
    BY <1>11, <1>1, <1>2 DEF BeatFails, CountFailure, Discard, Callers
  <1>12. ASSUME UNCHANGED <<driver, timer, intervals, calls>>
         PROVE  SessionIsWatched'
    BY <1>12 DEF SessionIsWatched
  <1> QED
    BY <1>3, <1>4, <1>5, <1>6, <1>7, <1>8, <1>9, <1>10, <1>11, <1>12
    DEF Next, HandlerStep, BeatStep, RequestStep, EndBegin, BeatIdle, Callers,
        AppiumDrops, TimePasses, vars
-----------------------------------------------------------------------------
(***************************************************************************)
(* heartbeatInFlight goes up with the only beat in flight and down with it.*)
(***************************************************************************)
LEMMA BeatsStep ==
  TypeOK /\ BeatsNeverStack /\ [Next]_vars => BeatsNeverStack'
  <1> SUFFICES ASSUME TypeOK, BeatsNeverStack, [Next]_vars
               PROVE  BeatsNeverStack'
    OBVIOUS
  <1> USE DEF Become, IsDoing, Doing, Free
  <1>1. ASSUME UNCHANGED inFlight,
               \A b \in Beats : calls'[b].kind = "beat" <=> calls[b].kind = "beat"
        PROVE  BeatsNeverStack'
    BY <1>1 DEF BeatsNeverStack
  <1>2. ASSUME NEW b \in Beats, BeatSends(b) PROVE BeatsNeverStack'
    BY <1>2 DEF BeatSends, MayBeat, BeatsNeverStack, TypeOK, Callers
  <1>3. ASSUME NEW b \in Beats, BeatAnswered(b) \/ BeatFails(b)
        PROVE  BeatsNeverStack'
    <2>1. /\ calls[b].kind = "beat"
          /\ inFlight' = FALSE
          /\ calls' = [calls EXCEPT ![b] = Free]
      BY <1>3 DEF BeatAnswered, BeatFails, BeatDone
    <2> QED
      BY <2>1 DEF BeatsNeverStack, TypeOK, Callers
  <1>4. ASSUME NEW h \in Handlers, RequestStep(h) PROVE BeatsNeverStack'
    BY <1>4, <1>1 DEF RequestStep, Arrive, Dismiss, RequestBegin,
                      RequestGoesOn, RequestSettles, TypeOK, Callers
  <1>5. ASSUME NEW h \in Handlers, \/ StartBegin(h) \/ RemoteFails(h) \/ Configured(h)
                                   \/ ConfigureFails(h) \/ CleanupSettles(h)
        PROVE  BeatsNeverStack'
    BY <1>5, <1>1 DEF StartBegin, RemoteFails, Configured, ConfigureFails,
                      CleanupSettles, TypeOK, Callers
  <1>6. ASSUME NEW h \in Handlers, NEW s \in Sessions, RemoteAnswers(h, s)
        PROVE  BeatsNeverStack'
    BY <1>6, <1>1 DEF RemoteAnswers, TypeOK, Callers
  <1>7. ASSUME NEW h \in Handlers, RequestReportsGone(h) PROVE BeatsNeverStack'
    BY <1>7, <1>1 DEF RequestReportsGone, TypeOK, Callers
  <1>8. ASSUME NEW c \in Callers, calls[c].kind \in {"arrived", "free"},
               EndSession(c)
        PROVE  BeatsNeverStack'
    BY <1>8, <1>1 DEF EndSession, TypeOK, Callers
  <1>9. ASSUME NEW c \in Callers, EndSettles(c) PROVE BeatsNeverStack'
    BY <1>9, <1>1 DEF EndSettles, TypeOK, Callers
  <1>10. ASSUME UNCHANGED <<inFlight, calls>> PROVE BeatsNeverStack'
    BY <1>10 DEF BeatsNeverStack
  <1> QED
    BY <1>2, <1>3, <1>4, <1>5, <1>6, <1>7, <1>8, <1>9, <1>10
    DEF Next, HandlerStep, BeatStep, RequestStep, EndBegin, BeatIdle, Callers,
        AppiumDrops, TimePasses, vars

-----------------------------------------------------------------------------
(***************************************************************************)
(* A failure is charged only to the session whose beat failed, and the     *)
(* count starts from zero for every session.                               *)
(***************************************************************************)
LEMMA FailuresStep ==
  TypeOK /\ CallsNameSessions /\ FailuresAreItsOwn /\ [Next]_vars
    => FailuresAreItsOwn'
  <1> SUFFICES ASSUME TypeOK, CallsNameSessions, FailuresAreItsOwn, [Next]_vars
               PROVE  FailuresAreItsOwn'
    OBVIOUS
  <1> USE LimitsAreNatural
  <1>1. ASSUME driver' = NoSession \/ UNCHANGED <<driver, failures, badBeats>>
        PROVE  FailuresAreItsOwn'
    BY <1>1 DEF FailuresAreItsOwn
  <1>2. ASSUME driver' \in Sessions \/ driver' = NoSession, failures' = 0,
               UNCHANGED badBeats
        PROVE  FailuresAreItsOwn'
    BY <1>2 DEF FailuresAreItsOwn, TypeOK
  <1>3. ASSUME NEW h \in Handlers, Configured(h) PROVE FailuresAreItsOwn'
    <2>1. calls[h].sess \in Sessions
      BY <1>3 DEF Configured, IsDoing, CallsNameSessions, WaitsOn, Opened, Callers
    <2> QED
      BY <1>3, <2>1, <1>2 DEF Configured, StartHeartbeat
  <1>4. ASSUME NEW h \in Handlers, RequestReportsGone(h) PROVE FailuresAreItsOwn'
    BY <1>4, <1>1 DEF RequestReportsGone, MarkSessionLost, Discard
  <1>5. ASSUME NEW c, EndSession(c) PROVE FailuresAreItsOwn'
    BY <1>5, <1>2 DEF EndSession, StopHeartbeat, TypeOK, MaybeSession
  <1>6. ASSUME NEW c, EndSettles(c) PROVE FailuresAreItsOwn'
    BY <1>6, <1>1 DEF EndSettles
  <1>7. ASSUME NEW b \in Beats, BeatAnswered(b) PROVE FailuresAreItsOwn'
    <2> DEFINE s == calls[b].sess
    <2>1. /\ UNCHANGED driver
          /\ badBeats' = [badBeats EXCEPT ![s] = 0]
          /\ failures' = IF driver = s THEN 0 ELSE failures
      BY <1>7 DEF BeatAnswered, StillCurrent
    <2>2. s \in Sessions
      BY <1>7 DEF BeatAnswered, IsDoing, CallsNameSessions, WaitsOn, Opened, Callers
    <2> QED
      BY <2>1, <2>2 DEF FailuresAreItsOwn, TypeOK, MaybeSession
  <1>8. ASSUME NEW b \in Beats, BeatFails(b) PROVE FailuresAreItsOwn'
    <2> DEFINE s == calls[b].sess
    <2>1. badBeats' = [badBeats EXCEPT ![s] = IF @ < FailureLimit THEN @ + 1 ELSE @]
      BY <1>8 DEF BeatFails
    <2>2. CASE driver # s
      <3>1. UNCHANGED <<driver, failures>>
        BY <1>8, <2>2 DEF BeatFails, StillCurrent
      <3> QED
        BY <2>1, <2>2, <3>1 DEF FailuresAreItsOwn, TypeOK, MaybeSession
    <2>3. CASE driver = s /\ driver' # NoSession
      <3>1. /\ failures + 1 < FailureLimit
            /\ failures' = failures + 1
            /\ UNCHANGED driver
        BY <1>8, <2>3 DEF BeatFails, StillCurrent, CountFailure, Discard, TypeOK
      <3> QED
        BY <2>1, <2>3, <3>1 DEF FailuresAreItsOwn, TypeOK, MaybeSession
    <2> QED
      BY <2>2, <2>3, <1>1
  <1>9. ASSUME UNCHANGED <<driver, failures, badBeats>> PROVE FailuresAreItsOwn'
    BY <1>9, <1>1
  <1> QED
    BY <1>3, <1>4, <1>5, <1>6, <1>7, <1>8, <1>9
    DEF Next, HandlerStep, Arrive, Dismiss, StartBegin, RemoteFails,
        RemoteAnswers, ConfigureFails, CleanupSettles, RequestBegin,
        RequestGoesOn, RequestSettles, BeatStep, BeatSends, EndBegin, BeatIdle,
        AppiumDrops, TimePasses, vars

-----------------------------------------------------------------------------
(***************************************************************************)
(* The inductive invariant, and with it the type invariant and the safety  *)
(* invariants of the overlapping runs.                                     *)
(***************************************************************************)
LEMMA IInvStep == IInv /\ [Next]_vars => IInv'
  BY TypeStep, OpenedStep, OneStartStep, WatchedStep, BeatsStep, FailuresStep
  DEF IInv

THEOREM Invariance == Spec => []IInv
  BY InitIInv, IInvStep, PTL DEF Spec

(***************************************************************************)
(* Type correctness: in particular the failure count never passes its      *)
(* limit and the released and running sets only ever hold sessions.        *)
(***************************************************************************)
THEOREM TypeCorrect == Spec => []TypeOK
  <1>1. IInv => TypeOK
    BY DEF IInv
  <1> QED
    BY <1>1, Invariance, PTL

(***************************************************************************)
(* startSession's guards: at most one connect at a time, none while a      *)
(* session is stored, and `starting' up exactly while one is under way.    *)
(***************************************************************************)
THEOREM StartIsExclusive == Spec => []OneStartAtATime
  <1>1. IInv => OneStartAtATime
    BY DEF IInv
  <1> QED
    BY <1>1, Invariance, PTL

(***************************************************************************)
(* The stored session always has its own running, cancellable heartbeat,   *)
(* or is being ended.                                                      *)
(***************************************************************************)
THEOREM AlwaysWatched == Spec => []SessionIsWatched
  <1>1. IInv => SessionIsWatched
    BY DEF IInv
  <1> QED
    BY <1>1, Invariance, PTL

(***************************************************************************)
(* Beats never stack and heartbeatInFlight is never left up.               *)
(***************************************************************************)
THEOREM BeatsAreSerial == Spec => []BeatsNeverStack
  <1>1. IInv => BeatsNeverStack
    BY DEF IInv
  <1> QED
    BY <1>1, Invariance, PTL

(***************************************************************************)
(* No session is charged with failures of beats on another one.            *)
(***************************************************************************)
THEOREM FailuresNotInherited == Spec => []FailuresAreItsOwn
  <1>1. IInv => FailuresAreItsOwn
    BY DEF IInv
  <1> QED
    BY <1>1, Invariance, PTL
-----------------------------------------------------------------------------
(***************************************************************************)
(* The failures counted by the time a heartbeat gives a session up are     *)
(* failures of that session alone, FailureLimit of them in a row.          *)
(***************************************************************************)
LEMMA DiscardStep ==
  IInv /\ [Next]_vars =>
    \A b \in Beats : DiscardedByBeat(b) =>
      calls[b].sess = driver /\ badBeats'[driver] = FailureLimit
  <1> SUFFICES ASSUME IInv, [Next]_vars, NEW b \in Beats, DiscardedByBeat(b)
               PROVE  calls[b].sess = driver /\ badBeats'[driver] = FailureLimit
    OBVIOUS
  <1> USE DEF Become, IsDoing, Doing
  <1>1. /\ calls[b].kind = "beat" /\ calls'[b].kind # "beat"
        /\ driver # NoSession /\ driver' = NoSession
    BY DEF DiscardedByBeat
  <1>2. TypeOK
    BY DEF IInv
  <1>3. ASSUME NEW c \in Callers, NEW call, Become(c, call), c # b PROVE FALSE
    BY <1>1, <1>2, <1>3 DEF TypeOK, Callers
  <1>4. ASSUME NEW c \in Callers, calls[c].kind # "beat", NEW call, Become(c, call)
        PROVE  FALSE
    BY <1>1, <1>3, <1>4
  <1>5. ~\E h \in Handlers : HandlerStep(h)
    <2> SUFFICES ASSUME NEW h \in Handlers, HandlerStep(h) PROVE FALSE
      OBVIOUS
    <2>1. calls[h].kind # "beat" /\ \E call : Become(h, call)
      BY DEF HandlerStep, Arrive, Dismiss, StartBegin, RemoteFails, RemoteAnswers,
             Configured, ConfigureFails, CleanupSettles, RequestBegin,
             RequestGoesOn, RequestSettles, RequestReportsGone, Free
    <2> QED
      BY <2>1, <1>4 DEF Callers
  <1>6. ~\E c \in Handlers \union Enders : EndBegin(c)
    <2> SUFFICES ASSUME NEW c \in Handlers \union Enders, EndBegin(c) PROVE FALSE
      OBVIOUS
    <2>1. calls[c].kind # "beat" /\ \E call : Become(c, call)
      BY DEF EndBegin, EndSession
    <2> QED
      BY <2>1, <1>4 DEF Callers
  <1>7. ~\E c \in Callers : EndSettles(c)
    BY <1>4 DEF EndSettles
  <1>8. ~\E d \in Beats : BeatIdle(d) \/ BeatSends(d) \/ BeatAnswered(d)
    BY <1>1 DEF BeatIdle, EndSession, BeatSends, BeatAnswered
  <1>9. ASSUME NEW d \in Beats, BeatFails(d)
        PROVE  calls[b].sess = driver /\ badBeats'[driver] = FailureLimit
    <2>1. d = b
      <3>1. \E call : Become(d, call)
        BY <1>9 DEF BeatFails
      <3> QED
        BY <3>1, <1>3 DEF Callers
    <2>2. driver = calls[b].sess /\ failures + 1 >= FailureLimit
      BY <1>1, <1>9, <2>1 DEF BeatFails, StillCurrent, CountFailure
    <2>3. badBeats' = [badBeats EXCEPT ![driver] = IF @ < FailureLimit THEN @ + 1 ELSE @]
      BY <1>9, <2>1, <2>2 DEF BeatFails
    <2>4. failures <= badBeats[driver] /\ driver \in Sessions
      BY <1>1, <1>2 DEF IInv, FailuresAreItsOwn, TypeOK, MaybeSession
    <2> QED
      BY <1>2, <2>2, <2>3, <2>4, LimitsAreNatural DEF TypeOK
  <1>10. ~(\E s \in Sessions : AppiumDrops(s)) /\ ~TimePasses /\ ~UNCHANGED vars
    BY <1>1 DEF AppiumDrops, TimePasses, vars
  <1> QED
    BY <1>5, <1>6, <1>7, <1>8, <1>9, <1>10 DEF Next, BeatStep

(***************************************************************************)
(* A heartbeat discards a session only after FailureLimit consecutive      *)
(* failed beats on that very session.                                      *)
(***************************************************************************)
THEOREM HeartbeatIsPatient == Spec => HeartbeatDiscardsTheUnresponsive
  <1>1. IInv /\ [Next]_vars =>
          [\A b \in Beats : DiscardedByBeat(b) =>
             calls[b].sess = driver /\ badBeats'[driver] = FailureLimit]_vars
    BY DiscardStep
  <1> QED
    BY <1>1, Invariance, PTL DEF Spec, HeartbeatDiscardsTheUnresponsive
-----------------------------------------------------------------------------
(***************************************************************************)
(* With at most one connect past remote(), SessionOfConnect picks its      *)
(* session, whatever the other activations do.                             *)
(***************************************************************************)
LEMMA OneConnect ==
  ASSUME NEW doing,
         \A h, k \in Handlers :
           Connecting(doing[h]) /\ Connecting(doing[k]) => h = k
  PROVE  /\ \A h \in Handlers : Connecting(doing[h]) =>
                                  SessionOfConnect(doing) = doing[h].sess
         /\ (\A h \in Handlers : ~Connecting(doing[h])) =>
               SessionOfConnect(doing) = NoSession
  <1>1. ASSUME NEW h \in Handlers, Connecting(doing[h])
        PROVE  SessionOfConnect(doing) = doing[h].sess
    <2> DEFINE k == CHOOSE x \in Handlers : Connecting(doing[x])
    <2>1. k \in Handlers /\ Connecting(doing[k])
      BY <1>1
    <2>2. k = h
      BY <1>1, <2>1
    <2> QED
      BY <1>1, <2>2 DEF SessionOfConnect
  <1> QED
    BY <1>1 DEF SessionOfConnect

LEMMA LeaseStep == IInv /\ IInv' /\ [Next]_vars => [Lease!Next]_Lease!vars
  <1> SUFFICES ASSUME IInv, IInv', [Next]_vars
               PROVE  [Lease!Next]_Lease!vars
    OBVIOUS
  <1> USE DEF Become, IsDoing, Doing, Free
  <1> DEFINE SC == SessionOfConnect(calls)
             SCNext == SessionOfConnect(calls')
  <1>1. /\ TypeOK /\ TypeOK'
        /\ OneStartAtATime /\ OneStartAtATime'
    BY DEF IInv
  <1>2. \A h \in Handlers : Connecting(calls[h]) => Starter(h)
    BY DEF Connecting, Starter, StartCalls
  <1>3. \A h \in Handlers : Connecting(calls'[h]) => Starter(h)'
    BY DEF Connecting, Starter, StartCalls
  <1>4. /\ \A h \in Handlers : Connecting(calls[h]) => SC = calls[h].sess
        /\ (\A h \in Handlers : ~Connecting(calls[h])) => SC = NoSession
    <2>1. \A h, k \in Handlers : Connecting(calls[h]) /\ Connecting(calls[k]) => h = k
      BY <1>1, <1>2 DEF OneStartAtATime
    <2> QED
      BY <2>1, OneConnect
  <1>5. /\ \A h \in Handlers : Connecting(calls'[h]) => SCNext = calls'[h].sess
        /\ (\A h \in Handlers : ~Connecting(calls'[h])) => SCNext = NoSession
    <2>1. \A h, k \in Handlers : Connecting(calls'[h]) /\ Connecting(calls'[k]) => h = k
      BY <1>1, <1>3 DEF OneStartAtATime
    <2> QED
      BY <2>1, OneConnect
  <1>6. ~starting => SC = NoSession
    BY <1>1, <1>2, <1>4 DEF OneStartAtATime
  <1>7. ~starting' => SCNext = NoSession
    BY <1>1, <1>3, <1>5 DEF OneStartAtATime
  <1> HIDE DEF SC, SCNext
  <1>8. /\ stageBar' = IF driver' # NoSession THEN "held"
                       ELSE IF starting' THEN "connecting" ELSE "free"
        /\ sessionBar = IF driver # NoSession THEN driver ELSE SC
        /\ sessionBar' = IF driver' # NoSession THEN driver' ELSE SCNext
    BY DEF stageBar, sessionBar, SC, SCNext
  <1> DEFINE SameConnect ==
        \A h \in Handlers :
          /\ Connecting(calls'[h]) <=> Connecting(calls[h])
          /\ Connecting(calls[h]) => calls'[h].sess = calls[h].sess
  <1>9. SameConnect => SCNext = SC
    <2>1. CASE \E h \in Handlers : Connecting(calls[h])
      BY <2>1, <1>4, <1>5
    <2>2. CASE \A h \in Handlers : ~Connecting(calls[h])
      BY <2>2, <1>4, <1>5
    <2> QED
      BY <2>1, <2>2
  <1> HIDE DEF SameConnect
  \* A step the lease does not see.
  <1>10. ASSUME SameConnect, UNCHANGED <<driver, starting, usedBar>>
         PROVE  UNCHANGED Lease!vars
    BY <1>8, <1>9, <1>10 DEF Lease!vars, stageBar
  \* A step that drops the stored session, if there is one.
  <1>11. ASSUME SameConnect, driver' = NoSession, UNCHANGED <<starting, usedBar>>
         PROVE  [Lease!Next]_Lease!vars
    <2>1. CASE driver = NoSession
      BY <2>1, <1>10, <1>11
    <2>2. CASE driver # NoSession
      <3>1. ~starting
        BY <2>2, <1>1 DEF OneStartAtATime
      <3>2. stageBar = "held" /\ stageBar' = "free" /\ sessionBar' = NoSession
        BY <2>2, <3>1, <1>7, <1>8, <1>11 DEF stageBar
      <3> QED
        BY <3>2, <1>11 DEF Lease!Next, Lease!GiveUp
    <2> QED
      BY <2>1, <2>2
  <1>12. ASSUME NEW c \in Callers, NEW call, Become(c, call),
                ~Connecting(calls[c]), ~Connecting(call)
         PROVE  SameConnect
    BY <1>1, <1>12 DEF TypeOK, SameConnect, Callers
  <1>13. ASSUME NEW h \in Handlers, StartBegin(h) PROVE [Lease!Next]_Lease!vars
    <2>1. SameConnect /\ UNCHANGED <<driver, usedBar>>
      BY <1>13, <1>1 DEF StartBegin, SameConnect, Connecting, TypeOK, Callers, usedBar
    <2>2. /\ driver = NoSession /\ ~starting /\ starting'
      BY <1>13 DEF StartBegin, MayStart
    <2> QED
      BY <2>1, <2>2, <1>8, <1>9 DEF Lease!Next, Lease!Begin, stageBar
  <1>14. ASSUME NEW h \in Handlers, NEW s \in Sessions, RemoteAnswers(h, s)
         PROVE  [Lease!Next]_Lease!vars
    <2>1. /\ Starter(h) /\ ~Connecting(calls[h])
          /\ calls'[h] = [kind |-> "configure", sess |-> s]
          /\ UNCHANGED <<driver, starting>>
      BY <1>14, <1>1 DEF RemoteAnswers, Starter, StartCalls, Connecting, TypeOK, Callers
    <2>2. starting /\ driver = NoSession
      BY <2>1, <1>1 DEF OneStartAtATime
    <2>3. SC = NoSession
      BY <2>1, <1>1, <1>2, <1>4 DEF OneStartAtATime
    <2>4. SCNext = s
      BY <2>1, <1>5 DEF Connecting
    <2>5. s \notin usedBar /\ usedBar' = usedBar \union {s}
      BY <1>14, <1>1 DEF RemoteAnswers, usedBar, TypeOK
    <2> QED
      BY <2>1, <2>2, <2>3, <2>4, <2>5, <1>8 DEF Lease!Next, Lease!Open, stageBar
  <1>15. ASSUME NEW h \in Handlers, Configured(h) PROVE [Lease!Next]_Lease!vars
    <2>1. /\ Connecting(calls[h]) /\ Starter(h)
          /\ driver' = calls[h].sess
          /\ UNCHANGED usedBar
      BY <1>15 DEF Configured, Connecting, Starter, StartCalls, usedBar
    <2>2. calls[h].sess \in Sessions
      BY <1>15 DEF Configured, IInv, CallsNameSessions, WaitsOn, Opened, Callers
    <2>3. starting /\ driver = NoSession /\ SC = calls[h].sess
      BY <2>1, <1>1, <1>4 DEF OneStartAtATime
    <2> QED
      BY <2>1, <2>2, <2>3, <1>8, NoSessionIsNone DEF Lease!Next, Lease!Hold, stageBar
  <1>16. ASSUME NEW h \in Handlers, ConfigureFails(h)
         PROVE  UNCHANGED Lease!vars
    <2>1. SameConnect /\ UNCHANGED <<driver, starting, usedBar>>
      BY <1>16, <1>1
      DEF ConfigureFails, SameConnect, Connecting, TypeOK, Callers, usedBar
    <2> QED
      BY <2>1, <1>10
  <1>17. ASSUME NEW h \in Handlers, RemoteFails(h) \/ CleanupSettles(h)
         PROVE  [Lease!Next]_Lease!vars
    <2>1. Starter(h) /\ ~starting' /\ UNCHANGED driver
      BY <1>17 DEF RemoteFails, CleanupSettles, Starter, StartCalls
    <2>2. starting /\ driver = NoSession
      BY <2>1, <1>1 DEF OneStartAtATime
    <2>3. UNCHANGED usedBar
      <3>1. \A k \in Handlers, s \in Sessions : ~RemoteAnswers(k, s)
        BY <1>1, <1>17
        DEF RemoteAnswers, RemoteFails, CleanupSettles, TypeOK, Callers
      <3> QED
        BY <3>1, AppiumFrame DEF IInv
    <2> QED
      BY <2>1, <2>2, <2>3, <1>7, <1>8 DEF Lease!Next, Lease!GiveUp, stageBar
  <1>18. CASE \E h \in Handlers, s \in Sessions : RemoteAnswers(h, s)
    BY <1>14, <1>18
  <1>19. CASE \A h \in Handlers, s \in Sessions : ~RemoteAnswers(h, s)
    <2>1. UNCHANGED usedBar
      BY <1>19, AppiumFrame DEF IInv
    <2>2. ASSUME NEW h \in Handlers, RequestStep(h) PROVE UNCHANGED Lease!vars
      <3>1. SameConnect /\ UNCHANGED <<driver, starting>>
        BY <2>2, <1>1
        DEF RequestStep, Arrive, Dismiss, RequestBegin, RequestGoesOn,
            RequestSettles, SameConnect, Connecting, TypeOK, Callers
      <3> QED
        BY <3>1, <2>1, <1>10
    <2>3. ASSUME NEW h \in Handlers, RequestReportsGone(h)
          PROVE  [Lease!Next]_Lease!vars
      <3>1. SameConnect /\ UNCHANGED starting
        BY <2>3, <1>1 DEF RequestReportsGone, SameConnect, Connecting, TypeOK, Callers
      <3>2. driver' = NoSession
        BY <2>3 DEF RequestReportsGone, MarkSessionLost, Discard
      <3> QED
        BY <3>1, <3>2, <2>1, <1>11
    <2>4. ASSUME NEW c \in Callers, calls[c].kind \in {"arrived", "free"},
                 EndSession(c)
          PROVE  UNCHANGED Lease!vars
      <3>1. SameConnect /\ UNCHANGED <<driver, starting>>
        BY <2>4, <1>1 DEF EndSession, SameConnect, Connecting, TypeOK, Callers
      <3> QED
        BY <3>1, <2>1, <1>10
    <2>5. ASSUME NEW c \in Callers, EndSettles(c) PROVE [Lease!Next]_Lease!vars
      <3>1. SameConnect /\ UNCHANGED starting /\ driver' = NoSession
        BY <2>5, <1>1 DEF EndSettles, SameConnect, Connecting, TypeOK, Callers
      <3> QED
        BY <3>1, <2>1, <1>11
    <2>6. ASSUME NEW b \in Beats, BeatSends(b) \/ BeatAnswered(b)
          PROVE  UNCHANGED Lease!vars
      <3>1. SameConnect /\ UNCHANGED <<driver, starting>>
        BY <2>6, <1>1
        DEF BeatSends, BeatAnswered, SameConnect, Connecting, TypeOK, Callers
      <3> QED
        BY <3>1, <2>1, <1>10
    <2>7. ASSUME NEW b \in Beats, BeatFails(b) PROVE [Lease!Next]_Lease!vars
      <3>1. SameConnect /\ UNCHANGED starting
        BY <2>7, <1>1 DEF BeatFails, SameConnect, Connecting, TypeOK, Callers
      <3>2. driver' = driver \/ driver' = NoSession
        BY <2>7 DEF BeatFails, CountFailure, Discard
      <3> QED
        BY <3>1, <3>2, <2>1, <1>10, <1>11
    <2>8. ASSUME UNCHANGED <<driver, starting, calls>> PROVE UNCHANGED Lease!vars
      BY <2>1, <2>8, <1>10 DEF SameConnect
    <2> QED
      BY <2>2, <2>3, <2>4, <2>5, <2>6, <2>7, <2>8, <1>13, <1>15, <1>16, <1>17, <1>19
      DEF Next, HandlerStep, BeatStep, RequestStep, EndBegin, BeatIdle, Callers,
          AppiumDrops, TimePasses, vars
  <1> QED
    BY <1>18, <1>19

(***************************************************************************)
(* SessionManager implements OneSession: whatever connects, ends, losses   *)
(* and heartbeats overlap, the manager is a lease on one session at a time.*)
(***************************************************************************)
THEOREM Refinement == Spec => HoldsOneSession
  <1>1. Init => Lease!Init
    BY DEF Init, Lease!Init, stageBar, sessionBar, usedBar, SessionOfConnect,
           Connecting, Free, Doing, Callers
  <1>2. IInv /\ IInv' /\ [Next]_vars => [Lease!Next]_Lease!vars
    BY LeaseStep
  <1> QED
    BY <1>1, <1>2, Invariance, PTL DEF Spec, HoldsOneSession, Lease!Spec

-----------------------------------------------------------------------------
(***************************************************************************)
(* What the session manager guarantees to a client that sends one request  *)
(* at a time, waits for each reply, and is never cut short by the idle     *)
(* timeout or by a shutdown: no session is leaked, no heartbeat interval   *)
(* gets out of reach, and a report of a lost session is about the session  *)
(* held.  Each of the three fails once two handlers, or a handler and an   *)
(* idle heartbeat, overlap.                                                *)
(***************************************************************************)

\* One request at a time, and no endSession() but a client's or a shutdown's.
OneAtATime == /\ \A h, k \in Handlers : h = k
              /\ IdleLimit = 0

SoloClient == OneAtATime /\ Enders = {}

\* No connect overlaps a shutdown's endSession().
ConnectsAlone == starting => \A e \in Enders : ~IsDoing(e, "end")

\* A call to endSession() is on the stored session, whose heartbeat it
\* stopped and whose deletion it has asked for.
EndsAreCurrent ==
  \A c \in Callers : calls[c].kind = "end" =>
    /\ c \notin Beats
    /\ intervals = {}
    /\ calls[c].sess \in released
    /\ driver \in {calls[c].sess, NoSession}

RequestsAreCurrent ==
  \A h \in Handlers : calls[h].kind = "request" =>
                        driver \in {calls[h].sess, NoSession}

CleanupsAreDeletions ==
  \A h \in Handlers : calls[h].kind = "cleanup" => calls[h].sess \in released

IntervalIsCurrent == /\ NoStrayInterval
                     /\ driver = NoSession => intervals = {}

SoloInv == /\ EndsAreCurrent
           /\ RequestsAreCurrent
           /\ CleanupsAreDeletions
           /\ IntervalIsCurrent
           /\ NoSessionLeaked

-----------------------------------------------------------------------------
LEMMA SoloInit == Init => SoloInv
  <1> SUFFICES ASSUME Init PROVE SoloInv
    OBVIOUS
  <1>1. \A c \in Callers : calls[c].kind = "free"
    BY DEF Init, Free, Doing
  <1>2. EndsAreCurrent /\ RequestsAreCurrent /\ CleanupsAreDeletions
    BY <1>1 DEF EndsAreCurrent, RequestsAreCurrent, CleanupsAreDeletions, Callers
  <1>3. IntervalIsCurrent /\ NoSessionLeaked
    BY DEF Init, IntervalIsCurrent, NoStrayInterval, NoSessionLeaked
  <1> QED
    BY <1>2, <1>3 DEF SoloInv

(***************************************************************************)
(* The only handler is busy from a connect's first step to its last, so no *)
(* endSession() of a client and no request of an earlier session is in     *)
(* flight when a session is stored.                                        *)
(***************************************************************************)
LEMMA EndsStep ==
  ASSUME OneAtATime, ConnectsAlone, IInv, EndsAreCurrent, IntervalIsCurrent,
         [Next]_vars
  PROVE  EndsAreCurrent'
  <1> USE DEF Become, IsDoing, Doing, Free
  <1>1. TypeOK
    BY DEF IInv
  <1>2. ASSUME \A c \in Callers : calls'[c].kind = "end" => calls'[c] = calls[c],
               intervals' \subseteq intervals, released \subseteq released',
               driver' \in {driver, NoSession}
        PROVE  EndsAreCurrent'
    BY <1>2 DEF EndsAreCurrent
  <1>3. ASSUME NEW h \in Handlers, Configured(h) PROVE EndsAreCurrent'
    <2>1. starting
      BY <1>3 DEF Configured, IInv, OneStartAtATime, Starter, StartCalls
    <2>2. \A e \in Enders : calls'[e].kind # "end"
      BY <1>1, <1>3, <2>1, CallersApart DEF Configured, ConnectsAlone, TypeOK, Callers
    <2>3. \A k \in Handlers : calls'[k].kind # "end"
      BY <1>1, <1>3 DEF Configured, OneAtATime, TypeOK, Callers
    <2>4. \A b \in Beats : calls'[b].kind # "end"
      BY <1>1, <1>3, CallersApart DEF Configured, EndsAreCurrent, TypeOK, Callers
    <2> QED
      BY <2>2, <2>3, <2>4 DEF EndsAreCurrent, Callers
  <1>4. ASSUME NEW c \in Handlers \union Enders, EndSession(c) PROVE EndsAreCurrent'
    <2>1. /\ driver # NoSession /\ driver' = driver
          /\ intervals' = {} /\ released' = released \union {driver}
          /\ calls' = [calls EXCEPT ![c] = [kind |-> "end", sess |-> driver]]
      BY <1>4 DEF EndSession, StopHeartbeat, IntervalIsCurrent, NoStrayInterval
    <2>2. ASSUME NEW d \in Callers, calls'[d].kind = "end"
          PROVE  d \notin Beats /\ calls'[d].sess = driver
      BY <1>1, <2>1, <2>2, CallersApart DEF EndsAreCurrent, TypeOK, Callers
    <2> QED
      BY <2>1, <2>2 DEF EndsAreCurrent
  <1>5. ASSUME NEW h \in Handlers, HandlerStep(h), ~Configured(h)
        PROVE  EndsAreCurrent'
    <2>1. /\ intervals' \subseteq intervals /\ released \subseteq released'
          /\ driver' \in {driver, NoSession}
      BY <1>5
      DEF HandlerStep, Arrive, Dismiss, StartBegin, RemoteFails, RemoteAnswers,
          ConfigureFails, CleanupSettles, RequestBegin, RequestGoesOn,
          RequestSettles, RequestReportsGone, MarkSessionLost, Discard, StopHeartbeat
    <2>2. \A c \in Callers : calls'[c].kind = "end" => calls'[c] = calls[c]
      BY <1>1, <1>5
      DEF HandlerStep, Arrive, Dismiss, StartBegin, RemoteFails, RemoteAnswers,
          ConfigureFails, CleanupSettles, RequestBegin, RequestGoesOn,
          RequestSettles, RequestReportsGone, TypeOK, Callers
    <2> QED
      BY <1>2, <2>1, <2>2
  <1>6. ASSUME NEW c \in Callers, EndSettles(c) PROVE EndsAreCurrent'
    BY <1>1, <1>2, <1>6 DEF EndSettles, TypeOK
  <1>7. ASSUME NEW b \in Beats, BeatSends(b) \/ BeatAnswered(b) PROVE EndsAreCurrent'
    BY <1>1, <1>2, <1>7 DEF BeatSends, BeatAnswered, TypeOK, Callers
  <1>8. ASSUME NEW b \in Beats, BeatFails(b) PROVE EndsAreCurrent'
    <2>1. /\ intervals' \subseteq intervals /\ released \subseteq released'
          /\ driver' \in {driver, NoSession}
      BY <1>8 DEF BeatFails, CountFailure, Discard, StopHeartbeat
    <2>2. \A c \in Callers : calls'[c].kind = "end" => calls'[c] = calls[c]
      BY <1>1, <1>8 DEF BeatFails, TypeOK, Callers
    <2> QED
      BY <1>2, <2>1, <2>2
  <1>9. ASSUME UNCHANGED <<driver, intervals, released, calls>>
        PROVE  EndsAreCurrent'
    BY <1>9, <1>2
  <1>10. \A b \in Beats : ~BeatIdle(b)
    BY DEF BeatIdle, IsIdle, OneAtATime
  <1> QED
    BY <1>3, <1>4, <1>5, <1>6, <1>7, <1>8, <1>9, <1>10
    DEF Next, BeatStep, EndBegin, AppiumDrops, TimePasses, vars

LEMMA RequestsStep ==
  ASSUME OneAtATime, IInv, RequestsAreCurrent, [Next]_vars
  PROVE  RequestsAreCurrent'
  <1> USE DEF Become, IsDoing, Doing, Free
  <1>1. TypeOK
    BY DEF IInv
  <1>2. ASSUME driver' \in {driver, NoSession},
               \A h \in Handlers : calls'[h].kind = "request" =>
                 calls'[h] = calls[h] \/ calls'[h].sess = driver
        PROVE  RequestsAreCurrent'
    BY <1>2 DEF RequestsAreCurrent
  <1>3. ASSUME NEW h \in Handlers, Configured(h) PROVE RequestsAreCurrent'
    BY <1>1, <1>3 DEF Configured, RequestsAreCurrent, OneAtATime, TypeOK, Callers
  <1>4. ASSUME NEW h \in Handlers, HandlerStep(h), ~Configured(h)
        PROVE  RequestsAreCurrent'
    <2>1. driver' \in {driver, NoSession}
      BY <1>4
      DEF HandlerStep, Arrive, Dismiss, StartBegin, RemoteFails, RemoteAnswers,
          ConfigureFails, CleanupSettles, RequestBegin, RequestGoesOn,
          RequestSettles, RequestReportsGone, MarkSessionLost, Discard
    <2>2. \A k \in Handlers : calls'[k].kind = "request" =>
            calls'[k] = calls[k] \/ calls'[k].sess = driver
      BY <1>1, <1>4
      DEF HandlerStep, Arrive, Dismiss, StartBegin, RemoteFails, RemoteAnswers,
          ConfigureFails, CleanupSettles, RequestBegin, RequestGoesOn,
          RequestSettles, RequestReportsGone, TypeOK, Callers
    <2> QED
      BY <1>2, <2>1, <2>2
  <1>5. ASSUME NEW c \in Callers, EndSession(c) \/ EndSettles(c)
        PROVE  RequestsAreCurrent'
    BY <1>1, <1>2, <1>5 DEF EndSession, EndSettles, TypeOK, Callers
  <1>6. ASSUME NEW b \in Beats, BeatSends(b) \/ BeatAnswered(b)
        PROVE  RequestsAreCurrent'
    BY <1>1, <1>2, <1>6 DEF BeatSends, BeatAnswered, TypeOK, Callers
  <1>7. ASSUME NEW b \in Beats, BeatFails(b) PROVE RequestsAreCurrent'
    <2>1. driver' \in {driver, NoSession}
      BY <1>7 DEF BeatFails, CountFailure, Discard
    <2> QED
      BY <1>1, <1>2, <1>7, <2>1 DEF BeatFails, TypeOK, Callers
  <1>8. ASSUME UNCHANGED <<driver, calls>> PROVE RequestsAreCurrent'
    BY <1>8, <1>2
  <1> QED
    BY <1>3, <1>4, <1>5, <1>6, <1>7, <1>8
    DEF Next, BeatStep, EndBegin, BeatIdle, Callers, AppiumDrops, TimePasses, vars

LEMMA CleanupsStep ==
  ASSUME IInv, CleanupsAreDeletions, [Next]_vars
  PROVE  CleanupsAreDeletions'
  <1> USE DEF Become, IsDoing, Doing, Free
  <1>1. TypeOK
    BY DEF IInv
  <1>2. ASSUME released \subseteq released',
               \A h \in Handlers : calls'[h].kind = "cleanup" =>
                 calls'[h] = calls[h] \/ calls'[h].sess \in released'
        PROVE  CleanupsAreDeletions'
    BY <1>2 DEF CleanupsAreDeletions
  <1>3. ASSUME NEW h \in Handlers, HandlerStep(h) PROVE CleanupsAreDeletions'
    BY <1>1, <1>2, <1>3
    DEF HandlerStep, Arrive, Dismiss, StartBegin, RemoteFails, RemoteAnswers,
        Configured, ConfigureFails, CleanupSettles, RequestBegin, RequestGoesOn,
        RequestSettles, RequestReportsGone, TypeOK, Callers
  <1>4. ASSUME NEW c \in Callers, EndSession(c) \/ EndSettles(c)
        PROVE  CleanupsAreDeletions'
    BY <1>1, <1>2, <1>4 DEF EndSession, EndSettles, TypeOK, Callers
  <1>5. ASSUME NEW b \in Beats, BeatSends(b) \/ BeatAnswered(b)
        PROVE  CleanupsAreDeletions'
    BY <1>1, <1>2, <1>5 DEF BeatSends, BeatAnswered, TypeOK, Callers
  <1>6. ASSUME NEW b \in Beats, BeatFails(b) PROVE CleanupsAreDeletions'
    <2>1. released \subseteq released'
      BY <1>6 DEF BeatFails, CountFailure
    <2> QED
      BY <1>1, <1>2, <1>6, <2>1 DEF BeatFails, TypeOK, Callers
  <1>7. ASSUME UNCHANGED <<released, calls>> PROVE CleanupsAreDeletions'
    BY <1>7, <1>2
  <1> QED
    BY <1>3, <1>4, <1>5, <1>6, <1>7
    DEF Next, BeatStep, EndBegin, BeatIdle, Callers, AppiumDrops, TimePasses, vars

LEMMA IntervalStep ==
  ASSUME IInv, EndsAreCurrent, IntervalIsCurrent, [Next]_vars
  PROVE  IntervalIsCurrent'
  <1> USE DEF IsDoing
  <1>1. TypeOK /\ OneStartAtATime
    BY DEF IInv
  <1>2. ASSUME UNCHANGED <<driver, timer, intervals>> \/ intervals' = {}
        PROVE  IntervalIsCurrent'
    BY <1>2 DEF IntervalIsCurrent, NoStrayInterval
  <1>3. StopHeartbeat => intervals' = {}
    BY DEF StopHeartbeat, IntervalIsCurrent, NoStrayInterval
  <1>4. ASSUME NEW h \in Handlers, Configured(h) PROVE IntervalIsCurrent'
    <2>1. driver = NoSession /\ intervals = {}
      BY <1>1, <1>4 DEF Configured, OneStartAtATime, Starter, StartCalls, IntervalIsCurrent
    <2>2. driver' \in Sessions /\ intervals' = {driver'} /\ timer' = driver'
      BY <1>4, <2>1 DEF Configured, StartHeartbeat, IInv, CallsNameSessions,
                        WaitsOn, Opened, Callers
    <2> QED
      BY <2>2, NoSessionIsNone DEF IntervalIsCurrent, NoStrayInterval
  <1>5. ASSUME NEW h \in Handlers, RequestReportsGone(h) PROVE IntervalIsCurrent'
    BY <1>2, <1>3, <1>5 DEF RequestReportsGone, MarkSessionLost, Discard
  <1>6. ASSUME NEW c, EndSession(c) PROVE IntervalIsCurrent'
    BY <1>2, <1>3, <1>6 DEF EndSession
  <1>7. ASSUME NEW c \in Callers, EndSettles(c) PROVE IntervalIsCurrent'
    BY <1>2, <1>7 DEF EndSettles, EndsAreCurrent
  <1>8. ASSUME NEW b \in Beats, BeatFails(b) PROVE IntervalIsCurrent'
    BY <1>2, <1>3, <1>8 DEF BeatFails, CountFailure, Discard
  <1>9. ASSUME UNCHANGED <<driver, timer, intervals>> PROVE IntervalIsCurrent'
    BY <1>2, <1>9
  <1> QED
    BY <1>4, <1>5, <1>6, <1>7, <1>8, <1>9
    DEF Next, HandlerStep, Arrive, Dismiss, StartBegin, RemoteFails,
        RemoteAnswers, ConfigureFails, CleanupSettles, RequestBegin,
        RequestGoesOn, RequestSettles, BeatStep, BeatIdle, BeatSends,
        BeatAnswered, EndBegin, AppiumDrops, TimePasses, vars

-----------------------------------------------------------------------------
(***************************************************************************)
(* The stored session goes only with its deletion tried, with Appium's     *)
(* word that it is gone, or with too many failed heartbeats.               *)
(***************************************************************************)
LEMMA LeakStep ==
  ASSUME IInv, EndsAreCurrent, RequestsAreCurrent, CleanupsAreDeletions,
         NoSessionLeaked, [Next]_vars
  PROVE  NoSessionLeaked'
  <1> USE DEF Become, IsDoing, Doing, Free
  <1>1. TypeOK /\ CallsNameSessions /\ OneStartAtATime
    BY DEF IInv
  <1> SUFFICES ASSUME NEW s \in Sessions, appium'[s] = "live"
               PROVE  \/ s = driver'
                      \/ s \in released'
                      \/ \E h \in Handlers : Connecting(calls'[h]) /\ calls'[h].sess = s
    BY DEF NoSessionLeaked
  <1> DEFINE Kept == \/ s = driver'
                     \/ s \in released'
                     \/ \E h \in Handlers : Connecting(calls'[h]) /\ calls'[h].sess = s
  \* A session live before the step had one of the three; the step keeps it.
  <1>2. ASSUME appium[s] = "live", released \subseteq released',
               s = driver => s = driver' \/ s \in released',
               \A h \in Handlers : Connecting(calls[h]) =>
                 \/ calls'[h] = calls[h]
                 \/ calls[h].sess \in released' \union {driver'}
        PROVE  Kept
    BY <1>2 DEF NoSessionLeaked
  <1>3. \A h \in Handlers : Connecting(calls[h]) => calls[h].kind \in {"configure", "cleanup"}
    BY DEF Connecting
  <1>4. ASSUME NEW h \in Handlers, RequestStep(h) \/ StartBegin(h) \/ RemoteFails(h)
        PROVE  Kept
    <2>1. UNCHANGED <<appium, released, driver>> /\ ~Connecting(calls[h])
      BY <1>4 DEF RequestStep, Arrive, Dismiss, RequestBegin, RequestGoesOn,
                  RequestSettles, StartBegin, RemoteFails, Connecting
    <2>2. \A k \in Handlers : k # h => calls'[k] = calls[k]
      BY <1>1, <1>4 DEF RequestStep, Arrive, Dismiss, RequestBegin, RequestGoesOn,
                        RequestSettles, StartBegin, RemoteFails, TypeOK, Callers
    <2> QED
      BY <2>1, <2>2, <1>2
  <1>5. ASSUME NEW h \in Handlers, NEW t \in Sessions, RemoteAnswers(h, t)
        PROVE  Kept
    <2>1. calls'[h] = [kind |-> "configure", sess |-> t]
      BY <1>1, <1>5 DEF RemoteAnswers, TypeOK, Callers
    <2>2. CASE s = t
      BY <2>1, <2>2 DEF Connecting
    <2>3. CASE s # t
      <3>1. appium[s] = "live" /\ UNCHANGED <<released, driver>>
              /\ ~Connecting(calls[h])
        BY <1>1, <1>5, <2>3 DEF RemoteAnswers, Connecting, TypeOK
      <3>2. \A k \in Handlers : k # h => calls'[k] = calls[k]
        BY <1>1, <1>5 DEF RemoteAnswers, TypeOK, Callers
      <3> QED
        BY <3>1, <3>2, <1>2
    <2> QED
      BY <2>2, <2>3
  <1>6. ASSUME NEW h \in Handlers, Configured(h) PROVE Kept
    <2>1. UNCHANGED <<appium, released>> /\ driver' = calls[h].sess
      BY <1>6 DEF Configured
    <2>2. driver = NoSession
      BY <1>1, <1>6 DEF Configured, OneStartAtATime, Starter, StartCalls
    <2>3. \A k \in Handlers : k # h => calls'[k] = calls[k]
      BY <1>1, <1>6 DEF Configured, TypeOK, Callers
    <2> QED
      BY <2>1, <2>2, <2>3, <1>2, NoSessionIsNone
  <1>7. ASSUME NEW h \in Handlers, ConfigureFails(h) PROVE Kept
    <2>1. /\ UNCHANGED <<appium, driver>>
          /\ released' = released \union {calls[h].sess}
      BY <1>7 DEF ConfigureFails
    <2>2. \A k \in Handlers : k # h => calls'[k] = calls[k]
      BY <1>1, <1>7 DEF ConfigureFails, TypeOK, Callers
    <2> QED
      BY <2>1, <2>2, <1>2
  <1>8. ASSUME NEW h \in Handlers, CleanupSettles(h) PROVE Kept
    <2>1. UNCHANGED <<released, driver>> /\ calls[h].sess \in released
      BY <1>8 DEF CleanupSettles, CleanupsAreDeletions
    <2>2. appium[s] = "live"
      BY <1>1, <1>8 DEF CleanupSettles, DeleteSettles, TypeOK
    <2>3. \A k \in Handlers : k # h => calls'[k] = calls[k]
      BY <1>1, <1>8 DEF CleanupSettles, TypeOK, Callers
    <2> QED
      BY <2>1, <2>2, <2>3, <1>2
  <1>9. ASSUME NEW h \in Handlers, RequestReportsGone(h) PROVE Kept
    <2>1. UNCHANGED <<appium, released>> /\ driver' = NoSession
      BY <1>9 DEF RequestReportsGone, MarkSessionLost, Discard
    <2>2. driver # NoSession => appium[driver] = "gone"
      BY <1>9 DEF RequestReportsGone, SaysGone, RequestsAreCurrent
    <2>3. \A k \in Handlers : Connecting(calls[k]) => calls'[k] = calls[k]
      BY <1>1, <1>9 DEF RequestReportsGone, Connecting, TypeOK, Callers
    <2> QED
      BY <2>1, <2>2, <2>3, <1>2, NoSessionIsNone
  <1>10. ASSUME NEW c \in Callers, calls[c].kind \in {"arrived", "free"}, EndSession(c)
         PROVE  Kept
    <2>1. /\ UNCHANGED <<appium, driver>>
          /\ released' = released \union {driver}
      BY <1>10 DEF EndSession
    <2>2. \A k \in Handlers : Connecting(calls[k]) => calls'[k] = calls[k]
      BY <1>1, <1>10 DEF EndSession, Connecting, TypeOK, Callers
    <2> QED
      BY <2>1, <2>2, <1>2
  <1>11. ASSUME NEW c \in Callers, EndSettles(c) PROVE Kept
    <2>1. UNCHANGED released /\ driver' = NoSession
      BY <1>11 DEF EndSettles
    <2>2. driver # NoSession => driver \in released
      BY <1>11 DEF EndSettles, EndsAreCurrent
    <2>3. appium[s] = "live"
      BY <1>1, <1>11 DEF EndSettles, DeleteSettles, TypeOK
    <2>4. \A k \in Handlers : Connecting(calls[k]) => calls'[k] = calls[k]
      BY <1>1, <1>11 DEF EndSettles, Connecting, TypeOK, Callers
    <2> QED
      BY <2>1, <2>2, <2>3, <2>4, <1>2, NoSessionIsNone
  <1>12. ASSUME NEW b \in Beats, BeatSends(b) \/ BeatAnswered(b) PROVE Kept
    <2>1. UNCHANGED <<appium, released, driver>>
      BY <1>12 DEF BeatSends, BeatAnswered
    <2>2. \A k \in Handlers : Connecting(calls[k]) => calls'[k] = calls[k]
      BY <1>1, <1>12 DEF BeatSends, BeatAnswered, Connecting, TypeOK, Callers
    <2> QED
      BY <2>1, <2>2, <1>2
  <1>13. ASSUME NEW b \in Beats, BeatFails(b) PROVE Kept
    <2>1. /\ UNCHANGED appium /\ released \subseteq released'
          /\ driver' = driver \/ driver \in released'
      BY <1>13 DEF BeatFails, CountFailure
    <2>2. \A k \in Handlers : Connecting(calls[k]) => calls'[k] = calls[k]
      BY <1>1, <1>13 DEF BeatFails, Connecting, TypeOK, Callers
    <2> QED
      BY <2>1, <2>2, <1>2
  <1>14. ASSUME NEW t \in Sessions, AppiumDrops(t) PROVE Kept
    <2>1. UNCHANGED <<released, driver, calls>> /\ appium[s] = "live"
      BY <1>1, <1>14 DEF AppiumDrops, TypeOK
    <2> QED
      BY <2>1, <1>2
  <1>15. ASSUME UNCHANGED <<driver, appium, released, calls>> PROVE Kept
    BY <1>15, <1>2
  <1> HIDE DEF Kept
  <1>16. Kept
    BY <1>4, <1>5, <1>6, <1>7, <1>8, <1>9, <1>10, <1>11, <1>12, <1>13, <1>14, <1>15
    DEF Next, HandlerStep, BeatStep, RequestStep, EndBegin, BeatIdle, Callers,
        TimePasses, vars
  <1> QED
    BY <1>16 DEF Kept

-----------------------------------------------------------------------------
LEMMA SoloStep ==
  ASSUME OneAtATime, ConnectsAlone, IInv, SoloInv, [Next]_vars
  PROVE  SoloInv'
  BY EndsStep, RequestsStep, CleanupsStep, IntervalStep, LeakStep DEF SoloInv

LEMMA SoloInvariance == ASSUME SoloClient PROVE Spec => [](IInv /\ SoloInv)
  <1>1. Init => IInv /\ SoloInv
    BY InitIInv, SoloInit
  <1>2. IInv /\ SoloInv /\ [Next]_vars => SoloInv'
    BY SoloClient, SoloStep DEF SoloClient, ConnectsAlone
  <1> QED
    BY <1>1, <1>2, Invariance, PTL DEF Spec

(***************************************************************************)
(* For a solo client, no session is leaked on the Appium server.           *)
(***************************************************************************)
THEOREM SoloClientLeaksNothing ==
  ASSUME SoloClient PROVE Spec => []NoSessionLeaked
  <1>1. SoloInv => NoSessionLeaked
    BY DEF SoloInv
  <1> QED
    BY <1>1, SoloInvariance, SoloClient, PTL

(***************************************************************************)
(* For a solo client, every running heartbeat interval can be cancelled.   *)
(***************************************************************************)
THEOREM SoloClientStraysNoInterval ==
  ASSUME SoloClient PROVE Spec => []NoStrayInterval
  <1>1. SoloInv => NoStrayInterval
    BY DEF SoloInv, IntervalIsCurrent
  <1> QED
    BY <1>1, SoloInvariance, SoloClient, PTL

(***************************************************************************)
(* For a solo client, a report of a lost session drops the session it is   *)
(* about.                                                                  *)
(***************************************************************************)
THEOREM SoloClientReportsAreCurrent ==
  ASSUME SoloClient PROVE Spec => ReportDropsTheReported
  <1>1. IInv /\ SoloInv /\ [Next]_vars =>
          [\A h \in Handlers : DiscardedByReport(h) => appium[driver] = "gone"]_vars
    <2> SUFFICES ASSUME IInv, SoloInv, Next, NEW h \in Handlers, DiscardedByReport(h)
                 PROVE  appium[driver] = "gone"
      BY DEF DiscardedByReport
    <2> USE DEF Become, IsDoing, Doing, Free
    <2>1. /\ calls[h].kind = "request" /\ calls'[h].kind # "request"
          /\ driver # NoSession /\ driver' = NoSession /\ driver = calls[h].sess
      BY DEF DiscardedByReport, SoloInv, RequestsAreCurrent
    <2>2. TypeOK
      BY DEF IInv
    <2>3. ASSUME NEW c \in Callers, calls[c].kind # "request",
                 NEW call, Become(c, call)
          PROVE  FALSE
      BY <2>1, <2>2, <2>3 DEF TypeOK, Callers
    <2>4. ASSUME NEW k \in Handlers, HandlerStep(k) PROVE appium[driver] = "gone"
      <3>1. CASE RequestReportsGone(k)
        <4>1. k = h
          BY <2>1, <2>2, <3>1 DEF RequestReportsGone, TypeOK, Callers
        <4> QED
          BY <2>1, <3>1, <4>1 DEF RequestReportsGone, SaysGone
      <3>2. CASE RequestStep(k)
        BY <2>1, <3>2 DEF RequestStep, Arrive, Dismiss, RequestBegin,
                          RequestGoesOn, RequestSettles
      <3>3. CASE ~RequestReportsGone(k) /\ ~RequestStep(k)
        <4>1. calls[k].kind # "request" /\ \E call : Become(k, call)
          BY <2>4, <3>3 DEF HandlerStep, RequestStep, StartBegin, RemoteFails,
             RemoteAnswers, Configured, ConfigureFails, CleanupSettles
        <4> QED
          BY <4>1, <2>3 DEF Callers
      <3> QED
        BY <3>1, <3>2, <3>3
    <2>5. ASSUME NEW c \in Callers, EndSession(c) PROVE FALSE
      BY <2>1, <2>5 DEF EndSession
    <2>6. ASSUME NEW c \in Callers, EndSettles(c) PROVE FALSE
      BY <2>3, <2>6 DEF EndSettles
    <2>7. ASSUME NEW b \in Beats, BeatSends(b) \/ BeatAnswered(b) PROVE FALSE
      BY <2>1, <2>7 DEF BeatSends, BeatAnswered
    <2>8. ASSUME NEW b \in Beats, BeatFails(b) PROVE FALSE
      BY <2>3, <2>8 DEF BeatFails, Callers
    <2>9. ASSUME UNCHANGED driver PROVE FALSE
      BY <2>1, <2>9
    <2> QED
      BY <2>4, <2>5, <2>6, <2>7, <2>8, <2>9
      DEF Next, BeatStep, EndBegin, BeatIdle, Callers, AppiumDrops, TimePasses
  <1> QED
    BY <1>1, SoloInvariance, SoloClient, PTL DEF Spec, ReportDropsTheReported
=============================================================================
