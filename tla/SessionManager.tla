--------------------------- MODULE SessionManager ---------------------------
(***************************************************************************)
(* The daemon's session manager: at most one Appium session, opened by a   *)
(* connect, kept alive and watched by a heartbeat, and given up in four    *)
(* ways: ended on request, ended for being idle, discarded after too many  *)
(* failed heartbeats, discarded when Appium says it no longer knows it.    *)
(*                                                                         *)
(* The program is one JavaScript thread, so everything between two awaits  *)
(* is one step.  The awaits are calls to the Appium server; an activation  *)
(* (of an HTTP handler, of a heartbeat, of the daemon's shutdown) remembers *)
(* in `calls' which call it waits for and the session it was sent to.      *)
(***************************************************************************)
EXTENDS Naturals

CONSTANTS Sessions,      \* the sessions the Appium server may open
          NoSession,     \* stands for `null`
          Handlers,      \* activations of HTTP route handlers
          Beats,         \* activations of beat()
          Enders,        \* activations of the daemon's shutdown
          FailureLimit,  \* HEARTBEAT_FAILURE_LIMIT
          IdleLimit      \* idleTimeoutMs in clock ticks; 0 disables it

ASSUME NoSessionIsNone == NoSession \notin Sessions
ASSUME CallersApart == /\ Handlers \intersect Beats = {}
                       /\ Handlers \intersect Enders = {}
                       /\ Beats \intersect Enders = {}
ASSUME LimitsAreNatural == FailureLimit \in Nat \ {0} /\ IdleLimit \in Nat

Callers == Handlers \union Beats \union Enders

VARIABLES
  driver,     \* `driver` and `sessionMeta`, always assigned and cleared together
  starting,   \* `starting`
  timer,      \* `heartbeatTimer`: the session whose startHeartbeat() armed it
  intervals,  \* the intervals running in the event loop, by the same session
  failures,   \* `heartbeatFailures`
  inFlight,   \* `heartbeatInFlight`
  idle,       \* clock ticks since `lastActivityAt`, up to IdleLimit
  calls,      \* what each activation is doing, and on which session
  appium,     \* the Appium server's side of each session
  \* History variables: the code has none of them, no guard reads them.
  badBeats,   \* beats on the session that failed since its last good one
  released    \* sessions whose deletion was tried, or which were found dead

vars == <<driver, starting, timer, intervals, failures, inFlight, idle,
          calls, appium, badBeats, released>>

Kinds == {"free", "arrived", "create", "configure", "cleanup", "end",
          "beat", "request"}
MaybeSession == Sessions \union {NoSession}
Doing(kind, s) == [kind |-> kind, sess |-> s]
Free == Doing("free", NoSession)
IsDoing(c, kind) == calls[c].kind = kind
Become(c, call) == calls' = [calls EXCEPT ![c] = call]

TypeOK ==
  /\ driver \in MaybeSession
  /\ starting \in BOOLEAN
  /\ timer \in MaybeSession
  /\ intervals \in SUBSET Sessions
  /\ failures \in 0..FailureLimit
  /\ inFlight \in BOOLEAN
  /\ idle \in 0..IdleLimit
  /\ calls \in [Callers -> [kind : Kinds, sess : MaybeSession]]
  /\ appium \in [Sessions -> {"none", "live", "gone"}]
  /\ badBeats \in [Sessions -> 0..FailureLimit]
  /\ released \in SUBSET Sessions

Init ==
  /\ driver = NoSession
  /\ starting = FALSE
  /\ timer = NoSession
  /\ intervals = {}
  /\ failures = 0
  /\ inFlight = FALSE
  /\ idle = 0
  /\ calls = [c \in Callers |-> Free]
  /\ appium = [s \in Sessions |-> "none"]
  /\ badBeats = [s \in Sessions |-> 0]
  /\ released = {}

-----------------------------------------------------------------------------
(* An HTTP request enters through the onRequest hook, which touches the    *)
(* idle clock before the route's handler runs.                             *)

Touch == idle' = 0

Arrive(h) ==
  /\ calls[h] = Free
  /\ Touch
  /\ Become(h, Doing("arrived", NoSession))
  /\ UNCHANGED <<driver, starting, timer, intervals, failures, inFlight,
                 appium, badBeats, released>>

\* The route needs no session, its body is invalid, or its guard refuses it
\* (SESSION_ALREADY_ACTIVE, SESSION_NOT_ACTIVE): it changes nothing.
Dismiss(h) ==
  /\ IsDoing(h, "arrived")
  /\ Become(h, Free)
  /\ UNCHANGED <<driver, starting, timer, intervals, failures, inFlight, idle,
                 appium, badBeats, released>>

-----------------------------------------------------------------------------
(* The heartbeat timer.                                                    *)

StartHeartbeat_Forgotten(s) == UNCHANGED <<failures, timer, intervals>>
StartHeartbeat_CountKept(s) == /\ UNCHANGED failures
                               /\ timer' = s
                               /\ intervals' = intervals \union {s}

StartHeartbeat(s) ==
  /\ failures' = 0
  /\ timer' = s
  /\ intervals' = intervals \union {s}

StopHeartbeat_HandleOnly == /\ failures' = 0
                            /\ timer' = NoSession
                            /\ UNCHANGED intervals

StopHeartbeat ==
  /\ failures' = 0
  /\ timer' = NoSession
  /\ intervals' = intervals \ {timer}

\* discard(): drops the session without talking to the device.
Discard == /\ StopHeartbeat
           /\ driver' = NoSession

-----------------------------------------------------------------------------
(* startSession(): remote(), then setTimeout(), then the assignment.       *)

MayStart_DriverOnly == driver = NoSession
MayStart_StartingOnly == ~starting
MayStart == driver = NoSession /\ ~starting

StartBegin(h) ==
  /\ IsDoing(h, "arrived")
  /\ MayStart
  /\ starting' = TRUE
  /\ Become(h, Doing("create", NoSession))
  /\ UNCHANGED <<driver, timer, intervals, failures, inFlight, idle, appium,
                 badBeats, released>>

RemoteAnswers(h, s) ==
  /\ IsDoing(h, "create")
  /\ appium[s] = "none"
  /\ appium' = [appium EXCEPT ![s] = "live"]
  /\ Become(h, Doing("configure", s))
  /\ UNCHANGED <<driver, starting, timer, intervals, failures, inFlight, idle,
                 badBeats, released>>

RemoteFails(h) ==
  /\ IsDoing(h, "create")
  /\ starting' = FALSE
  /\ Become(h, Free)
  /\ UNCHANGED <<driver, timer, intervals, failures, inFlight, idle, appium,
                 badBeats, released>>

Configured(h) ==
  LET s == calls[h].sess IN
  /\ IsDoing(h, "configure")
  /\ appium[s] = "live"
  /\ driver' = s
  /\ Touch
  /\ StartHeartbeat(s)
  /\ starting' = FALSE
  /\ Become(h, Free)
  /\ UNCHANGED <<inFlight, appium, badBeats, released>>

ConfigureFails_NoCleanup(h) ==
  /\ IsDoing(h, "configure")
  /\ Become(h, Free)
  /\ starting' = FALSE
  /\ UNCHANGED <<driver, timer, intervals, failures, inFlight, idle,
                 appium, badBeats, released>>

\* The session exists, so it is deleted before the error is reported.
ConfigureFails(h) ==
  /\ IsDoing(h, "configure")
  /\ Become(h, Doing("cleanup", calls[h].sess))
  /\ released' = released \union {calls[h].sess}
  /\ UNCHANGED <<driver, starting, timer, intervals, failures, inFlight, idle,
                 appium, badBeats>>

\* deleteSession() on s was answered, or failed and the error was swallowed.
DeleteSettles(s) == \/ appium' = [appium EXCEPT ![s] = "gone"]
                    \/ UNCHANGED appium

CleanupSettles(h) ==
  /\ IsDoing(h, "cleanup")
  /\ DeleteSettles(calls[h].sess)
  /\ starting' = FALSE
  /\ Become(h, Free)
  /\ UNCHANGED <<driver, timer, intervals, failures, inFlight, idle, badBeats,
                 released>>

-----------------------------------------------------------------------------
(* endSession(): called by DELETE /session, by the daemon's shutdown and   *)
(* by an idle heartbeat.                                                   *)

EndSession(c) ==
  /\ driver # NoSession
  /\ StopHeartbeat
  /\ Become(c, Doing("end", driver))
  /\ released' = released \union {driver}
  /\ UNCHANGED <<driver, starting, inFlight, idle, appium, badBeats>>

EndBegin(c) ==
  /\ \/ c \in Handlers /\ IsDoing(c, "arrived")
     \/ c \in Enders /\ IsDoing(c, "free")
  /\ EndSession(c)

EndSettles_OnlyWhenDeleted(c) ==
  /\ IsDoing(c, "end")
  /\ DeleteSettles(calls[c].sess)
  /\ driver' = IF appium' = appium THEN driver ELSE NoSession
  /\ Become(c, Free)
  /\ UNCHANGED <<starting, timer, intervals, failures, inFlight, idle,
                 badBeats, released>>

\* The finally block: it clears whatever driver is there by now.
EndSettles(c) ==
  /\ IsDoing(c, "end")
  /\ DeleteSettles(calls[c].sess)
  /\ driver' = NoSession
  /\ Become(c, Free)
  /\ UNCHANGED <<starting, timer, intervals, failures, inFlight, idle,
                 badBeats, released>>

-----------------------------------------------------------------------------
(* Every other route: getDriver(), then WebDriver calls on that driver.    *)

RequestBegin(h) ==
  /\ IsDoing(h, "arrived")
  /\ driver # NoSession
  /\ Become(h, Doing("request", driver))
  /\ UNCHANGED <<driver, starting, timer, intervals, failures, inFlight, idle,
                 appium, badBeats, released>>

\* A handler that makes several calls may ask for the driver again between
\* them (switchContext, the match count of a find, a scroll's poll loop).
RequestGoesOn(h) ==
  /\ IsDoing(h, "request")
  /\ driver # NoSession
  /\ Become(h, Doing("request", driver))
  /\ UNCHANGED <<driver, starting, timer, intervals, failures, inFlight, idle,
                 appium, badBeats, released>>

\* A reply, or an error other than `invalid session id`, or that error
\* swallowed by a lookup that reports ELEMENT_NOT_FOUND or the like instead.
RequestSettles(h) ==
  /\ IsDoing(h, "request")
  /\ Become(h, Free)
  /\ UNCHANGED <<driver, starting, timer, intervals, failures, inFlight, idle,
                 appium, badBeats, released>>

\* `invalid session id` reaches the error handler: markSessionLost().
MarkSessionLost ==
  IF driver = NoSession
    THEN UNCHANGED <<driver, timer, intervals, failures>>
    ELSE Discard

SaysGone_AnyError(h) == TRUE
SaysGone(h) == appium[calls[h].sess] = "gone"

RequestReportsGone(h) ==
  /\ IsDoing(h, "request")
  /\ SaysGone(h)
  /\ MarkSessionLost
  /\ Become(h, Free)
  /\ UNCHANGED <<starting, inFlight, idle, appium, badBeats, released>>

-----------------------------------------------------------------------------
(* beat(), fired by any running interval.  With no driver, or with another *)
(* beat in flight, it returns at once: such a beat is a stuttering step.   *)

IsIdle == IdleLimit > 0 /\ idle >= IdleLimit
MayBeat_Always == TRUE
MayBeat == ~inFlight

BeatIdle(b) ==
  /\ IsDoing(b, "free")
  /\ intervals # {}
  /\ MayBeat
  /\ IsIdle
  /\ EndSession(b)

BeatSends(b) ==
  /\ IsDoing(b, "free")
  /\ intervals # {}
  /\ driver # NoSession
  /\ MayBeat
  /\ ~IsIdle
  /\ inFlight' = TRUE
  /\ Become(b, Doing("beat", driver))
  /\ UNCHANGED <<driver, starting, timer, intervals, failures, idle, appium,
                 badBeats, released>>

StillCurrent_Unchecked(b) == driver # NoSession
\* `this.driver === driver`, tested when the reply arrives.
StillCurrent(b) == driver = calls[b].sess

\* The finally block of a beat, also on the way out of a replaced session.
BeatDone_IfCurrent(b) == inFlight' = (inFlight /\ ~StillCurrent(b))
BeatDone(b) == inFlight' = FALSE

BeatAnswered(b) ==
  LET s == calls[b].sess IN
  /\ IsDoing(b, "beat")
  /\ appium[s] = "live"
  /\ BeatDone(b)
  /\ failures' = IF StillCurrent(b) THEN 0 ELSE failures
  /\ badBeats' = [badBeats EXCEPT ![s] = 0]
  /\ Become(b, Free)
  /\ UNCHANGED <<driver, starting, timer, intervals, idle, appium, released>>

CountFailure_Only == /\ failures' = failures + 1
                     /\ UNCHANGED <<driver, timer, intervals, released>>

CountFailure ==
  IF failures + 1 >= FailureLimit
    THEN Discard /\ released' = released \union {driver}
    ELSE /\ failures' = failures + 1
         /\ UNCHANGED <<driver, timer, intervals, released>>

BeatFails(b) ==
  LET s == calls[b].sess IN
  /\ IsDoing(b, "beat")
  /\ BeatDone(b)
  /\ badBeats' = [badBeats EXCEPT ![s] = IF @ < FailureLimit THEN @ + 1 ELSE @]
  /\ IF StillCurrent(b)
       THEN CountFailure
       ELSE UNCHANGED <<driver, timer, intervals, failures, released>>
  /\ Become(b, Free)
  /\ UNCHANGED <<starting, idle, appium>>

-----------------------------------------------------------------------------
(* The surroundings: the Appium server may lose a live session at any time *)
(* (its newCommandTimeout, a crash, another client), and the clock moves.  *)

AppiumDrops(s) ==
  /\ appium[s] = "live"
  /\ appium' = [appium EXCEPT ![s] = "gone"]
  /\ UNCHANGED <<driver, starting, timer, intervals, failures, inFlight, idle,
                 calls, badBeats, released>>

TimePasses ==
  /\ idle < IdleLimit
  /\ idle' = idle + 1
  /\ UNCHANGED <<driver, starting, timer, intervals, failures, inFlight,
                 calls, appium, badBeats, released>>

-----------------------------------------------------------------------------
HandlerStep(h) ==
  \/ Arrive(h) \/ Dismiss(h)
  \/ StartBegin(h) \/ RemoteFails(h) \/ \E s \in Sessions : RemoteAnswers(h, s)
  \/ Configured(h) \/ ConfigureFails(h) \/ CleanupSettles(h)
  \/ RequestBegin(h) \/ RequestGoesOn(h)
  \/ RequestSettles(h) \/ RequestReportsGone(h)

BeatStep(b) == BeatIdle(b) \/ BeatSends(b) \/ BeatAnswered(b) \/ BeatFails(b)

Next ==
  \/ \E h \in Handlers : HandlerStep(h)
  \/ \E c \in Handlers \union Enders : EndBegin(c)
  \/ \E c \in Callers : EndSettles(c)
  \/ \E b \in Beats : BeatStep(b)
  \/ \E s \in Sessions : AppiumDrops(s)
  \/ TimePasses

Spec == Init /\ [][Next]_vars

(***************************************************************************)
(* webdriverio gives every call a timeout of its own, so a call to Appium  *)
(* settles one way or the other; an armed interval keeps firing and the    *)
(* clock keeps moving.  Nothing is assumed of clients (Arrive and what a   *)
(* handler then does) nor of what the Appium server does with a session.   *)
(***************************************************************************)
Fairness ==
  /\ \A h \in Handlers :
       /\ WF_vars(RemoteFails(h) \/ \E s \in Sessions : RemoteAnswers(h, s))
       /\ WF_vars(Configured(h) \/ ConfigureFails(h))
       /\ WF_vars(CleanupSettles(h))
       /\ WF_vars(RequestSettles(h) \/ RequestReportsGone(h))
  /\ \A c \in Callers : WF_vars(EndSettles(c))
  /\ \A b \in Beats : WF_vars(BeatAnswered(b) \/ BeatFails(b))
  /\ WF_vars(\E b \in Beats : BeatIdle(b) \/ BeatSends(b))
  /\ WF_vars(TimePasses)

FairSpec == Spec /\ Fairness

-----------------------------------------------------------------------------
(* Properties.                                                             *)

StartCalls == {"create", "configure", "cleanup"}
Starter(h) == calls[h].kind \in StartCalls

(***************************************************************************)
(* startSession's guards: while a connect is under way there is no session *)
(* and no second connect, from before Appium is asked until the result is  *)
(* stored or the failed session has been cleaned up; and `starting' is     *)
(* never left set by a path that failed.                                   *)
(***************************************************************************)
OneStartAtATime ==
  /\ starting <=> \E h \in Handlers : Starter(h)
  /\ starting => driver = NoSession
  /\ \A h, k \in Handlers : Starter(h) /\ Starter(k) => h = k

(***************************************************************************)
(* A stored session is always watched: the interval its own connect armed  *)
(* is running and cancellable through heartbeatTimer, unless an            *)
(* endSession() of that very session, which will clear it, is in flight.   *)
(***************************************************************************)
SessionIsWatched ==
  driver # NoSession =>
    \/ timer = driver /\ driver \in intervals
    \/ \E c \in Callers : calls[c] = Doing("end", driver)

(***************************************************************************)
(* heartbeatInFlight: beats never stack behind a long command, and the     *)
(* flag is up exactly while a beat waits, so that a beat that found its    *)
(* session replaced does not silence the heartbeat for good.               *)
(***************************************************************************)
BeatsNeverStack ==
  /\ inFlight <=> \E b \in Beats : IsDoing(b, "beat")
  /\ \A b, d \in Beats : IsDoing(b, "beat") /\ IsDoing(d, "beat") => b = d

(***************************************************************************)
(* The failures charged to the stored session are failures of beats on     *)
(* that session: none is inherited from an earlier one, whose beat may     *)
(* fail long after it was replaced.                                        *)
(***************************************************************************)
FailuresAreItsOwn ==
  driver # NoSession => /\ failures < FailureLimit
                        /\ failures <= badBeats[driver]

(***************************************************************************)
(* A heartbeat discards a session only when FailureLimit beats in a row    *)
(* failed on that very session; a late failure of a replaced session's     *)
(* beat never costs the new session anything.                              *)
(***************************************************************************)
DiscardedByBeat(b) == /\ IsDoing(b, "beat") /\ ~IsDoing(b, "beat")'
                      /\ driver # NoSession /\ driver' = NoSession
HeartbeatDiscardsTheUnresponsive ==
  [][\A b \in Beats : DiscardedByBeat(b) =>
        calls[b].sess = driver /\ badBeats'[driver] = FailureLimit]_vars

(***************************************************************************)
(* The manager is a single lease on one session at a time (OneSession),    *)
(* whatever the overlap of connects, ends, losses and beats.               *)
(***************************************************************************)
Connecting(call) == call.kind \in {"configure", "cleanup"}
\* The session of the connect under way, given what every activation does.
SessionOfConnect(doing) ==
  IF \E h \in Handlers : Connecting(doing[h])
    THEN doing[CHOOSE h \in Handlers : Connecting(doing[h])].sess
    ELSE NoSession

stageBar == IF driver # NoSession THEN "held"
            ELSE IF starting THEN "connecting" ELSE "free"
sessionBar == IF driver # NoSession THEN driver ELSE SessionOfConnect(calls)
usedBar == {s \in Sessions : appium[s] # "none"}

Lease == INSTANCE OneSession
           WITH stage <- stageBar, session <- sessionBar, used <- usedBar
HoldsOneSession == Lease!Spec

(***************************************************************************)
(* Nothing is leaked on the Appium server (the concern of the comment in   *)
(* startSession): a session still live there is the stored one, or is      *)
(* being set up, or its deletion was at least tried, or its heartbeats     *)
(* gave it up for dead.                                                    *)
(***************************************************************************)
NoSessionLeaked ==
  \A s \in Sessions : appium[s] = "live" =>
    \/ s = driver
    \/ s \in released
    \/ \E h \in Handlers : Connecting(calls[h]) /\ calls[h].sess = s

(***************************************************************************)
(* No heartbeat interval outlives its handle: stopHeartbeat() can always   *)
(* reach every interval that runs.                                         *)
(***************************************************************************)
NoStrayInterval == intervals \subseteq {timer}

(***************************************************************************)
(* markSessionLost is "called when the Appium server reports that it no    *)
(* longer knows the session": the session dropped is the one reported.     *)
(***************************************************************************)
DiscardedByReport(h) == /\ IsDoing(h, "request") /\ ~IsDoing(h, "request")'
                        /\ driver # NoSession /\ driver' = NoSession
ReportDropsTheReported ==
  [][\A h \in Handlers : DiscardedByReport(h) => appium[driver] = "gone"]_vars

(***************************************************************************)
(* A session the Appium server lost does not stay stored for ever: if no   *)
(* request notices, the heartbeat does.                                    *)
(***************************************************************************)
DeadSessionIsDropped ==
  \A s \in Sessions : (driver = s /\ appium[s] = "gone") ~> (driver # s)

(***************************************************************************)
(* With an idle timeout, a client that went away does not hold the device: *)
(* an idle session is ended unless a request comes first, also when the    *)
(* beat that should notice is stuck behind a call to an earlier session.   *)
(***************************************************************************)
IdleSessionIsEnded ==
  (driver # NoSession /\ idle >= IdleLimit) ~>
  (driver = NoSession \/ idle < IdleLimit)
=============================================================================
