---------------------------- MODULE ImplicitWait ----------------------------
(***************************************************************************)
(* withoutImplicitWait(): requests that poll for an element (the wait and  *)
(* scroll handlers) lower the session's implicit wait to zero and restore  *)
(* it afterwards.  Overlapping requests on a session share one override.   *)
(* Of the session manager only what OneSession promises is used: a session *)
(* is held, is lost, and never comes back.                                 *)
(***************************************************************************)
EXTENDS Naturals, Sequences, FiniteSets

CONSTANTS Pollers,    \* activations of the two handlers
          Sessions, NoSession,
          MaxSwipes   \* a scroll's `maxSwipes'

ASSUME PollersAreFinite == IsFiniteSet(Pollers)
ASSUME NoSessionIsNone == NoSession \notin Sessions
ASSUME MaxSwipesIsNatural == MaxSwipes \in Nat

VARIABLES
  driver, opened,  \* this.driver, and the sessions opened so far
  overrides,       \* implicitWaitOverrides: for each session a count
  job,             \* what each handler is doing
  implicit,        \* each session's implicit wait, on the Appium server
  queue,           \* commands the server has not yet executed
  \* History variables: the last command that was to lower, or to restore, the
  \* wait has failed.
  notLowered, notRestored

daemonSide == <<driver, opened, overrides, job>>
appiumSide == <<implicit, queue, notLowered, notRestored>>
waitVars == <<daemonSide, appiumSide>>

\* `on' is the driver withoutImplicitWait() took; `eye' the one a scroll took
\* before it; `reply' tells that the command sent was answered.
Job(at, on, eye, swipes) ==
  [at |-> at, on |-> on, eye |-> eye, swipes |-> swipes, reply |-> "none"]
Idle == Job("idle", NoSession, NoSession, 0)

\* A wait polls; a scroll looks and swipes in turn.
Overriding == {"lowering", "polling", "looking", "swiping"}
Awaiting == Overriding \union {"sizing", "dragging", "restoring"}
Commands == {"size", "lower", "restore", "look", "swipe"}
MaybeSession == Sessions \union {NoSession}

WaitTypeOK ==
  /\ driver \in MaybeSession
  /\ opened \in SUBSET Sessions
  /\ overrides \in [Sessions -> Nat]
  /\ job \in [Pollers -> [at : Awaiting \union {"idle"}, on : MaybeSession,
                          eye : MaybeSession, swipes : 0..MaxSwipes,
                          reply : {"none", "ok", "failed"}]]
  /\ implicit \in [Sessions -> {"default", "zero"}]
  /\ queue \in [Sessions -> Seq([who : Pollers, what : Commands])]
  /\ notLowered \in SUBSET Sessions
  /\ notRestored \in SUBSET Sessions

WaitInit ==
  /\ driver = NoSession
  /\ opened = {}
  /\ overrides = [s \in Sessions |-> 0]
  /\ job = [h \in Pollers |-> Idle]
  /\ implicit = [s \in Sessions |-> "default"]
  /\ queue = [s \in Sessions |-> <<>>]
  /\ notLowered = {}
  /\ notRestored = {}

-----------------------------------------------------------------------------
(* The session manager, as OneSession has it; a connect sets the implicit  *)
(* wait to its default before it stores the session.                       *)

Connects(s) ==
  /\ driver = NoSession
  /\ s \notin opened
  /\ driver' = s
  /\ opened' = opened \union {s}
  /\ UNCHANGED <<overrides, job, appiumSide>>

LosesSession ==
  /\ driver # NoSession
  /\ driver' = NoSession
  /\ UNCHANGED <<opened, overrides, job, appiumSide>>

-----------------------------------------------------------------------------
(* The Appium server executes a session's commands one by one, in the      *)
(* order they were sent.                                                   *)

Sends(h, s, what) ==
  queue' = [queue EXCEPT ![s] = Append(@, [who |-> h, what |-> what])]

Answers(h, reply) == job' = [job EXCEPT ![h].reply = reply]

Takes(s) == queue[s] # <<>> /\ queue' = [queue EXCEPT ![s] = Tail(@)]
Command(s) == Head(queue[s])

Effect(s) ==
  implicit' = [implicit EXCEPT ![s] = CASE Command(s).what = "lower" -> "zero"
                                        [] Command(s).what = "restore" -> "default"
                                        [] OTHER -> @]

Executes(s) ==
  /\ Takes(s)
  /\ Effect(s)
  /\ Answers(Command(s).who, "ok")
  /\ notLowered' = notLowered \ {t \in {s} : Command(s).what = "lower"}
  /\ notRestored' = notRestored \ {t \in {s} : Command(s).what = "restore"}
  /\ UNCHANGED <<driver, opened, overrides>>

\* A command that fails may have had its effect all the same.
Refuses(s) ==
  /\ Takes(s)
  /\ Effect(s) \/ UNCHANGED implicit
  /\ Answers(Command(s).who, "failed")
  /\ notLowered' = notLowered \union {t \in {s} : Command(s).what = "lower"}
  /\ notRestored' = notRestored \union {t \in {s} : Command(s).what = "restore"}
  /\ UNCHANGED <<driver, opened, overrides>>

-----------------------------------------------------------------------------
(* withoutImplicitWait(fn).                                                *)

\* A job goes on in the daemon only when its last command was answered.
Stands(h, at) == job[h].at = at /\ job[h].reply # "none"
Became(h, at, on, eye, swipes) == job' = [job EXCEPT ![h] = Job(at, on, eye, swipes)]

\* What fn does first.
Looks(at, on, eye, swipes, h) ==
  Became(h, at, on, eye, swipes) /\ Sends(h, eye, "look")

\* A wait has no driver but the one it is given.
StartsPolling(h, on, eye) ==
  IF eye = NoSession THEN Looks("polling", on, on, 0, h) ELSE Looks("looking", on, eye, 0, h)

ComesFirst_Anywhere(s) == \A t \in Sessions : overrides[t] = 0
ComesFirst(s) == overrides[s] = 0

\* The first request on a session lowers its wait, a later one polls at once.
Enters(h, eye) ==
  /\ driver # NoSession
  /\ overrides' = [overrides EXCEPT ![driver] = @ + 1]
  /\ \/ /\ ComesFirst(driver)
        /\ Became(h, "lowering", driver, eye, 0)
        /\ Sends(h, driver, "lower")
     \/ /\ ~ComesFirst(driver)
        /\ StartsPolling(h, driver, eye)
  /\ UNCHANGED <<driver, opened, implicit, notLowered, notRestored>>

LastOne_Always(s) == TRUE
LastOne_MissedByOne(s) == overrides[s] = 0
LastOne(s) == overrides[s] = 1

\* The finally block: the last to leave a session that is still the current
\* one restores its wait.
Leaves(h) ==
  LET s == job[h].on
      restores == LastOne(s) /\ driver = s IN
  /\ overrides' = [overrides EXCEPT ![s] = @ - 1]
  /\ \/ restores /\ Became(h, "restoring", s, s, 0) /\ Sends(h, s, "restore")
     \/ ~restores /\ job' = [job EXCEPT ![h] = Idle] /\ UNCHANGED queue
  /\ UNCHANGED <<driver, opened, implicit, notLowered, notRestored>>

Lowered(h) ==
  /\ Stands(h, "lowering")
  /\ job[h].reply = "ok"
  /\ StartsPolling(h, job[h].on, job[h].eye)
  /\ UNCHANGED <<driver, opened, overrides, implicit, notLowered, notRestored>>

NotLowered_Uncounted(h) ==
  /\ Stands(h, "lowering")
  /\ job[h].reply = "failed"
  /\ job' = [job EXCEPT ![h] = Idle]
  /\ UNCHANGED <<driver, opened, overrides, appiumSide>>
\* The override could not be set: fn is not run.
NotLowered(h) ==
  /\ Stands(h, "lowering")
  /\ job[h].reply = "failed"
  /\ Leaves(h)

\* Whether or not the wait could be restored, the request is over.
Restored(h) ==
  /\ Stands(h, "restoring")
  /\ job' = [job EXCEPT ![h] = Idle]
  /\ UNCHANGED <<driver, opened, overrides, appiumSide>>

-----------------------------------------------------------------------------
(* POST /elements/wait: polls until the condition holds or the time is up. *)

WaitBegins(h) ==
  /\ job[h] = Idle
  /\ Enters(h, NoSession)

PollsAgain(h) ==
  /\ Stands(h, "polling")
  /\ Looks("polling", job[h].on, job[h].eye, 0, h)
  /\ UNCHANGED <<driver, opened, overrides, implicit, notLowered, notRestored>>

PollingEnds(h) ==
  /\ Stands(h, "polling")
  /\ Leaves(h)

-----------------------------------------------------------------------------
(* POST /actions/scroll, which swipes once or until its target is in view. *)

ScrollBegins(h) ==
  /\ job[h] = Idle
  /\ driver # NoSession
  /\ Became(h, "sizing", NoSession, driver, 0)
  /\ Sends(h, driver, "size")
  /\ UNCHANGED <<driver, opened, overrides, implicit, notLowered, notRestored>>

ScrollSized(h) ==
  /\ Stands(h, "sizing")
  /\ job[h].reply = "ok"
  /\ Enters(h, job[h].eye)

ScrollsOnce(h) ==
  /\ Stands(h, "sizing")
  /\ job[h].reply = "ok"
  /\ Became(h, "dragging", NoSession, job[h].eye, 0)
  /\ Sends(h, job[h].eye, "swipe")
  /\ UNCHANGED <<driver, opened, overrides, implicit, notLowered, notRestored>>

\* Swiped once; or the window's size is not known, or no session is left.
ScrollOver(h) ==
  /\ \/ Stands(h, "dragging")
     \/ Stands(h, "sizing") /\ (job[h].reply = "failed" \/ driver = NoSession)
  /\ job' = [job EXCEPT ![h] = Idle]
  /\ UNCHANGED <<driver, opened, overrides, appiumSide>>

MaySwipe_OnceMore(h) == job[h].swipes <= MaxSwipes
MaySwipe(h) == job[h].swipes < MaxSwipes

\* Not in view yet.
Swipes(h) ==
  /\ Stands(h, "looking")
  /\ job[h].reply = "ok"
  /\ MaySwipe(h)
  /\ Became(h, "swiping", job[h].on, job[h].eye, job[h].swipes + 1)
  /\ Sends(h, job[h].eye, "swipe")
  /\ UNCHANGED <<driver, opened, overrides, implicit, notLowered, notRestored>>

Swiped(h) ==
  /\ Stands(h, "swiping")
  /\ job[h].reply = "ok"
  /\ Looks("looking", job[h].on, job[h].eye, job[h].swipes, h)
  /\ UNCHANGED <<driver, opened, overrides, implicit, notLowered, notRestored>>

\* In view, out of swipes, or a command failed.
ScrollingEnds(h) ==
  /\ Stands(h, "looking") \/ (Stands(h, "swiping") /\ job[h].reply = "failed")
  /\ Leaves(h)

-----------------------------------------------------------------------------
PollerStep(h) ==
  \/ Lowered(h) \/ NotLowered(h) \/ Restored(h)
  \/ PollsAgain(h) \/ PollingEnds(h)
  \/ ScrollSized(h) \/ ScrollsOnce(h) \/ ScrollOver(h)
  \/ Swipes(h) \/ Swiped(h) \/ ScrollingEnds(h)

WaitNext ==
  \/ LosesSession
  \/ \E s \in Sessions : Connects(s) \/ Executes(s) \/ Refuses(s)
  \/ \E h \in Pollers : WaitBegins(h) \/ ScrollBegins(h) \/ PollerStep(h)

WaitSpec == WaitInit /\ [][WaitNext]_waitVars

-----------------------------------------------------------------------------
(* Properties.                                                             *)

Within(s) == {h \in Pollers : job[h].at \in Overriding /\ job[h].on = s}

(***************************************************************************)
(* The count of overrides of a session is the number of requests inside,   *)
(* whichever of them failed, and whatever became of the session.           *)
(***************************************************************************)
CountIsTheNumberWithin == \A s \in Sessions : overrides[s] = Cardinality(Within(s))

(***************************************************************************)
(* "Polling code must see an absent element at once": no look is executed  *)
(* under the implicit wait, also not that of a second request which was    *)
(* sent before the first had lowered the wait, unless lowering it failed.  *)
(***************************************************************************)
PollsSeeAbsenceAtOnce ==
  \A s \in Sessions :
    queue[s] # <<>> /\ Head(queue[s]).what = "look" =>
      implicit[s] = "zero" \/ s \in notLowered \/ s # driver

(***************************************************************************)
(* "Restored when the last finishes": once nobody is inside and nothing is *)
(* under way, the session has its implicit wait back, unless the command   *)
(* that was to restore it failed.                                          *)
(***************************************************************************)
WaitIsRestored ==
  driver # NoSession /\ Within(driver) = {} /\ queue[driver] = <<>> =>
    implicit[driver] = "default" \/ driver \in notRestored
=============================================================================
