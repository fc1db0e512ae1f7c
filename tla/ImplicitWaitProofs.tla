------------------------- MODULE ImplicitWaitProofs -------------------------
(***************************************************************************)
(* For any number of requests and sessions, the count of overrides of each *)
(* session is the number of requests inside, so it never falls below zero; *)
(* a look is executed without the wait; and the last one out restores it.  *)
(***************************************************************************)
EXTENDS ImplicitWait, FiniteSetTheorems, SequenceTheorems, TLAPS

\* The type, the count, and that who is inside is inside some session.
Placed == \A h \in Pollers : job[h].at \in Overriding => job[h].on \in Sessions
WInv == WaitTypeOK /\ CountIsTheNumberWithin /\ Placed

Jobs == [at : Awaiting \union {"idle"}, on : MaybeSession, eye : MaybeSession,
         swipes : 0..MaxSwipes, reply : {"none", "ok", "failed"}]

\* All but the job of h stay as they are.
OnlyJob(h, new) == /\ new \in Jobs
                   /\ job' = [job EXCEPT ![h] = new]

LEMMA JobIsTyped ==
  ASSUME NEW at \in Awaiting \union {"idle"}, NEW on \in MaybeSession,
         NEW eye \in MaybeSession, NEW swipes \in 0..MaxSwipes
  PROVE  Job(at, on, eye, swipes) \in Jobs
BY DEF Job, Jobs

LEMMA WithinIsFinite ==
  ASSUME NEW s \in Sessions
  PROVE  IsFiniteSet(Within(s)) /\ Cardinality(Within(s)) \in Nat
<1>1. Within(s) \subseteq Pollers
  BY DEF Within
<1> QED BY <1>1, PollersAreFinite, FS_Subset, FS_CardinalityType

\* A command sent keeps the queues queues.
LEMMA SendIsTyped ==
  ASSUME WaitTypeOK, NEW h \in Pollers, NEW s \in MaybeSession, NEW what \in Commands,
         Sends(h, s, what)
  PROVE  queue' \in [Sessions -> Seq([who : Pollers, what : Commands])]
<1> DEFINE C == [who : Pollers, what : Commands]
           c == [who |-> h, what |-> what]
<1>1. c \in C
  OBVIOUS
<1>2. queue \in [Sessions -> Seq(C)] /\ queue' = [queue EXCEPT ![s] = Append(@, c)]
  BY DEF Sends, WaitTypeOK
<1> HIDE DEF C, c
<1>3. ASSUME s \in Sessions PROVE Append(queue[s], c) \in Seq(C)
  BY <1>1, <1>2, <1>3
<1>4. queue' \in [Sessions -> Seq(C)]
  BY <1>2, <1>3
<1> QED BY <1>4 DEF C

-----------------------------------------------------------------------------
(* The three ways a step can move a request.                               *)

LEMMA Stays ==
  ASSUME WInv, NEW h \in Pollers, NEW new \in Jobs, OnlyJob(h, new),
         UNCHANGED overrides,
         new.at \in Overriding <=> job[h].at \in Overriding,
         new.at \in Overriding => new.on = job[h].on
  PROVE  CountIsTheNumberWithin' /\ Placed' /\ job' \in [Pollers -> Jobs]
<1>1. job \in [Pollers -> Jobs]
  BY DEF WInv, WaitTypeOK, Jobs
<1>2. job' \in [Pollers -> Jobs]
  BY <1>1 DEF OnlyJob
<1>3. \A s \in Sessions : Within(s)' = Within(s)
  BY <1>1 DEF OnlyJob, Within
<1>4. CountIsTheNumberWithin'
  BY <1>3 DEF WInv, CountIsTheNumberWithin
<1>5. Placed'
  BY <1>1 DEF WInv, Placed, OnlyJob
<1> QED BY <1>2, <1>4, <1>5

LEMMA Joins ==
  ASSUME WInv, NEW h \in Pollers, NEW new \in Jobs, OnlyJob(h, new),
         NEW s \in Sessions, overrides' = [overrides EXCEPT ![s] = @ + 1],
         job[h].at \notin Overriding, new.at \in Overriding, new.on = s
  PROVE  /\ CountIsTheNumberWithin' /\ Placed' /\ job' \in [Pollers -> Jobs]
         /\ overrides' \in [Sessions -> Nat]
<1>1. job \in [Pollers -> Jobs] /\ overrides \in [Sessions -> Nat]
  BY DEF WInv, WaitTypeOK, Jobs
<1>2. job' \in [Pollers -> Jobs]
  BY <1>1 DEF OnlyJob
<1>3. overrides' \in [Sessions -> Nat]
  BY <1>1
<1>4. h \notin Within(s) /\ Within(s)' = Within(s) \union {h}
  BY <1>1 DEF OnlyJob, Within
<1>5. \A t \in Sessions \ {s} : Within(t)' = Within(t)
  BY <1>1 DEF OnlyJob, Within
<1>6. Cardinality(Within(s)') = Cardinality(Within(s)) + 1
  BY <1>4, WithinIsFinite, FS_AddElement
<1>7. CountIsTheNumberWithin'
  BY <1>1, <1>5, <1>6 DEF WInv, CountIsTheNumberWithin
<1>8. Placed'
  BY <1>1 DEF WInv, Placed, OnlyJob
<1> QED BY <1>2, <1>3, <1>7, <1>8

LEMMA Parts ==
  ASSUME WInv, NEW h \in Pollers, NEW new \in Jobs, OnlyJob(h, new),
         NEW s \in Sessions, overrides' = [overrides EXCEPT ![s] = @ - 1],
         job[h].at \in Overriding, job[h].on = s, new.at \notin Overriding
  PROVE  /\ CountIsTheNumberWithin' /\ Placed' /\ job' \in [Pollers -> Jobs]
         /\ overrides' \in [Sessions -> Nat]
<1>1. job \in [Pollers -> Jobs] /\ overrides \in [Sessions -> Nat]
  BY DEF WInv, WaitTypeOK, Jobs
<1>2. job' \in [Pollers -> Jobs]
  BY <1>1 DEF OnlyJob
<1>3. h \in Within(s) /\ Within(s)' = Within(s) \ {h}
  BY <1>1 DEF OnlyJob, Within
<1>4. \A t \in Sessions \ {s} : Within(t)' = Within(t)
  BY <1>1 DEF OnlyJob, Within
<1>5. /\ Cardinality(Within(s)') = Cardinality(Within(s)) - 1
      /\ Cardinality(Within(s)') \in Nat
  <2>1. IsFiniteSet(Within(s)')
    BY <1>3, WithinIsFinite, FS_RemoveElement
  <2>2. Cardinality(Within(s)') = Cardinality(Within(s)) - 1
    BY <1>3, WithinIsFinite, FS_RemoveElement
  <2> QED BY <2>1, <2>2, FS_CardinalityType
<1>6. overrides[s] - 1 = Cardinality(Within(s)')
  BY <1>5 DEF WInv, CountIsTheNumberWithin
<1>7. overrides' \in [Sessions -> Nat]
  BY <1>1, <1>5, <1>6
<1>8. CountIsTheNumberWithin'
  BY <1>1, <1>4, <1>6 DEF WInv, CountIsTheNumberWithin
<1>9. Placed'
  BY <1>1 DEF WInv, Placed, OnlyJob
<1> QED BY <1>2, <1>7, <1>8, <1>9
-----------------------------------------------------------------------------
(* The steps, by what they do.                                             *)

Rest == UNCHANGED <<driver, opened, implicit, notLowered, notRestored>>

\* Whatever is sent, to whichever session, the types of the rest are kept.
LEMMA RestIsTyped ==
  ASSUME WInv, Rest, NEW h \in Pollers,
         \/ UNCHANGED queue
         \/ \E s \in MaybeSession, what \in Commands : Sends(h, s, what),
         overrides' \in [Sessions -> Nat], job' \in [Pollers -> Jobs],
         CountIsTheNumberWithin', Placed'
  PROVE  WInv'
<1>1. queue' \in [Sessions -> Seq([who : Pollers, what : Commands])]
  <2>1. CASE UNCHANGED queue
    BY <2>1 DEF WInv, WaitTypeOK
  <2>2. CASE \E s \in MaybeSession, what \in Commands : Sends(h, s, what)
    BY <2>2, SendIsTyped DEF WInv
  <2> QED BY <2>1, <2>2
<1>2. WaitTypeOK'
  BY <1>1 DEF WInv, WaitTypeOK, Rest, Jobs
<1> QED BY <1>2 DEF WInv

\* A request goes on where it is, inside or outside.
LEMMA GoesOn ==
  ASSUME WInv, Rest, UNCHANGED overrides, NEW h \in Pollers,
         NEW at \in Awaiting \union {"idle"}, NEW on \in MaybeSession,
         NEW eye \in MaybeSession, NEW swipes \in 0..MaxSwipes,
         Became(h, at, on, eye, swipes),
         \/ UNCHANGED queue
         \/ \E s \in MaybeSession, what \in Commands : Sends(h, s, what),
         at \in Overriding <=> job[h].at \in Overriding,
         at \in Overriding => on = job[h].on
  PROVE  WInv'
<1> DEFINE new == Job(at, on, eye, swipes)
<1>1. new \in Jobs /\ OnlyJob(h, new)
  BY JobIsTyped DEF OnlyJob, Became
<1>2. new.at = at /\ new.on = on
  BY DEF Job
<1> HIDE DEF new
<1>3. CountIsTheNumberWithin' /\ Placed' /\ job' \in [Pollers -> Jobs]
  BY <1>1, <1>2, Stays
<1>4. overrides' \in [Sessions -> Nat]
  BY DEF WInv, WaitTypeOK
<1> QED BY <1>3, <1>4, RestIsTyped

LEMMA EnteringCounts ==
  ASSUME WInv, NEW h \in Pollers, NEW eye \in MaybeSession,
         job[h].at \notin Overriding, Enters(h, eye)
  PROVE  WInv'
<1>1. driver \in Sessions
  BY DEF Enters, WInv, WaitTypeOK, MaybeSession
<1>2. PICK s \in Sessions : s = driver
  BY <1>1
<1>3. PICK at \in {"lowering", "polling", "looking"}, through \in MaybeSession,
           what \in Commands, to \in MaybeSession :
        Became(h, at, s, through, 0) /\ Sends(h, to, what)
  <2>1. CASE Became(h, "lowering", driver, eye, 0) /\ Sends(h, driver, "lower")
    BY <1>2, <2>1 DEF Commands, MaybeSession
  <2>2. CASE StartsPolling(h, driver, eye)
    BY <1>2, <2>2 DEF StartsPolling, Looks, Commands, MaybeSession
  <2> QED BY <2>1, <2>2 DEF Enters
<1> DEFINE new == Job(at, s, through, 0)
<1>4. new \in Jobs /\ OnlyJob(h, new)
  <2>1. at \in Awaiting \union {"idle"} /\ s \in MaybeSession /\ 0 \in 0..MaxSwipes
    BY MaxSwipesIsNatural DEF Awaiting, Overriding, MaybeSession
  <2> QED BY <1>3, <2>1, JobIsTyped DEF OnlyJob, Became
<1>5. new.at \in Overriding /\ new.on = s
  BY DEF Job, Overriding
<1> HIDE DEF new
<1>6. overrides' = [overrides EXCEPT ![s] = @ + 1]
  BY <1>2 DEF Enters
<1>7. /\ CountIsTheNumberWithin' /\ Placed' /\ job' \in [Pollers -> Jobs]
      /\ overrides' \in [Sessions -> Nat]
  BY <1>4, <1>5, <1>6, Joins
<1>8. Rest
  BY DEF Enters, Rest
<1> QED BY <1>3, <1>7, <1>8, RestIsTyped

LEMMA LeavingUncounts ==
  ASSUME WInv, NEW h \in Pollers, job[h].at \in Overriding, Leaves(h)
  PROVE  WInv'
<1>1. PICK s \in Sessions : s = job[h].on
  BY DEF WInv, Placed
<1>2. PICK at \in {"restoring", "idle"}, on \in MaybeSession :
        /\ Became(h, at, on, on, 0)
        /\ UNCHANGED queue \/ Sends(h, s, "restore")
  <2>1. CASE Became(h, "restoring", s, s, 0) /\ Sends(h, s, "restore")
    BY <2>1 DEF MaybeSession
  <2>2. CASE job' = [job EXCEPT ![h] = Idle] /\ UNCHANGED queue
    BY <2>2 DEF MaybeSession, Idle, Became
  <2> QED BY <1>1, <2>1, <2>2 DEF Leaves
<1> DEFINE new == Job(at, on, on, 0)
<1>3. new \in Jobs /\ OnlyJob(h, new)
  <2>1. at \in Awaiting \union {"idle"} /\ 0 \in 0..MaxSwipes
    BY MaxSwipesIsNatural DEF Awaiting
  <2> QED BY <1>2, <2>1, JobIsTyped DEF OnlyJob, Became
<1>4. new.at \notin Overriding
  BY DEF Job, Overriding
<1> HIDE DEF new
<1>5. overrides' = [overrides EXCEPT ![s] = @ - 1]
  BY <1>1 DEF Leaves
<1>6. /\ CountIsTheNumberWithin' /\ Placed' /\ job' \in [Pollers -> Jobs]
      /\ overrides' \in [Sessions -> Nat]
  BY <1>1, <1>3, <1>4, <1>5, Parts
<1>7. Rest
  BY DEF Leaves, Rest
<1>8. UNCHANGED queue \/ \E t \in MaybeSession, what \in Commands : Sends(h, t, what)
  BY <1>2 DEF MaybeSession, Commands
<1> QED BY <1>6, <1>7, <1>8, RestIsTyped

\* The server's answer moves nobody.
LEMMA AnswersMoveNobody ==
  ASSUME WInv, NEW s \in Sessions, Takes(s), Effect(s) \/ UNCHANGED implicit,
         NEW reply \in {"ok", "failed"}, Answers(Command(s).who, reply),
         notLowered' \in SUBSET Sessions, notRestored' \in SUBSET Sessions,
         UNCHANGED <<driver, opened, overrides>>
  PROVE  WInv'
<1> DEFINE C == [who : Pollers, what : Commands]
<1>1. queue \in [Sessions -> Seq(C)] /\ queue[s] # <<>>
  BY DEF WInv, WaitTypeOK, Takes
<1>2. Command(s) \in C /\ queue' \in [Sessions -> Seq(C)]
  <2> HIDE DEF C
  <2>1. Head(queue[s]) \in C /\ Tail(queue[s]) \in Seq(C)
    BY <1>1
  <2> QED BY <1>1, <2>1 DEF Command, Takes
<1>3. PICK h \in Pollers : h = Command(s).who
  BY <1>2
<1> DEFINE new == [job[h] EXCEPT !.reply = reply]
<1>4. /\ new \in Jobs /\ OnlyJob(h, new)
      /\ new.at = job[h].at /\ new.on = job[h].on
  BY <1>3, ZenonT(40) DEF Jobs, WInv, WaitTypeOK, OnlyJob, Answers
<1> HIDE DEF new
<1>5. CountIsTheNumberWithin' /\ Placed' /\ job' \in [Pollers -> Jobs]
  BY <1>4, Stays
<1>6. implicit' \in [Sessions -> {"default", "zero"}]
  BY DEF WInv, WaitTypeOK, Effect
<1>7. WaitTypeOK'
  BY <1>2, <1>5, <1>6 DEF WInv, WaitTypeOK, Jobs
<1> QED BY <1>5, <1>7 DEF WInv
-----------------------------------------------------------------------------
LEMMA WaitStarts == WaitInit => WInv
<1> SUFFICES ASSUME WaitInit PROVE WInv
  OBVIOUS
<1>1. \A h \in Pollers : job[h].at = "idle"
  BY DEF WaitInit, Idle, Job
<1>2. \A s \in Sessions : Within(s) = {}
  BY <1>1 DEF Within, Overriding
<1>3. CountIsTheNumberWithin
  BY <1>2, FS_EmptySet DEF WaitInit, CountIsTheNumberWithin
<1>4. Idle \in Jobs
  BY JobIsTyped, MaxSwipesIsNatural DEF Idle, MaybeSession
<1>5. WaitTypeOK
  BY <1>4 DEF WaitInit, WaitTypeOK, MaybeSession, Jobs
<1> QED BY <1>1, <1>3, <1>5 DEF WInv, Placed, Overriding

\* What a request is sent to, and the steps of one request.
LEMMA JobOf ==
  ASSUME WInv, NEW h \in Pollers
  PROVE  job[h].on \in MaybeSession /\ job[h].eye \in MaybeSession
         /\ job[h].swipes \in 0..MaxSwipes
BY DEF WInv, WaitTypeOK

LEMMA PollersStep ==
  ASSUME WInv, NEW h \in Pollers, PollerStep(h)
  PROVE  WInv'
<1> USE JobOf, MaxSwipesIsNatural
<1>1. CASE Lowered(h)
  <2>1. PICK at \in {"polling", "looking"}, eye \in MaybeSession :
          Looks(at, job[h].on, eye, 0, h)
    BY <1>1 DEF Lowered, StartsPolling
  <2>2. job[h].at = "lowering" /\ Rest /\ UNCHANGED overrides
    BY <1>1 DEF Lowered, Stands, Rest
  <2> QED BY <2>1, <2>2, GoesOn DEF Looks, Overriding, Awaiting, Commands
<1>2. CASE NotLowered(h)
  BY <1>2, LeavingUncounts DEF NotLowered, Stands, Overriding
<1>3. CASE Restored(h)
  <2>1. Became(h, "idle", NoSession, NoSession, 0)
    BY <1>3 DEF Restored, Became, Idle
  <2>2. /\ job[h].at = "restoring" /\ Rest /\ UNCHANGED <<overrides, queue>>
        /\ NoSession \in MaybeSession
    BY <1>3 DEF Restored, Stands, Rest, appiumSide, MaybeSession
  <2> QED BY <2>1, <2>2, GoesOn DEF Overriding
<1>4. CASE PollsAgain(h)
  BY <1>4, GoesOn DEF PollsAgain, Stands, Looks, Rest, Overriding, Awaiting, Commands
<1>5. CASE PollingEnds(h)
  BY <1>5, LeavingUncounts DEF PollingEnds, Stands, Overriding
<1>6. CASE ScrollSized(h)
  BY <1>6, EnteringCounts DEF ScrollSized, Stands, Overriding
<1>7. CASE ScrollsOnce(h)
  <2>1. NoSession \in MaybeSession
    BY DEF MaybeSession
  <2> QED BY <1>7, <2>1, GoesOn
          DEF ScrollsOnce, Stands, Rest, Overriding, Awaiting, Commands
<1>8. CASE ScrollOver(h)
  <2>1. Became(h, "idle", NoSession, NoSession, 0)
    BY <1>8 DEF ScrollOver, Became, Idle
  <2>2. /\ job[h].at \in {"dragging", "sizing"} /\ Rest
        /\ UNCHANGED <<overrides, queue>> /\ NoSession \in MaybeSession
    BY <1>8 DEF ScrollOver, Stands, Rest, appiumSide, MaybeSession
  <2> QED BY <2>1, <2>2, GoesOn DEF Overriding
<1>9. CASE Swipes(h)
  <2>1. job[h].swipes + 1 \in 0..MaxSwipes
    BY <1>9 DEF Swipes, MaySwipe
  <2> QED BY <1>9, <2>1, GoesOn
          DEF Swipes, Stands, Rest, Overriding, Awaiting, Commands
<1>10. CASE Swiped(h)
  BY <1>10, GoesOn DEF Swiped, Stands, Looks, Rest, Overriding, Awaiting, Commands
<1>11. CASE ScrollingEnds(h)
  BY <1>11, LeavingUncounts DEF ScrollingEnds, Stands, Overriding
<1> QED BY <1>1, <1>2, <1>3, <1>4, <1>5, <1>6, <1>7, <1>8, <1>9, <1>10, <1>11
        DEF PollerStep

LEMMA WaitSteps == WInv /\ [WaitNext]_waitVars => WInv'
<1> SUFFICES ASSUME WInv, [WaitNext]_waitVars PROVE WInv'
  OBVIOUS
<1>1. ASSUME UNCHANGED <<overrides, job, appiumSide>>,
             driver' \in MaybeSession, opened' \in SUBSET Sessions
      PROVE  WInv'
  <2>1. \A s \in Sessions : Within(s)' = Within(s)
    BY <1>1 DEF Within
  <2>2. CountIsTheNumberWithin'
    BY <1>1, <2>1 DEF WInv, CountIsTheNumberWithin
  <2>3. Placed'
    BY <1>1 DEF WInv, Placed
  <2>4. WaitTypeOK'
    BY <1>1 DEF WInv, WaitTypeOK, appiumSide
  <2> QED BY <2>2, <2>3, <2>4 DEF WInv
<1>2. CASE LosesSession
  BY <1>1, <1>2 DEF LosesSession, WInv, WaitTypeOK, MaybeSession
<1>3. ASSUME NEW s \in Sessions, Connects(s) PROVE WInv'
  BY <1>1, <1>3 DEF Connects, WInv, WaitTypeOK, MaybeSession
<1>4. ASSUME NEW s \in Sessions, Executes(s) PROVE WInv'
  <2>1. notLowered' \in SUBSET Sessions /\ notRestored' \in SUBSET Sessions
    BY <1>4 DEF Executes, WInv, WaitTypeOK
  <2> QED BY <1>4, <2>1, AnswersMoveNobody DEF Executes
<1>5. ASSUME NEW s \in Sessions, Refuses(s) PROVE WInv'
  <2>1. notLowered' \in SUBSET Sessions /\ notRestored' \in SUBSET Sessions
    BY <1>5 DEF Refuses, WInv, WaitTypeOK
  <2> QED BY <1>5, <2>1, AnswersMoveNobody DEF Refuses
<1>6. ASSUME NEW h \in Pollers, WaitBegins(h) PROVE WInv'
  BY <1>6, EnteringCounts DEF WaitBegins, Idle, Job, Overriding, MaybeSession
<1>7. ASSUME NEW h \in Pollers, ScrollBegins(h) PROVE WInv'
  <2>1. /\ job[h].at = "idle" /\ Rest /\ UNCHANGED overrides
        /\ NoSession \in MaybeSession /\ driver \in MaybeSession
        /\ 0 \in 0..MaxSwipes
    BY <1>7, MaxSwipesIsNatural
       DEF ScrollBegins, Idle, Job, Rest, MaybeSession, WInv, WaitTypeOK
  <2> QED BY <1>7, <2>1, GoesOn DEF ScrollBegins, Overriding, Awaiting, Commands
<1>8. CASE UNCHANGED waitVars
  BY <1>1, <1>8 DEF waitVars, daemonSide, appiumSide, WInv, WaitTypeOK
<1> QED BY <1>2, <1>3, <1>4, <1>5, <1>6, <1>7, <1>8, PollersStep DEF WaitNext

LEMMA WaitInvariant == WaitSpec => []WInv
BY WaitStarts, WaitSteps, PTL DEF WaitSpec

(***************************************************************************)
(* withoutImplicitWait() and the two handlers keep their types: a scroll   *)
(* swipes no more often than it may, a count never falls below zero.       *)
(***************************************************************************)
THEOREM WaitTypes == WaitSpec => []WaitTypeOK
<1>1. WInv => WaitTypeOK
  BY DEF WInv
<1> QED BY <1>1, WaitInvariant, PTL

(***************************************************************************)
(* The count of overrides of each session is the number of requests that   *)
(* are between their increment and their finally block, for any number of  *)
(* overlapping requests, lost sessions and failed commands.                *)
(***************************************************************************)
THEOREM CountIsExact == WaitSpec => []CountIsTheNumberWithin
<1>1. WInv => CountIsTheNumberWithin
  BY DEF WInv
<1> QED BY <1>1, WaitInvariant, PTL

-----------------------------------------------------------------------------
(* What the commands under way have to do with the count.  Only the        *)
(* current session matters: a request that outlives its session may send   *)
(* looks and leave no restore behind.                                      *)

\* The sender of a command waits for the answer to it, and to no other.
WaitsFor(j, what, s) ==
  /\ j.reply = "none"
  /\ \/ what = "size" /\ j.at = "sizing" /\ j.eye = s
     \/ what = "lower" /\ j.at = "lowering" /\ j.on = s
     \/ what = "restore" /\ j.at = "restoring" /\ j.on = s
     \/ what = "look" /\ j.at \in {"polling", "looking"} /\ j.eye = s
     \/ what = "swipe" /\ j.at \in {"swiping", "dragging"} /\ j.eye = s

Awaited ==
  \A s \in Sessions : \A i \in 1..Len(queue[s]) :
    /\ WaitsFor(job[queue[s][i].who], queue[s][i].what, s)
    /\ \A k \in 1..Len(queue[s]) : queue[s][k].who = queue[s][i].who => i = k

\* A scroll took its driver before withoutImplicitWait() took its own: if it
\* is the current session, so is the other.
Known ==
  /\ driver \in opened \union {NoSession}
  /\ \A h \in Pollers :
       /\ job[h].on \in opened \union {NoSession}
       /\ job[h].eye \in opened \union {NoSession}
       /\ job[h].at \in Overriding /\ driver # NoSession /\ job[h].eye = driver =>
            job[h].on = driver

Fresh == \A s \in Sessions \ opened : queue[s] = <<>> /\ implicit[s] = "default"

Sent(s, what) == \E i \in 1..Len(queue[s]) : queue[s][i].what = what

\* No look, and no lowering, is followed by a change of the wait.
InOrder(s) ==
  \A i, k \in 1..Len(queue[s]) :
    i < k /\ queue[s][k].what \in {"lower", "restore"} =>
      queue[s][i].what \notin {"look", "lower"}

\* What the wait is, or will be once the commands under way are executed.
Settled(s) ==
  /\ InOrder(s)
  /\ overrides[s] > 0 =>
       Sent(s, "lower") \/ (~Sent(s, "restore") /\ (implicit[s] = "zero" \/ s \in notLowered))
  /\ overrides[s] = 0 =>
       Sent(s, "restore") \/ implicit[s] = "default" \/ s \in notRestored

CurrentIsSettled == driver # NoSession => Settled(driver)

Flow == Awaited /\ Known /\ Fresh /\ CurrentIsSettled
QInv == WInv /\ Flow

-----------------------------------------------------------------------------
(* The queues.                                                             *)

LEMMA QueueGrows ==
  ASSUME WInv, NEW h \in Pollers, NEW s \in Sessions, NEW what \in Commands,
         Sends(h, s, what)
  PROVE  /\ Len(queue[s]) \in Nat
         /\ Len(queue'[s]) = Len(queue[s]) + 1
         /\ \A i \in 1..Len(queue[s]) : queue'[s][i] = queue[s][i]
         /\ queue'[s][Len(queue[s]) + 1] = [who |-> h, what |-> what]
         /\ \A t \in Sessions \ {s} : queue'[t] = queue[t]
<1> DEFINE C == [who : Pollers, what : Commands]
           c == [who |-> h, what |-> what]
<1>1. c \in C /\ queue \in [Sessions -> Seq(C)]
  BY DEF WInv, WaitTypeOK
<1>2. queue' = [queue EXCEPT ![s] = Append(@, c)]
  BY DEF Sends
<1> HIDE DEF C, c
<1>3. queue[s] \in Seq(C) /\ queue'[s] = Append(queue[s], c)
  BY <1>1, <1>2
<1>4. /\ Len(queue'[s]) = Len(queue[s]) + 1
      /\ \A i \in 1..Len(queue[s]) : queue'[s][i] = queue[s][i]
      /\ queue'[s][Len(queue[s]) + 1] = c
  BY <1>1, <1>3, AppendProperties
<1>5. \A t \in Sessions \ {s} : queue'[t] = queue[t]
  BY <1>1, <1>2
<1>6. Len(queue[s]) \in Nat
  BY <1>3
<1> QED BY <1>4, <1>5, <1>6 DEF c

LEMMA QueueShrinks ==
  ASSUME WInv, NEW s \in Sessions, Takes(s)
  PROVE  /\ Len(queue'[s]) \in Nat
         /\ Len(queue[s]) = Len(queue'[s]) + 1
         /\ \A i \in 1..Len(queue'[s]) : queue'[s][i] = queue[s][i + 1]
         /\ Command(s) = queue[s][1]
         /\ Command(s) \in [who : Pollers, what : Commands]
         /\ \A t \in Sessions \ {s} : queue'[t] = queue[t]
<1> DEFINE C == [who : Pollers, what : Commands]
<1>1. queue \in [Sessions -> Seq(C)]
  BY DEF WInv, WaitTypeOK
<1> HIDE DEF C
<1>2. queue[s] \in Seq(C) /\ queue[s] # <<>> /\ queue'[s] = Tail(queue[s])
  BY <1>1 DEF Takes
<1>3. /\ Head(queue[s]) \in C
      /\ Len(queue'[s]) = Len(queue[s]) - 1
      /\ \A i \in 1..Len(queue'[s]) : queue'[s][i] = queue[s][i + 1]
      /\ Len(queue'[s]) \in Nat
  BY <1>2, HeadTailProperties, LenProperties
<1>4. Head(queue[s]) = queue[s][1]
  BY <1>2
<1>5. \A t \in Sessions \ {s} : queue'[t] = queue[t]
  BY <1>1 DEF Takes
<1>6. Len(queue[s]) = Len(queue'[s]) + 1
  BY <1>2, <1>3, LenProperties
<1> QED BY <1>3, <1>4, <1>5, <1>6 DEF C, Command

LEMMA QueueIsQueue ==
  ASSUME WInv, NEW s \in Sessions
  PROVE  /\ Len(queue[s]) \in Nat
         /\ \A i \in 1..Len(queue[s]) : queue[s][i] \in [who : Pollers, what : Commands]
<1> DEFINE C == [who : Pollers, what : Commands]
<1>1. queue[s] \in Seq(C)
  BY DEF WInv, WaitTypeOK
<1> HIDE DEF C
<1>2. Len(queue[s]) \in Nat /\ \A i \in 1..Len(queue[s]) : queue[s][i] \in C
  BY <1>1, LenProperties, ElementOfSeq
<1> QED BY <1>2 DEF C

-----------------------------------------------------------------------------
(* The commands under way are awaited, also after a step of one request.   *)

\* It waits for no answer.
Ready(h) == job[h].at = "idle" \/ job[h].reply # "none"
OpenedOrNone == opened \union {NoSession}

LEMMA SendsAreAwaited ==
  ASSUME WInv, Awaited, NEW h \in Pollers, Ready(h), NEW new \in Jobs, OnlyJob(h, new),
         \/ UNCHANGED queue
         \/ \E s \in MaybeSession, what \in Commands :
              Sends(h, s, what) /\ WaitsFor(new, what, s)
  PROVE  Awaited'
<1>1. /\ job'[h] = new
      /\ \A g \in Pollers \ {h} : job'[g] = job[g]
  BY DEF OnlyJob, WInv, WaitTypeOK
<1>2. ASSUME NEW s \in Sessions, NEW i \in 1..Len(queue[s])
      PROVE  /\ queue[s][i].who \in Pollers \ {h}
             /\ WaitsFor(job'[queue[s][i].who], queue[s][i].what, s)
  <2>1. WaitsFor(job[queue[s][i].who], queue[s][i].what, s)
    BY DEF Awaited
  <2>2. queue[s][i].who # h
    BY <2>1 DEF WaitsFor, Ready
  <2>3. queue[s][i].who \in Pollers
    BY QueueIsQueue
  <2> QED BY <1>1, <2>1, <2>2, <2>3
<1>3. ASSUME NEW s \in Sessions, queue'[s] = queue[s], NEW i \in 1..Len(queue'[s])
      PROVE  /\ WaitsFor(job'[queue'[s][i].who], queue'[s][i].what, s)
             /\ \A k \in 1..Len(queue'[s]) : queue'[s][k].who = queue'[s][i].who => i = k
  BY <1>2, <1>3 DEF Awaited
<1>4. CASE UNCHANGED queue
  BY <1>3, <1>4 DEF Awaited, WaitsFor
<1>5. ASSUME NEW s \in MaybeSession, NEW what \in Commands, Sends(h, s, what),
             WaitsFor(new, what, s)
      PROVE  Awaited'
  <2>1. CASE s = NoSession
    <3>1. UNCHANGED queue
      BY <1>5, <2>1, NoSessionIsNone DEF Sends, WInv, WaitTypeOK
    <3> QED BY <1>4, <3>1
  <2>2. CASE s \in Sessions
    <3> DEFINE n == Len(queue[s])
    <3>1. /\ n \in Nat /\ Len(queue'[s]) = n + 1
          /\ \A i \in 1..n : queue'[s][i] = queue[s][i]
          /\ queue'[s][n + 1].who = h /\ queue'[s][n + 1].what = what
          /\ \A t \in Sessions \ {s} : queue'[t] = queue[t]
      <4> DEFINE c == [who |-> h, what |-> what]
      <4>1. /\ n \in Nat /\ Len(queue'[s]) = n + 1
            /\ \A i \in 1..n : queue'[s][i] = queue[s][i]
            /\ queue'[s][n + 1] = c
            /\ \A t \in Sessions \ {s} : queue'[t] = queue[t]
        <5> HIDE DEF n, c
        <5> QED BY <1>5, <2>2, QueueGrows DEF n, c
      <4>2. c.who = h /\ c.what = what
        OBVIOUS
      <4> QED BY <4>1, <4>2
    <3>2. ASSUME NEW i \in 1..n + 1
          PROVE  /\ WaitsFor(job'[queue'[s][i].who], queue'[s][i].what, s)
                 /\ \A k \in 1..n + 1 : queue'[s][k].who = queue'[s][i].who => i = k
      <4>1. CASE i = n + 1
        <5>1. WaitsFor(job'[queue'[s][i].who], queue'[s][i].what, s)
          BY <1>1, <1>5, <3>1, <4>1
        <5>2. ASSUME NEW k \in 1..n + 1, k # n + 1 PROVE queue'[s][k].who # h
          <6>1. k \in 1..n
            BY <3>1, <5>2
          <6> QED BY <1>2, <2>2, <3>1, <6>1
        <5> QED BY <3>1, <4>1, <5>1, <5>2
      <4>2. CASE i \in 1..n
        <5>1. WaitsFor(job'[queue'[s][i].who], queue'[s][i].what, s)
          BY <1>2, <2>2, <3>1, <4>2
        <5>2. \A k \in 1..n : queue'[s][k].who = queue'[s][i].who => i = k
          BY <2>2, <3>1, <4>2 DEF Awaited
        <5>3. queue'[s][n + 1].who # queue'[s][i].who
          BY <1>2, <2>2, <3>1, <4>2
        <5>4. \A k \in 1..n + 1 : k \in 1..n \/ k = n + 1
          BY <3>1
        <5> QED BY <5>1, <5>2, <5>3, <5>4
      <4> QED BY <3>1, <4>1, <4>2
    <3>3. ASSUME NEW t \in Sessions, NEW i \in 1..Len(queue'[t])
          PROVE  /\ WaitsFor(job'[queue'[t][i].who], queue'[t][i].what, t)
                 /\ \A k \in 1..Len(queue'[t]) : queue'[t][k].who = queue'[t][i].who => i = k
      <4>1. CASE t = s
        <5> HIDE DEF n
        <5> QED BY <3>1, <3>2, <3>3, <4>1
      <4>2. CASE t # s
        BY <1>3, <3>1, <3>3, <4>2
      <4> QED BY <4>1, <4>2
    <3> QED BY <3>3 DEF Awaited, WaitsFor
  <2> QED BY <2>1, <2>2 DEF MaybeSession
<1> QED BY <1>4, <1>5

\* The one answered had sent nothing else.
LEMMA AnswersAreAwaited ==
  ASSUME WInv, Awaited, NEW s \in Sessions, Takes(s),
         NEW reply \in {"ok", "failed"}, Answers(Command(s).who, reply)
  PROVE  Awaited'
<1>1. PICK h \in Pollers : h = Command(s).who
  BY QueueShrinks
<1>2. \A g \in Pollers \ {h} : job'[g] = job[g]
  BY <1>1 DEF Answers, WInv, WaitTypeOK
<1>3. /\ Len(queue'[s]) \in Nat /\ Len(queue[s]) = Len(queue'[s]) + 1
      /\ \A i \in 1..Len(queue'[s]) : queue'[s][i] = queue[s][i + 1]
      /\ queue[s][1].who = h
      /\ \A t \in Sessions \ {s} : queue'[t] = queue[t]
  BY <1>1, QueueShrinks
<1>4. 1 \in 1..Len(queue[s]) /\ WaitsFor(job[h], queue[s][1].what, s)
  BY <1>3 DEF Awaited
<1>5. ASSUME NEW t \in Sessions, NEW i \in 1..Len(queue'[t])
      PROVE  /\ WaitsFor(job'[queue'[t][i].who], queue'[t][i].what, t)
             /\ \A k \in 1..Len(queue'[t]) : queue'[t][k].who = queue'[t][i].who => i = k
  <2>1. CASE t = s
    <3>1. i + 1 \in 1..Len(queue[s]) /\ i + 1 # 1
      BY <1>3, <1>5, <2>1
    <3>2. WaitsFor(job[queue[s][i + 1].who], queue[s][i + 1].what, s)
      BY <3>1 DEF Awaited
    <3>3. queue[s][i + 1].who \in Pollers \ {h}
      BY <1>3, <1>4, <3>1, QueueIsQueue DEF Awaited
    <3>4. ASSUME NEW k \in 1..Len(queue'[s]), queue[s][k + 1].who = queue[s][i + 1].who
          PROVE  i + 1 = k + 1
      <4>1. k + 1 \in 1..Len(queue[s])
        BY <1>3, <3>4
      <4> QED BY <3>1, <3>4, <4>1 DEF Awaited
    <3>5. WaitsFor(job'[queue'[s][i].who], queue'[s][i].what, s)
      BY <1>2, <1>3, <1>5, <2>1, <3>2, <3>3
    <3>6. \A k \in 1..Len(queue'[s]) : queue'[s][k].who = queue'[s][i].who => i + 1 = k + 1
      BY <1>3, <1>5, <2>1, <3>4
    <3> QED BY <1>3, <1>5, <2>1, <3>5, <3>6
  <2>2. CASE t # s
    <3>1. queue'[t] = queue[t] /\ i \in 1..Len(queue[t])
      BY <1>3, <1>5, <2>2
    <3>2. WaitsFor(job[queue[t][i].who], queue[t][i].what, t)
      BY <3>1 DEF Awaited
    <3>3. queue[t][i].who # h
      BY <1>4, <2>2, <3>2 DEF WaitsFor
    <3>4. queue[t][i].who \in Pollers
      BY <3>1, QueueIsQueue
    <3> QED BY <1>2, <3>1, <3>2, <3>3, <3>4 DEF Awaited
  <2> QED BY <2>1, <2>2
<1> QED BY <1>5 DEF Awaited, WaitsFor

-----------------------------------------------------------------------------
(* What the queue of the current session may hold.                         *)

LEMMA LookersAreWithin ==
  ASSUME QInv, driver \in Sessions, NEW i \in 1..Len(queue[driver]),
         queue[driver][i].what \in {"look", "lower"}
  PROVE  /\ queue[driver][i].who \in Within(driver)
         /\ job[queue[driver][i].who].reply = "none"
<1> DEFINE h == queue[driver][i].who
<1>1. WaitsFor(job[h], queue[driver][i].what, driver)
  BY DEF QInv, Flow, Awaited
<1>2. h \in Pollers
  BY QueueIsQueue DEF QInv
<1>3. job[h].at \in Overriding /\ job[h].on = driver
  BY <1>1, <1>2, NoSessionIsNone DEF WaitsFor, Overriding, QInv, Flow, Known
<1> QED BY <1>1, <1>2, <1>3 DEF Within, WaitsFor

\* Nobody is within, or none but one that waits for nothing: no look is under way.
LEMMA NobodyLooks ==
  ASSUME QInv, driver \in Sessions,
         \A h \in Within(driver) : job[h].reply # "none"
  PROVE  \A i \in 1..Len(queue[driver]) : queue[driver][i].what \notin {"look", "lower"}
BY LookersAreWithin

LEMMA CountedWithin ==
  ASSUME WInv, NEW s \in Sessions
  PROVE  /\ overrides[s] = 0 <=> Within(s) = {}
         /\ \A h \in Within(s) : overrides[s] = 1 => Within(s) = {h}
<1>1. IsFiniteSet(Within(s)) /\ overrides[s] = Cardinality(Within(s))
  BY WithinIsFinite DEF WInv, CountIsTheNumberWithin
<1>2. overrides[s] = 0 <=> Within(s) = {}
  BY <1>1, FS_EmptySet
<1>3. ASSUME NEW h \in Within(s), overrides[s] = 1 PROVE Within(s) = {h}
  <2>1. /\ IsFiniteSet(Within(s) \ {h})
        /\ Cardinality(Within(s) \ {h}) = Cardinality(Within(s)) - 1
    BY <1>1, <1>3, FS_RemoveElement
  <2>2. Within(s) \ {h} = {}
    BY <1>1, <1>3, <2>1, FS_EmptySet
  <2> QED BY <1>3, <2>2
<1> QED BY <1>2, <1>3

-----------------------------------------------------------------------------
(* Whether the current session stays settled.                              *)

\* A command that is no change of the wait changes nothing in what is to come.
LEMMA QuietIsSettled ==
  ASSUME QInv, Rest, NEW h \in Pollers, driver \in Sessions,
         overrides[driver] \in Nat, overrides'[driver] \in Nat,
         overrides'[driver] > 0 <=> overrides[driver] > 0,
         \/ queue'[driver] = queue[driver]
         \/ \E what \in {"size", "look", "swipe"} : Sends(h, driver, what)
  PROVE  Settled(driver)'
<1> DEFINE d == driver
<1>1. Settled(d) /\ WInv
  BY NoSessionIsNone DEF QInv, Flow, CurrentIsSettled
<1>2. /\ UNCHANGED <<driver, implicit, notLowered, notRestored>>
      /\ overrides'[d] = 0 <=> overrides[d] = 0
  BY DEF Rest
<1>3. ASSUME Sent(d, "lower") <=> Sent(d, "lower")', Sent(d, "restore") <=> Sent(d, "restore")',
             InOrder(d)'
      PROVE  Settled(d)'
  BY <1>1, <1>2, <1>3 DEF Settled
<1>4. CASE queue'[d] = queue[d]
  BY <1>1, <1>2, <1>3, <1>4 DEF Sent, InOrder, Settled
<1>5. ASSUME NEW what \in {"size", "look", "swipe"}, Sends(h, d, what)
      PROVE  Settled(d)'
  <2> DEFINE n == Len(queue[d])
  <2>1. what \in Commands
    BY <1>5 DEF Commands
  <2>2. /\ n \in Nat /\ Len(queue'[d]) = n + 1
        /\ \A i \in 1..n : queue'[d][i] = queue[d][i]
        /\ queue'[d][n + 1] = [who |-> h, what |-> what]
    BY <1>1, <1>5, <2>1, QueueGrows
  <2>3. queue'[d][n + 1].what = what
    BY <2>2
  <2> HIDE DEF n
  <2>4. \A i \in 1..n + 1 : i \in 1..n \/ i = n + 1
    BY <2>2
  <2>5. \A w \in {"lower", "restore"} : Sent(d, w) <=> Sent(d, w)'
    BY <1>2, <2>2, <2>3, <2>4, SMTT(30) DEF Sent, n
  <2>6. InOrder(d)'
    BY <1>1, <1>2, <2>2, <2>3, <2>4, SMTT(30) DEF InOrder, Settled, n
  <2> QED BY <1>3, <2>5, <2>6
<1> QED BY <1>4, <1>5

\* A change of the wait that is sent when no look is under way decides.
LEMMA ChangeIsSettled ==
  ASSUME QInv, Rest, NEW h \in Pollers, driver \in Sessions,
         \A i \in 1..Len(queue[driver]) : queue[driver][i].what \notin {"look", "lower"},
         NEW what \in {"lower", "restore"}, Sends(h, driver, what),
         overrides'[driver] = IF what = "lower" THEN 1 ELSE 0
  PROVE  Settled(driver)'
<1> DEFINE d == driver
           n == Len(queue[d])
<1>1. what \in Commands /\ WInv
  BY DEF Commands, QInv
<1>2. /\ n \in Nat /\ Len(queue'[d]) = n + 1
      /\ \A i \in 1..n : queue'[d][i] = queue[d][i]
      /\ queue'[d][n + 1] = [who |-> h, what |-> what]
  BY <1>1, QueueGrows
<1>3. queue'[d][n + 1].what = what /\ driver' = driver
  BY <1>2 DEF Rest
<1> HIDE DEF n
<1>4. \A i \in 1..n + 1 : i \in 1..n \/ i = n + 1
  BY <1>2
<1>5. InOrder(d)'
  <2>1. ASSUME NEW i \in 1..n + 1, NEW k \in 1..n + 1, i < k
        PROVE  queue'[d][i].what \notin {"look", "lower"}
    <3>1. i \in 1..n
      BY <1>2, <2>1
    <3> QED BY <1>2, <3>1 DEF n
  <2> QED BY <1>2, <1>3, <2>1 DEF InOrder
<1>6. Sent(d, what)'
  <2>1. n + 1 \in 1..n + 1
    BY <1>2
  <2> QED BY <1>2, <1>3, <2>1 DEF Sent
<1> QED BY <1>3, <1>5, <1>6 DEF Settled

\* The server executes or refuses the first command of the current session.
LEMMA AnswerIsSettled ==
  ASSUME QInv, driver \in Sessions, Executes(driver) \/ Refuses(driver)
  PROVE  Settled(driver)'
<1> DEFINE d == driver
           c == queue[d][1]
<1>1. /\ WInv /\ Settled(d) /\ Takes(d)
      /\ UNCHANGED <<driver, overrides>>
  BY NoSessionIsNone DEF QInv, Flow, CurrentIsSettled, Executes, Refuses
<1>2. /\ Len(queue'[d]) \in Nat /\ Len(queue[d]) = Len(queue'[d]) + 1
      /\ \A i \in 1..Len(queue'[d]) : queue'[d][i] = queue[d][i + 1]
      /\ Command(d) = c
      /\ c.what \in Commands
  BY <1>1, QueueShrinks
<1> HIDE DEF c
<1>3. InOrder(d)'
  <2>1. \A i \in 1..Len(queue'[d]) : i + 1 \in 1..Len(queue[d])
    BY <1>2
  <2>2. \A i, k \in 1..Len(queue'[d]) :
          i + 1 < k + 1 /\ queue[d][k + 1].what \in {"lower", "restore"} =>
            queue[d][i + 1].what \notin {"look", "lower"}
    BY <1>1, <2>1 DEF InOrder, Settled
  <2>3. \A i, k \in 1..Len(queue'[d]) : i < k => i + 1 < k + 1
    BY <1>2
  <2> QED BY <1>1, <1>2, <2>2, <2>3 DEF InOrder
<1>4. \A w : Sent(d, w) => Sent(d, w)' \/ c.what = w
  <2> SUFFICES ASSUME NEW w, NEW i \in 1..Len(queue[d]), queue[d][i].what = w, i # 1
               PROVE  Sent(d, w)'
    BY <1>2 DEF Sent, c
  <2>1. i - 1 \in 1..Len(queue'[d]) /\ (i - 1) + 1 = i
    BY <1>2
  <2>2. queue'[d][i - 1] = queue[d][i]
    BY <1>2, <2>1
  <2> QED BY <1>1, <2>1, <2>2 DEF Sent
<1>5. \A w : Sent(d, w)' => Sent(d, w)
  <2>1. \A i \in 1..Len(queue'[d]) : i + 1 \in 1..Len(queue[d])
    BY <1>2
  <2> QED BY <1>1, <1>2, <2>1 DEF Sent
<1>6. 1 \in 1..Len(queue[d]) /\ queue[d][1] = c
  BY <1>2 DEF c
\* What follows a lowering is no restore.
<1>7. c.what = "lower" => ~Sent(d, "restore")'
  <2> SUFFICES ASSUME c.what = "lower", NEW i \in 1..Len(queue'[d]),
                      queue'[d][i].what = "restore"
               PROVE  FALSE
    BY <1>1 DEF Sent
  <2>1. i + 1 \in 1..Len(queue[d]) /\ 1 < i + 1 /\ queue[d][i + 1].what = "restore"
    BY <1>2
  <2> QED BY <1>1, <1>6, <2>1 DEF InOrder, Settled
<1>8. /\ c.what = "lower" => implicit'[d] = "zero" \/ d \in notLowered'
      /\ c.what = "restore" => implicit'[d] = "default" \/ d \in notRestored'
      /\ c.what \notin {"lower", "restore"} =>
           /\ implicit'[d] = implicit[d]
           /\ d \in notLowered' <=> d \in notLowered
           /\ d \in notRestored' <=> d \in notRestored
      /\ c.what = "lower" => (d \in notRestored' <=> d \in notRestored)
      /\ c.what = "restore" => (d \in notLowered' <=> d \in notLowered)
  BY <1>2 DEF Executes, Refuses, Effect, QInv, WInv, WaitTypeOK
\* A lowering under way is counted.
<1>9. overrides[d] = 0 => c.what # "lower"
  BY <1>1, <1>6, LookersAreWithin, CountedWithin
<1>10. ASSUME overrides[d] > 0
       PROVE  \/ Sent(d, "lower")'
              \/ ~Sent(d, "restore")' /\ (implicit'[d] = "zero" \/ d \in notLowered')
  <2>1. CASE c.what = "lower"
    BY <1>7, <1>8, <2>1
  <2>2. CASE c.what = "restore"
    <3>1. Sent(d, "restore")
      BY <1>6, <2>2 DEF Sent
    <3> QED BY <1>1, <1>4, <1>10, <2>2, <3>1 DEF Settled
  <2>3. CASE c.what \notin {"lower", "restore"}
    BY <1>1, <1>4, <1>5, <1>8, <1>10, <2>3 DEF Settled
  <2> QED BY <2>1, <2>2, <2>3
<1>11. ASSUME overrides[d] = 0
       PROVE  Sent(d, "restore")' \/ implicit'[d] = "default" \/ d \in notRestored'
  BY <1>1, <1>4, <1>8, <1>9, <1>11 DEF Settled
<1> QED BY <1>1, <1>3, <1>10, <1>11 DEF Settled

-----------------------------------------------------------------------------
(* The steps keep the flow.                                                *)

\* What a request does to the parts that do not depend on the count.
LEMMA RequestFlows ==
  ASSUME QInv, Rest, NEW h \in Pollers, Ready(h), NEW new \in Jobs, OnlyJob(h, new),
         \/ UNCHANGED queue
         \/ \E s \in OpenedOrNone, what \in Commands :
              Sends(h, s, what) /\ WaitsFor(new, what, s),
         new.on \in OpenedOrNone, new.eye \in OpenedOrNone,
         new.at \in Overriding /\ driver # NoSession /\ new.eye = driver => new.on = driver
  PROVE  Awaited' /\ Known' /\ Fresh'
<1>1. WInv /\ Awaited /\ Known /\ Fresh /\ OpenedOrNone \subseteq MaybeSession
  BY DEF QInv, Flow, OpenedOrNone, MaybeSession, WInv, WaitTypeOK
<1>2. Awaited'
  BY <1>1, SendsAreAwaited
<1>3. Known'
  <2>1. job'[h] = new /\ \A g \in Pollers \ {h} : job'[g] = job[g]
    BY <1>1 DEF OnlyJob, WInv, WaitTypeOK
  <2> QED BY <1>1, <2>1 DEF Known, Rest, OpenedOrNone
<1>4. Fresh'
  <2>1. ASSUME NEW s \in Sessions \ opened PROVE queue'[s] = queue[s]
    BY <1>1, <2>1, NoSessionIsNone DEF Sends, OpenedOrNone, WInv, WaitTypeOK
  <2> QED BY <1>1, <2>1 DEF Fresh, Rest
<1> QED BY <1>2, <1>3, <1>4

\* A step in which a request neither enters nor leaves.
LEMMA GoingOnFlows ==
  ASSUME QInv, Rest, UNCHANGED overrides, NEW h \in Pollers, Ready(h),
         NEW at \in Awaiting \union {"idle"}, NEW on \in OpenedOrNone,
         NEW eye \in OpenedOrNone, NEW swipes \in 0..MaxSwipes,
         Became(h, at, on, eye, swipes),
         \/ UNCHANGED queue
         \/ \E s \in OpenedOrNone, what \in {"size", "look", "swipe"} :
              Sends(h, s, what) /\ WaitsFor(Job(at, on, eye, swipes), what, s),
         at \in Overriding /\ driver # NoSession /\ eye = driver => on = driver
  PROVE  Flow'
<1> DEFINE new == Job(at, on, eye, swipes)
<1>1. WInv /\ OpenedOrNone \subseteq MaybeSession
  BY DEF QInv, OpenedOrNone, MaybeSession, WInv, WaitTypeOK
<1>2. new \in Jobs /\ OnlyJob(h, new)
  BY <1>1, JobIsTyped DEF OnlyJob, Became
<1>3. new.at = at /\ new.on = on /\ new.eye = eye
  BY DEF Job
<1>4. \/ UNCHANGED queue
      \/ \E s \in OpenedOrNone, what \in Commands : Sends(h, s, what) /\ WaitsFor(new, what, s)
  BY DEF Commands
<1>5. \/ UNCHANGED queue
      \/ \E s \in OpenedOrNone, what \in {"size", "look", "swipe"} : Sends(h, s, what)
  OBVIOUS
<1> HIDE DEF new
<1>6. Awaited' /\ Known' /\ Fresh'
  BY <1>2, <1>3, <1>4, RequestFlows
<1>7. ASSUME driver # NoSession PROVE Settled(driver)'
  <2>1. driver \in Sessions /\ overrides[driver] \in Nat /\ overrides' = overrides
    BY <1>1, <1>7 DEF WInv, WaitTypeOK, MaybeSession
  <2>2. \/ queue'[driver] = queue[driver]
        \/ \E what \in {"size", "look", "swipe"} : Sends(h, driver, what)
    BY <1>1, <1>5, <2>1 DEF Sends, WInv, WaitTypeOK
  <2> QED BY <2>1, <2>2, QuietIsSettled
<1> QED BY <1>6, <1>7 DEF Flow, CurrentIsSettled, Rest

LEMMA EnteringFlows ==
  ASSUME QInv, NEW h \in Pollers, NEW eye \in OpenedOrNone, Ready(h), Enters(h, eye)
  PROVE  Flow'
<1> DEFINE d == driver
<1>1. /\ WInv /\ Known /\ Rest /\ d \in Sessions
      /\ overrides \in [Sessions -> Nat] /\ queue \in [Sessions -> Seq([who : Pollers, what : Commands])]
      /\ overrides' = [overrides EXCEPT ![d] = @ + 1]
  BY DEF QInv, Flow, Enters, Rest, WInv, WaitTypeOK, MaybeSession
<1>2. /\ d \in OpenedOrNone /\ OpenedOrNone \subseteq MaybeSession
      /\ 0 \in 0..MaxSwipes
  BY <1>1, MaxSwipesIsNatural DEF Known, OpenedOrNone, MaybeSession, WInv, WaitTypeOK
<1>3. overrides'[d] = overrides[d] + 1 /\ overrides[d] \in Nat
  BY <1>1
\* The first one lowers the wait.
<1>4. CASE ComesFirst(d) /\ Became(h, "lowering", d, eye, 0) /\ Sends(h, d, "lower")
  <2> DEFINE new == Job("lowering", d, eye, 0)
  <2>1. new \in Jobs /\ OnlyJob(h, new)
    BY <1>2, <1>4, JobIsTyped DEF OnlyJob, Became, Awaiting, Overriding
  <2>2. /\ new.on = d /\ new.eye = eye
        /\ WaitsFor(new, "lower", d) /\ "lower" \in Commands
    BY DEF Job, WaitsFor, Commands
  <2> HIDE DEF new
  <2>3. Awaited' /\ Known' /\ Fresh'
    BY <1>1, <1>2, <1>4, <2>1, <2>2, RequestFlows
  <2>4. Within(d) = {} /\ overrides'[d] = 1
    BY <1>1, <1>3, <1>4, CountedWithin DEF ComesFirst
  <2>5. Settled(d)'
    BY <1>1, <1>4, <2>4, NobodyLooks, ChangeIsSettled
  <2> QED BY <2>3, <2>5 DEF Flow, CurrentIsSettled
\* Any other looks at once.
<1>5. CASE ~ComesFirst(d) /\ StartsPolling(h, d, eye)
  <2>1. PICK at \in {"polling", "looking"}, through \in OpenedOrNone :
          /\ Became(h, at, d, through, 0) /\ Sends(h, through, "look")
    BY <1>2, <1>5 DEF StartsPolling, Looks
  <2> DEFINE new == Job(at, d, through, 0)
  <2>2. new \in Jobs /\ OnlyJob(h, new)
    <3>1. at \in Awaiting \union {"idle"}
      BY DEF Awaiting, Overriding
    <3> QED BY <1>2, <2>1, <3>1, JobIsTyped DEF OnlyJob, Became
  <2>3. /\ new.on = d /\ new.eye = through
        /\ WaitsFor(new, "look", through) /\ "look" \in Commands
    BY DEF Job, WaitsFor, Commands
  <2> HIDE DEF new
  <2>4. Awaited' /\ Known' /\ Fresh'
    BY <1>1, <1>2, <2>1, <2>2, <2>3, RequestFlows
  <2>5. overrides[d] > 0 /\ overrides'[d] > 0 /\ overrides'[d] \in Nat
    BY <1>3, <1>5 DEF ComesFirst
  <2>6. queue'[d] = queue[d] \/ Sends(h, d, "look")
    BY <1>1, <2>1 DEF Sends
  <2>7. Settled(d)'
    BY <1>1, <1>3, <2>5, <2>6, QuietIsSettled
  <2> QED BY <2>4, <2>7 DEF Flow, CurrentIsSettled
<1> QED BY <1>4, <1>5 DEF Enters

LEMMA LeavingFlows ==
  ASSUME QInv, NEW h \in Pollers, job[h].at \in Overriding, job[h].reply # "none",
         Leaves(h)
  PROVE  Flow'
<1> DEFINE s == job[h].on
<1>1. /\ WInv /\ Known /\ Rest /\ Ready(h) /\ s \in Sessions /\ s \in OpenedOrNone
      /\ overrides \in [Sessions -> Nat] /\ driver \in MaybeSession
      /\ overrides' = [overrides EXCEPT ![s] = @ - 1]
  BY DEF QInv, Flow, Known, Leaves, Rest, Ready, WInv, WaitTypeOK, Placed, OpenedOrNone
<1>2. /\ OpenedOrNone \subseteq MaybeSession /\ 0 \in 0..MaxSwipes
      /\ NoSession \in OpenedOrNone /\ h \in Within(s)
  BY <1>1, MaxSwipesIsNatural DEF OpenedOrNone, MaybeSession, WInv, WaitTypeOK, Within
<1>3. overrides[s] # 0
  BY <1>1, <1>2, CountedWithin
<1>4. CASE LastOne(s) /\ driver = s /\ Became(h, "restoring", s, s, 0) /\ Sends(h, s, "restore")
  <2> DEFINE new == Job("restoring", s, s, 0)
  <2>1. new \in Jobs /\ OnlyJob(h, new)
    BY <1>1, <1>2, <1>4, JobIsTyped DEF OnlyJob, Became, Awaiting, Overriding
  <2>2. /\ new.on = s /\ new.eye = s
        /\ WaitsFor(new, "restore", s) /\ "restore" \in Commands
    BY DEF Job, WaitsFor, Commands
  <2> HIDE DEF new
  <2>3. Awaited' /\ Known' /\ Fresh'
    BY <1>1, <1>2, <1>4, <2>1, <2>2, RequestFlows
  <2>4. Within(s) = {h}
    BY <1>1, <1>2, <1>4, CountedWithin DEF LastOne
  <2>5. overrides'[driver] = 0
    BY <1>1, <1>4 DEF LastOne
  <2>6. Settled(driver)'
    BY <1>1, <1>4, <2>4, <2>5, NobodyLooks, ChangeIsSettled
  <2> QED BY <2>3, <2>6 DEF Flow, CurrentIsSettled
<1>5. CASE ~(LastOne(s) /\ driver = s) /\ job' = [job EXCEPT ![h] = Idle] /\ UNCHANGED queue
  <2>1. Idle \in Jobs /\ OnlyJob(h, Idle)
    BY <1>2, <1>5, JobIsTyped DEF OnlyJob, Idle, MaybeSession
  <2>2. Idle.on = NoSession /\ Idle.eye = NoSession
    BY DEF Idle, Job
  <2>3. Awaited' /\ Known' /\ Fresh'
    BY <1>1, <1>2, <1>5, <2>1, <2>2, RequestFlows
  <2>4. ASSUME driver # NoSession PROVE Settled(driver)'
    <3>1. driver \in Sessions
      BY <1>1, <2>4 DEF MaybeSession
    <3>2. /\ overrides[driver] \in Nat /\ overrides'[driver] \in Nat
          /\ overrides'[driver] > 0 <=> overrides[driver] > 0
      BY <1>1, <1>3, <1>5, <3>1 DEF LastOne
    <3>3. queue'[driver] = queue[driver]
      BY <1>5
    <3> QED BY <1>1, <3>1, <3>2, <3>3, QuietIsSettled
  <2> QED BY <1>1, <2>3, <2>4 DEF Flow, CurrentIsSettled, Rest
<1> QED BY <1>4, <1>5 DEF Leaves

LEMMA RequestsFlow ==
  ASSUME QInv, NEW h \in Pollers, PollerStep(h) \/ WaitBegins(h) \/ ScrollBegins(h)
  PROVE  Flow'
<1> DEFINE on == job[h].on
           eye == job[h].eye
<1>1. /\ on \in OpenedOrNone /\ eye \in OpenedOrNone /\ driver \in OpenedOrNone
      /\ NoSession \in OpenedOrNone
      /\ job[h].swipes \in 0..MaxSwipes /\ 0 \in 0..MaxSwipes
      /\ job[h].at \in Overriding /\ driver # NoSession /\ eye = driver => on = driver
  BY MaxSwipesIsNatural DEF QInv, WInv, WaitTypeOK, Flow, Known, OpenedOrNone
<1> HIDE DEF on, eye
<1>2. CASE Lowered(h)
  <2>1. /\ Rest /\ UNCHANGED overrides /\ Ready(h) /\ job[h].at = "lowering"
        /\ StartsPolling(h, on, eye)
    BY <1>2 DEF Lowered, Stands, Ready, Rest, on, eye
  <2>2. PICK at \in {"polling", "looking"}, through \in OpenedOrNone :
          /\ Became(h, at, on, through, 0) /\ Sends(h, through, "look")
          /\ through = on \/ through = eye
    BY <1>1, <2>1 DEF StartsPolling, Looks
  <2>3. WaitsFor(Job(at, on, through, 0), "look", through)
    BY DEF WaitsFor, Job
  <2>4. driver # NoSession /\ through = driver => on = driver
    BY <1>1, <2>1, <2>2 DEF Overriding
  <2>5. at \in Awaiting \union {"idle"}
    BY DEF Awaiting, Overriding
  <2> QED BY <1>1, <2>1, <2>2, <2>3, <2>4, <2>5, GoingOnFlows
<1>3. CASE NotLowered(h)
  BY <1>3, LeavingFlows DEF NotLowered, Stands, Overriding
<1>4. CASE Restored(h) \/ ScrollOver(h)
  <2>1. /\ Became(h, "idle", NoSession, NoSession, 0) /\ Ready(h) /\ Rest
        /\ UNCHANGED <<overrides, queue>>
    BY <1>4 DEF Restored, ScrollOver, Became, Idle, Stands, Ready, Rest, appiumSide
  <2> QED BY <1>1, <2>1, GoingOnFlows DEF Overriding
<1>5. CASE PollsAgain(h)
  <2>1. /\ Rest /\ UNCHANGED overrides /\ Ready(h) /\ job[h].at = "polling"
        /\ Became(h, "polling", on, eye, 0) /\ Sends(h, eye, "look")
    BY <1>5 DEF PollsAgain, Stands, Ready, Rest, Looks, on, eye
  <2>2. WaitsFor(Job("polling", on, eye, 0), "look", eye)
    BY DEF WaitsFor, Job
  <2> QED BY <1>1, <2>1, <2>2, GoingOnFlows DEF Overriding, Awaiting
<1>6. CASE PollingEnds(h)
  BY <1>6, LeavingFlows DEF PollingEnds, Stands, Overriding
<1>7. CASE ScrollSized(h)
  BY <1>1, <1>7, EnteringFlows DEF ScrollSized, Stands, Ready, eye
<1>8. CASE ScrollsOnce(h)
  <2>1. /\ Rest /\ UNCHANGED overrides /\ Ready(h)
        /\ Became(h, "dragging", NoSession, eye, 0) /\ Sends(h, eye, "swipe")
    BY <1>8 DEF ScrollsOnce, Stands, Ready, Rest, eye
  <2>2. WaitsFor(Job("dragging", NoSession, eye, 0), "swipe", eye)
    BY DEF WaitsFor, Job
  <2> QED BY <1>1, <2>1, <2>2, GoingOnFlows DEF Overriding, Awaiting
<1>9. CASE Swipes(h)
  <2> DEFINE n == job[h].swipes + 1
  <2>1. /\ Rest /\ UNCHANGED overrides /\ Ready(h) /\ job[h].at = "looking"
        /\ Became(h, "swiping", on, eye, n) /\ Sends(h, eye, "swipe")
    BY <1>9 DEF Swipes, Stands, Ready, Rest, on, eye
  <2>2. n \in 0..MaxSwipes
    BY <1>1, <1>9, MaxSwipesIsNatural DEF Swipes, MaySwipe
  <2> HIDE DEF n
  <2>3. WaitsFor(Job("swiping", on, eye, n), "swipe", eye)
    BY DEF WaitsFor, Job
  <2> QED BY <1>1, <2>1, <2>2, <2>3, GoingOnFlows DEF Overriding, Awaiting
<1>10. CASE Swiped(h)
  <2> DEFINE n == job[h].swipes
  <2>1. /\ Rest /\ UNCHANGED overrides /\ Ready(h) /\ job[h].at = "swiping"
        /\ Became(h, "looking", on, eye, n) /\ Sends(h, eye, "look")
    BY <1>10 DEF Swiped, Stands, Ready, Rest, Looks, on, eye
  <2>2. n \in 0..MaxSwipes
    BY <1>1
  <2> HIDE DEF n
  <2>3. WaitsFor(Job("looking", on, eye, n), "look", eye)
    BY DEF WaitsFor, Job
  <2> QED BY <1>1, <2>1, <2>2, <2>3, GoingOnFlows DEF Overriding, Awaiting
<1>11. CASE ScrollingEnds(h)
  BY <1>11, LeavingFlows DEF ScrollingEnds, Stands, Overriding
<1>12. CASE WaitBegins(h)
  BY <1>1, <1>12, EnteringFlows DEF WaitBegins, Ready, Idle, Job
<1>13. CASE ScrollBegins(h)
  <2>1. /\ Rest /\ UNCHANGED overrides /\ Ready(h)
        /\ Became(h, "sizing", NoSession, driver, 0) /\ Sends(h, driver, "size")
    BY <1>13 DEF ScrollBegins, Ready, Rest, Idle, Job
  <2>2. WaitsFor(Job("sizing", NoSession, driver, 0), "size", driver)
    BY DEF WaitsFor, Job
  <2> QED BY <1>1, <2>1, <2>2, GoingOnFlows DEF Overriding, Awaiting
<1> QED BY <1>2, <1>3, <1>4, <1>5, <1>6, <1>7, <1>8, <1>9, <1>10, <1>11, <1>12, <1>13
        DEF PollerStep

LEMMA AnswersFlow ==
  ASSUME QInv, NEW s \in Sessions, Executes(s) \/ Refuses(s)
  PROVE  Flow'
<1>1. /\ WInv /\ Awaited /\ Known /\ Fresh /\ Takes(s)
      /\ UNCHANGED <<driver, opened, overrides>>
      /\ Effect(s) \/ UNCHANGED implicit
      /\ \E reply \in {"ok", "failed"} : Answers(Command(s).who, reply)
  BY DEF QInv, Flow, Executes, Refuses
<1>2. Awaited'
  BY <1>1, AnswersAreAwaited
<1>3. Known'
  <2>1. \A h \in Pollers : /\ job'[h].at = job[h].at /\ job'[h].on = job[h].on
                           /\ job'[h].eye = job[h].eye
    BY <1>1 DEF Answers, WInv, WaitTypeOK
  <2> QED BY <1>1, <2>1 DEF Known
<1>4. \A t \in Sessions \ {s} : queue'[t] = queue[t] /\ implicit'[t] = implicit[t]
  BY <1>1 DEF Takes, Effect, WInv, WaitTypeOK
<1>5. Fresh'
  <2>1. s \in opened
    BY <1>1 DEF Fresh, Takes
  <2> QED BY <1>1, <1>4, <2>1 DEF Fresh
<1>6. CurrentIsSettled'
  <2>1. CASE driver = s
    BY <1>1, <2>1, AnswerIsSettled DEF CurrentIsSettled
  <2>2. CASE driver # s
    <3> SUFFICES ASSUME driver # NoSession PROVE Settled(driver)'
      BY <1>1 DEF CurrentIsSettled
    <3>1. Settled(driver) /\ driver \in Sessions
      BY <1>1 DEF QInv, Flow, CurrentIsSettled, WInv, WaitTypeOK, MaybeSession
    <3>2. /\ queue'[driver] = queue[driver] /\ implicit'[driver] = implicit[driver]
          /\ driver \in notLowered' <=> driver \in notLowered
          /\ driver \in notRestored' <=> driver \in notRestored
      BY <1>4, <2>2, <3>1 DEF Executes, Refuses
    <3> QED BY <1>1, <3>1, <3>2 DEF Settled, InOrder, Sent
  <2> QED BY <2>1, <2>2
<1> QED BY <1>2, <1>3, <1>5, <1>6 DEF Flow

\* A session is new when it is connected: nothing was sent to it.
LEMMA ConnectFlows ==
  ASSUME QInv, NEW s \in Sessions, Connects(s)
  PROVE  Flow'
<1>1. /\ WInv /\ Awaited /\ Known /\ Fresh /\ s \notin opened /\ s # NoSession
      /\ driver' = s /\ opened' = opened \union {s}
      /\ UNCHANGED <<overrides, job, implicit, queue, notLowered, notRestored>>
  BY NoSessionIsNone DEF QInv, Flow, Connects, appiumSide
<1>2. Awaited' /\ Fresh'
  BY <1>1 DEF Awaited, Fresh, WaitsFor
<1>3. Known'
  BY <1>1 DEF Known
<1>4. Within(s) = {} /\ overrides[s] = 0
  <2>1. Within(s) = {}
    BY <1>1 DEF Within, Known
  <2> QED BY <1>1, <2>1, CountedWithin
<1>5. queue[s] = <<>> /\ implicit[s] = "default"
  BY <1>1 DEF Fresh
<1>6. Settled(s)'
  BY <1>1, <1>4, <1>5 DEF Settled, InOrder
<1> QED BY <1>1, <1>2, <1>3, <1>6 DEF Flow, CurrentIsSettled

LEMMA FlowSteps == QInv /\ [WaitNext]_waitVars => QInv'
<1> SUFFICES ASSUME QInv, [WaitNext]_waitVars PROVE Flow'
  BY WaitSteps DEF QInv
<1>1. CASE LosesSession
  BY <1>1 DEF LosesSession, QInv, Flow, Awaited, WaitsFor, Known, Fresh,
              CurrentIsSettled, appiumSide
<1>2. CASE UNCHANGED waitVars
  BY <1>2 DEF waitVars, daemonSide, appiumSide, QInv, Flow, Awaited, WaitsFor,
              Known, Fresh, CurrentIsSettled, Settled, InOrder, Sent
<1> QED BY <1>1, <1>2, ConnectFlows, AnswersFlow, RequestsFlow DEF WaitNext

LEMMA FlowStarts == WaitInit => Flow
BY DEF WaitInit, Flow, Awaited, Known, Fresh, CurrentIsSettled, Idle, Job

LEMMA FlowInvariant == WaitSpec => []QInv
<1>1. WaitInit => QInv
  BY WaitStarts, FlowStarts DEF QInv
<1> QED BY <1>1, FlowSteps, PTL DEF WaitSpec

(***************************************************************************)
(* No look of a poll or a scroll is executed on the current session while  *)
(* the implicit wait is in force, unless lowering it failed: also the look *)
(* of a request that found the count above zero and sent it at once.       *)
(***************************************************************************)
THEOREM AbsenceIsSeenAtOnce == WaitSpec => []PollsSeeAbsenceAtOnce
<1>1. QInv => PollsSeeAbsenceAtOnce
  <2> SUFFICES ASSUME QInv, NEW s \in Sessions, s = driver,
                      queue[s] # <<>>, Head(queue[s]).what = "look"
               PROVE  implicit[s] = "zero" \/ s \in notLowered
    BY DEF PollsSeeAbsenceAtOnce
  <2>1. WInv /\ Settled(s)
    BY NoSessionIsNone DEF QInv, Flow, CurrentIsSettled, Takes
  <2>2. Len(queue[s]) \in Nat /\ 1 \in 1..Len(queue[s]) /\ queue[s][1].what = "look"
    <3> DEFINE C == [who : Pollers, what : Commands]
    <3>1. queue[s] \in Seq(C)
      BY <2>1 DEF WInv, WaitTypeOK
    <3> HIDE DEF C
    <3>2. Len(queue[s]) \in Nat /\ Len(queue[s]) # 0
      BY <3>1, EmptySeq, LenProperties
    <3>3. queue[s][1] = Head(queue[s])
      BY <3>1
    <3> QED BY <3>2, <3>3
  <2>3. overrides[s] > 0
    <3>1. Within(s) # {}
      BY <2>2, LookersAreWithin
    <3>2. overrides[s] \in Nat /\ overrides[s] # 0
      BY <2>1, <3>1, CountedWithin DEF WInv, WaitTypeOK
    <3> QED BY <3>2
  <2>4. ~Sent(s, "lower")
    <3> SUFFICES ASSUME NEW i \in 1..Len(queue[s]), queue[s][i].what = "lower"
                 PROVE  FALSE
      BY DEF Sent
    <3>1. 1 < i
      BY <2>2
    <3> QED BY <2>1, <2>2, <3>1 DEF Settled, InOrder
  <2> QED BY <2>1, <2>3, <2>4 DEF Settled
<1> QED BY <1>1, FlowInvariant, PTL

(***************************************************************************)
(* When the last request on the current session has gone, and its commands *)
(* are executed, the implicit wait is restored, unless restoring failed:   *)
(* no overlap of requests leaves it at zero.                               *)
(***************************************************************************)
THEOREM LastOneRestores == WaitSpec => []WaitIsRestored
<1>1. QInv => WaitIsRestored
  <2> SUFFICES ASSUME QInv, driver # NoSession, Within(driver) = {}, queue[driver] = <<>>
               PROVE  implicit[driver] = "default" \/ driver \in notRestored
    BY DEF WaitIsRestored
  <2>1. WInv /\ Settled(driver) /\ driver \in Sessions
    BY DEF QInv, Flow, CurrentIsSettled, WInv, WaitTypeOK, MaybeSession
  <2>2. overrides[driver] = 0
    BY <2>1, CountedWithin
  <2>3. ~Sent(driver, "restore")
    BY DEF Sent
  <2> QED BY <2>1, <2>2, <2>3 DEF Settled
<1> QED BY <1>1, FlowInvariant, PTL
=============================================================================
