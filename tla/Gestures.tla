------------------------------ MODULE Gestures ------------------------------
(***************************************************************************)
(* The numbers of a scroll: where a swipe begins and ends, and how long    *)
(* the CLI waits for a scroll that may swipe many times.  One request is   *)
(* followed through its handler, each of whose commands takes as long as   *)
(* it is allowed; the device may be rotated under it.  A fraction of the   *)
(* screen is in hundredths, times are in milliseconds.                     *)
(***************************************************************************)
EXTENDS Integers

Directions == {"up", "down", "left", "right"}

CONSTANTS Windows,  \* the sizes of screens
          Requests  \* the scroll requests that clients make

\* `target' tells that the scroll is to bring an element into view.
ASSUME GestureInputs ==
  /\ Windows \subseteq [width : Nat, height : Nat]
  /\ Requests \subseteq [direction : Directions, percent : Nat, target : BOOLEAN,
                         maxSwipes : Nat, duration : Nat]

VARIABLES
  window,  \* the size of the screen at present
  scroll   \* the request under way, its vector, and the time it has taken

gestureVars == <<window, scroll>>

-----------------------------------------------------------------------------
(* swipeVector().                                                          *)

\* Math.round(n / d).
Round(n, d) == (2 * n + d) \div (2 * d)

Centre(size) == Round(size, 2)
\* How far from the centre a swipe begins, and ends.
Reach_NotHalved(size, percent) == Round(size * percent, 100)
Reach(size, percent) == Round(size * percent, 200)

\* To scroll down is to drag the finger up.
SwipeVector(direction, percent, w) ==
  LET cx == Centre(w.width)
      cy == Centre(w.height)
      dx == Reach(w.width, percent)
      dy == Reach(w.height, percent)
      Drag(x1, y1, x2, y2) == [startX |-> x1, startY |-> y1, endX |-> x2, endY |-> y2] IN
  CASE direction = "down"  -> Drag(cx, cy + dy, cx, cy - dy)
    [] direction = "up"    -> Drag(cx, cy - dy, cx, cy + dy)
    [] direction = "right" -> Drag(cx + dx, cy, cx - dx, cy)
    [] direction = "left"  -> Drag(cx - dx, cy, cx + dx, cy)

Origin == [startX |-> 0, startY |-> 0, endX |-> 0, endY |-> 0]

-----------------------------------------------------------------------------
(* The limits of a request, and the time the CLI gives it.                 *)

MaxPercent_Whole == 100
MaxPercent == 95
\* parseBody(): other requests are refused.
Allowed == {req \in Requests : /\ 0 < req.percent /\ req.percent <= MaxPercent
                               /\ req.maxSwipes \in 1..50}

CliRequestTimeout == 30000
CheckAllowance == 3000
PauseBeforeMove == 50

ScrollTimeout_OneSwipe(req) == CliRequestTimeout + req.duration + CheckAllowance
ScrollTimeout(req) ==
  CliRequestTimeout
  + (IF req.target THEN req.maxSwipes ELSE 1) * (req.duration + CheckAllowance)

-----------------------------------------------------------------------------
(* POST /actions/scroll.                                                   *)

\* `turned': the screen was rotated after its size was read.
Scroll(at, req) ==
  [at |-> at, req |-> req, swipe |-> Origin, swipes |-> 0, spent |-> 0, turned |-> FALSE]

GestureInit ==
  /\ window \in Windows
  /\ \E req \in Allowed : scroll = Scroll("sizing", req)

\* The commands before, after and between the swipes take their allowance; a
\* check of whether the target is in view does so as a whole.
Spends(here, there, time) ==
  /\ scroll.at = here
  /\ UNCHANGED window
  /\ scroll' = [scroll EXCEPT !.at = there, !.spent = @ + time]

SizeIsRead ==
  /\ scroll.at = "sizing"
  /\ scroll' = [scroll EXCEPT
       !.at = IF scroll.req.target THEN "lowering" ELSE "swiping",
       !.swipe = SwipeVector(scroll.req.direction, scroll.req.percent, window),
       !.spent = @ + CheckAllowance]
  /\ UNCHANGED window

WaitIsLowered == Spends("lowering", "checking", CheckAllowance)

MaySwipeAgain == scroll.swipes < scroll.req.maxSwipes

NotInView == /\ MaySwipeAgain
             /\ Spends("checking", "swiping", CheckAllowance)

\* In view, or not and out of swipes.
LoopEnds == Spends("checking", "restoring", CheckAllowance)

\* performSwipe(): the pause with the finger down, then the move.
SwipeEnds ==
  /\ scroll.at = "swiping"
  /\ scroll' = [scroll EXCEPT !.at = IF scroll.req.target THEN "checking" ELSE "over",
                              !.swipes = @ + 1,
                              !.spent = @ + PauseBeforeMove + scroll.req.duration]
  /\ UNCHANGED window

WaitIsBack == Spends("restoring", "over", CheckAllowance)

Rotated == [width |-> window.height, height |-> window.width]
Rotates ==
  /\ scroll.at # "over"
  /\ Rotated \in Windows \ {window}
  /\ window' = Rotated
  /\ scroll' = [scroll EXCEPT !.turned = scroll.at # "sizing"]

GestureNext ==
  \/ SizeIsRead \/ WaitIsLowered \/ NotInView \/ LoopEnds
  \/ SwipeEnds \/ WaitIsBack \/ Rotates

GestureSpec == GestureInit /\ [][GestureNext]_gestureVars

-----------------------------------------------------------------------------
(* Properties.                                                             *)

OnScreen(v, w) == /\ v.startX \in 0..w.width /\ v.endX \in 0..w.width
                  /\ v.startY \in 0..w.height /\ v.endY \in 0..w.height

(***************************************************************************)
(* A swipe "stays inside the screen for the largest allowed percent", on   *)
(* every screen, also where both roundings go up, unless the screen was    *)
(* rotated after its size was read: all swipes of a scroll share a vector. *)
(***************************************************************************)
SwipesStayOnScreen ==
  scroll.at = "swiping" /\ ~scroll.turned => OnScreen(scroll.swipe, window)

\* Straight, and `size * percent / 100' far.
GoesFar(req, v, w) ==
  LET right == v.startX - v.endX
      down == v.startY - v.endY
      About(travel, size) == 100 * travel - size * req.percent \in -100..100 IN
  CASE req.direction = "down"  -> right = 0 /\ About(down, w.height)
    [] req.direction = "up"    -> right = 0 /\ About(-down, w.height)
    [] req.direction = "right" -> down = 0 /\ About(right, w.width)
    [] req.direction = "left"  -> down = 0 /\ About(-right, w.width)

(***************************************************************************)
(* A swipe goes straight, against the direction of the scroll, and to      *)
(* within a pixel over the requested fraction of the screen.               *)
(***************************************************************************)
SwipesGoTheDistance ==
  scroll.at = "swiping" /\ ~scroll.turned => GoesFar(scroll.req, scroll.swipe, window)

(***************************************************************************)
(* The CLI never aborts "a scroll the daemon is still legitimately         *)
(* running": also with every swipe made, and with every check and every    *)
(* command around the loop as slow as a check is allowed to be.            *)
(***************************************************************************)
CliOutwaitsTheScroll == scroll.spent <= ScrollTimeout(scroll.req)
=============================================================================
