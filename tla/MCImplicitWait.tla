--------------------------- MODULE MCImplicitWait ---------------------------
(***************************************************************************)
(* TLC's instances of ImplicitWait and Gestures.  They share no variable,  *)
(* so instead of their product a behaviour runs one of the two.            *)
(***************************************************************************)
EXTENDS ImplicitWait, Gestures, TLC

Base == [direction |-> "down", percent |-> 60, target |-> FALSE, maxSwipes |-> 10,
         duration |-> 600]
MCRequests ==
  {[Base EXCEPT !.direction = d, !.percent = p] :
     d \in Directions, p \in {0, 1, 33, 50, 60, 94, 95, 96, 100}}
  \union {[Base EXCEPT !.target = TRUE, !.maxSwipes = n, !.duration = t] :
            n \in {1, 10, 50, 51}, t \in {0, 600, 5000}}

\* The two directions of a swipe are computed apart: squares cover them.
Phones == {<<411, 731>>, <<731, 411>>}
MCWindows == {[width |-> s[1], height |-> s[2]] : s \in Phones \union {<<n, n>> : n \in 1..40}}

Alike == Permutations(Pollers) \union Permutations(Sessions)

NoScroll == [at |-> "none", req |-> Base, swipe |-> Origin, swipes |-> 0,
             spent |-> 0, turned |-> FALSE]
NoWindow == [width |-> 1, height |-> 1]

MCInit == WaitInit /\ (GestureInit \/ (scroll = NoScroll /\ window = NoWindow))

MCNext == \/ scroll = NoScroll /\ WaitNext /\ UNCHANGED gestureVars
          \/ scroll # NoScroll /\ GestureNext /\ UNCHANGED waitVars

MCSpec == MCInit /\ [][MCNext]_<<waitVars, gestureVars>>
=============================================================================
