--------------------------- MODULE GesturesProofs ---------------------------
(***************************************************************************)
(* On screens of every size, with every allowed fraction, a swipe begins   *)
(* and ends on the screen.                                                 *)
(***************************************************************************)
EXTENDS Gestures, TLAPS

\* Rounding to the nearest: at most half a unit off.
LEMMA RoundIsNear ==
  ASSUME NEW n \in Nat, NEW d \in {2, 200}
  PROVE  /\ Round(n, d) \in Nat
         /\ 2 * d * Round(n, d) <= 2 * n + d
         /\ 2 * n + d < 2 * d * Round(n, d) + 2 * d
<1>1. CASE d = 2
  BY <1>1, SMT DEF Round
<1>2. CASE d = 200
  BY <1>2, SMT DEF Round
<1> QED BY <1>1, <1>2

LEMMA ReachFits ==
  ASSUME NEW size \in Nat, NEW percent \in Nat, percent <= MaxPercent
  PROVE  /\ Centre(size) \in Nat /\ Reach(size, percent) \in Nat
         /\ Centre(size) - Reach(size, percent) \in 0..size
         /\ Centre(size) + Reach(size, percent) \in 0..size
<1> DEFINE c == Centre(size)
           r == Reach(size, percent)
           t == size * percent
<1>1. percent \in Nat /\ percent <= 95
  BY DEF MaxPercent
<1>2. t \in Nat /\ t <= 95 * size
  <2>1. t \in Nat
    BY <1>1, SMT
  <2>2. size * percent <= size * 95
    BY <1>1, SMT
  <2> QED BY <2>1, <2>2, SMT
<1>3. c \in Nat /\ 4 * c <= 2 * size + 2 /\ 2 * size + 2 < 4 * c + 4
  <2>1. \A n \in Nat : /\ Round(n, 2) \in Nat
                        /\ 2 * 2 * Round(n, 2) <= 2 * n + 2
                        /\ 2 * n + 2 < 2 * 2 * Round(n, 2) + 2 * 2
    BY RoundIsNear
  <2>2. c = Round(size, 2)
    BY DEF Centre
  <2> HIDE DEF c
  <2> QED BY <2>1, <2>2, SMT
<1>4. r \in Nat /\ 400 * r <= 2 * t + 200
  <2>1. \A n \in Nat : Round(n, 200) \in Nat /\ 2 * 200 * Round(n, 200) <= 2 * n + 200
    BY RoundIsNear
  <2>2. r = Round(t, 200)
    BY DEF Reach
  <2> HIDE DEF r, t
  <2> QED BY <1>2, <2>1, <2>2, SMT
<1> HIDE DEF c, r, t
<1>5. 400 * r <= 190 * size + 200
  BY <1>2, <1>4, SMT
<1>6. r <= c /\ c + r <= size
  BY <1>3, <1>5, <1>4, SMT
<1> QED BY <1>3, <1>4, <1>6, SMT DEF c, r

\* A vector that was computed for the screen as it is lies on it.
LEMMA VectorFits ==
  ASSUME NEW direction \in Directions, NEW percent \in Nat, percent <= MaxPercent,
         NEW w \in [width : Nat, height : Nat]
  PROVE  OnScreen(SwipeVector(direction, percent, w), w)
<1> DEFINE cx == Centre(w.width)
           cy == Centre(w.height)
           dx == Reach(w.width, percent)
           dy == Reach(w.height, percent)
<1>1. w.width \in Nat /\ w.height \in Nat
  OBVIOUS
<1>2. cx \in Nat /\ dx \in Nat /\ cx - dx \in 0..w.width /\ cx + dx \in 0..w.width
  BY <1>1, ReachFits
<1>3. cy \in Nat /\ dy \in Nat /\ cy - dy \in 0..w.height /\ cy + dy \in 0..w.height
  BY <1>1, ReachFits
<1>4. cx \in 0..w.width /\ cy \in 0..w.height
  <2> HIDE DEF cx, cy, dx, dy
  <2> QED BY <1>1, <1>2, <1>3, SMT
<1>5. CASE direction = "down"
  BY <1>2, <1>3, <1>4, <1>5 DEF SwipeVector, OnScreen
<1>6. CASE direction = "up"
  BY <1>2, <1>3, <1>4, <1>6 DEF SwipeVector, OnScreen
<1>7. CASE direction = "left"
  BY <1>2, <1>3, <1>4, <1>7 DEF SwipeVector, OnScreen
<1>8. CASE direction = "right"
  BY <1>2, <1>3, <1>4, <1>8 DEF SwipeVector, OnScreen
<1> QED BY <1>5, <1>6, <1>7, <1>8 DEF Directions

\* Twice the rounded half is to within a pixel the whole.
LEMMA ReachIsNear ==
  ASSUME NEW size \in Nat, NEW percent \in Nat
  PROVE  /\ Reach(size, percent) \in Nat
         /\ 100 * (2 * Reach(size, percent)) - size * percent \in -100..100
<1> DEFINE t == size * percent
           r == Reach(size, percent)
<1>1. t \in Nat
  BY SMT
<1>2. r = Round(t, 200)
  BY DEF Reach
<1> HIDE DEF t, r
<1>3. r \in Nat /\ 400 * r <= 2 * t + 200 /\ 2 * t + 200 < 400 * r + 400
  <2>1. \A n \in Nat : /\ Round(n, 200) \in Nat
                       /\ 2 * 200 * Round(n, 200) <= 2 * n + 200
                       /\ 2 * n + 200 < 2 * 200 * Round(n, 200) + 2 * 200
    BY RoundIsNear
  <2> QED BY <1>1, <1>2, <2>1, SMT
<1>4. 100 * (2 * r) - t \in -100..100
  BY <1>1, <1>3, SMT
<1> QED BY <1>3, <1>4 DEF t, r

LEMMA VectorGoes ==
  ASSUME NEW req, req.direction \in Directions, req.percent \in Nat,
         NEW w \in [width : Nat, height : Nat]
  PROVE  GoesFar(req, SwipeVector(req.direction, req.percent, w), w)
<1> DEFINE p == req.percent
           cx == Centre(w.width)
           cy == Centre(w.height)
           dx == Reach(w.width, p)
           dy == Reach(w.height, p)
<1>1. w.width \in Nat /\ w.height \in Nat /\ p \in Nat
  OBVIOUS
<1>2. cx \in Nat /\ cy \in Nat
  BY <1>1, RoundIsNear DEF Centre
<1>3. /\ dx \in Nat /\ 100 * (2 * dx) - w.width * p \in -100..100
      /\ dy \in Nat /\ 100 * (2 * dy) - w.height * p \in -100..100
  BY <1>1, ReachIsNear
<1>4. /\ (cx + dx) - (cx - dx) = 2 * dx /\ (cy + dy) - (cy - dy) = 2 * dy
      /\ -((cx - dx) - (cx + dx)) = 2 * dx /\ -((cy - dy) - (cy + dy)) = 2 * dy
      /\ cx - cx = 0 /\ cy - cy = 0
  <2> HIDE DEF cx, cy, dx, dy
  <2> QED BY <1>2, <1>3, SMT
<1> HIDE DEF cx, cy, dx, dy
<1> DEFINE v == SwipeVector(req.direction, p, w)
<1>5. CASE req.direction = "down"
  <2>1. v = [startX |-> cx, startY |-> cy + dy, endX |-> cx, endY |-> cy - dy]
    BY <1>5 DEF SwipeVector, cx, cy, dy
  <2> QED BY <1>3, <1>4, <1>5, <2>1 DEF GoesFar
<1>6. CASE req.direction = "up"
  <2>1. v = [startX |-> cx, startY |-> cy - dy, endX |-> cx, endY |-> cy + dy]
    BY <1>6 DEF SwipeVector, cx, cy, dy
  <2> QED BY <1>3, <1>4, <1>6, <2>1 DEF GoesFar
<1>7. CASE req.direction = "right"
  <2>1. v = [startX |-> cx + dx, startY |-> cy, endX |-> cx - dx, endY |-> cy]
    BY <1>7 DEF SwipeVector, cx, cy, dx
  <2> QED BY <1>3, <1>4, <1>7, <2>1 DEF GoesFar
<1>8. CASE req.direction = "left"
  <2>1. v = [startX |-> cx - dx, startY |-> cy, endX |-> cx + dx, endY |-> cy]
    BY <1>8 DEF SwipeVector, cx, cy, dx
  <2> QED BY <1>3, <1>4, <1>8, <2>1 DEF GoesFar
<1> QED BY <1>5, <1>6, <1>7, <1>8 DEF Directions

-----------------------------------------------------------------------------
(* The vector is kept from the moment the size was read.                   *)

\* A record of these fields.
IsScroll(s) ==
  /\ DOMAIN s = {"at", "req", "swipe", "swipes", "spent", "turned"}
  /\ s = [at |-> s.at, req |-> s.req, swipe |-> s.swipe,
          swipes |-> s.swipes, spent |-> s.spent, turned |-> s.turned]

GInv ==
  /\ window \in Windows
  /\ IsScroll(scroll)
  /\ scroll.req \in Allowed
  /\ scroll.at # "sizing" /\ ~scroll.turned => /\ OnScreen(scroll.swipe, window)
                                              /\ GoesFar(scroll.req, scroll.swipe, window)

LEMMA VectorIsKept == GestureSpec => []GInv
<1>1. GestureInit => GInv
  BY DEF GestureInit, GInv, IsScroll, Scroll
<1>2. GInv /\ [GestureNext]_gestureVars => GInv'
  <2> SUFFICES ASSUME GInv, [GestureNext]_gestureVars PROVE GInv'
    OBVIOUS
  <2>1. CASE SizeIsRead
    <3>1. /\ scroll.req.direction \in Directions
          /\ scroll.req.percent \in Nat /\ scroll.req.percent <= MaxPercent
          /\ window \in [width : Nat, height : Nat]
      BY GestureInputs DEF GInv, Allowed
    <3>2. OnScreen(SwipeVector(scroll.req.direction, scroll.req.percent, window), window)
      BY <3>1, VectorFits
    <3>3. GoesFar(scroll.req, SwipeVector(scroll.req.direction, scroll.req.percent, window),
                  window)
      BY <3>1, VectorGoes
    <3> QED BY <2>1, <3>2, <3>3 DEF SizeIsRead, GInv, IsScroll
  <2>2. CASE WaitIsLowered \/ NotInView \/ LoopEnds \/ WaitIsBack
    BY <2>2 DEF WaitIsLowered, NotInView, LoopEnds, WaitIsBack, Spends, GInv, IsScroll
  <2>3. CASE SwipeEnds
    BY <2>3 DEF SwipeEnds, GInv, IsScroll
  <2>4. CASE Rotates
    BY <2>4 DEF Rotates, GInv, IsScroll
  <2>5. CASE UNCHANGED gestureVars
    BY <2>5 DEF gestureVars, GInv, OnScreen, GoesFar, IsScroll
  <2> QED BY <2>1, <2>2, <2>3, <2>4, <2>5 DEF GestureNext
<1> QED BY <1>1, <1>2, PTL DEF GestureSpec

(***************************************************************************)
(* Whatever its direction and however often it is repeated, a swipe of any *)
(* allowed fraction "stays inside the screen": swipeVector() under the     *)
(* bound of the request's schema.                                          *)
(***************************************************************************)
THEOREM SwipesAreOnScreen == GestureSpec => []SwipesStayOnScreen
<1>1. GInv => SwipesStayOnScreen
  BY DEF GInv, SwipesStayOnScreen
<1> QED BY <1>1, VectorIsKept, PTL

(***************************************************************************)
(* On every screen, a swipe of any allowed fraction goes straight and, to  *)
(* within a pixel, as far as it was asked to.                              *)
(***************************************************************************)
THEOREM SwipesAreAsAsked == GestureSpec => []SwipesGoTheDistance
<1>1. GInv => SwipesGoTheDistance
  BY DEF GInv, SwipesGoTheDistance
<1> QED BY <1>1, VectorIsKept, PTL

-----------------------------------------------------------------------------
(* The time a scroll takes grows with its swipes, and stays within what    *)
(* the CLI allows for them.                                                *)

\* So many swipes, each with the check that follows it.
SwipesTake(n, req) == n * (PauseBeforeMove + req.duration + CheckAllowance)

\* The time a request may have taken where it is.
InTime(at, req, n, spent) ==
  /\ at \in {"lowering", "checking", "restoring"} => req.target
  /\ at = "sizing" => n = 0 /\ spent = 0
  /\ at = "lowering" => n = 0 /\ spent = CheckAllowance
  /\ at = "checking" =>
       n <= req.maxSwipes /\ spent <= 2 * CheckAllowance + SwipesTake(n, req)
  /\ at = "swiping" /\ req.target =>
       n < req.maxSwipes /\ spent <= 3 * CheckAllowance + SwipesTake(n, req)
  /\ at = "swiping" /\ ~req.target => spent <= CheckAllowance
  /\ at = "restoring" => spent <= 3 * CheckAllowance + SwipesTake(req.maxSwipes, req)
  /\ at = "over" /\ req.target =>
       spent <= 4 * CheckAllowance + SwipesTake(req.maxSwipes, req)
  /\ at = "over" /\ ~req.target => spent <= CheckAllowance + PauseBeforeMove + req.duration

Places == {"sizing", "lowering", "checking", "swiping", "restoring", "over"}

TimeInv ==
  /\ IsScroll(scroll)
  /\ scroll.at \in Places /\ scroll.req \in Allowed
  /\ scroll.swipes \in Nat /\ scroll.spent \in Nat
  /\ InTime(scroll.at, scroll.req, scroll.swipes, scroll.spent)

LEMMA RequestIsTyped ==
  ASSUME NEW req \in Allowed
  PROVE  req.maxSwipes \in 1..50 /\ req.duration \in Nat /\ req.target \in BOOLEAN
BY GestureInputs DEF Allowed

LEMMA Grows ==
  ASSUME NEW n \in Nat, NEW m \in Nat, NEW each \in Nat, n <= m
  PROVE  n * each \in Nat /\ n * each <= m * each /\ (n + 1) * each = n * each + each
<1>1. PICK k \in Nat : m = n + k
  BY m - n \in Nat, m = n + (m - n)
<1>2. m * each = n * each + k * each /\ k * each >= 0
  BY <1>1, SMT
<1> QED BY <1>2, SMT

LEMMA SwipesGrow ==
  ASSUME NEW req \in Allowed, NEW n \in Nat, NEW m \in Nat, n <= m
  PROVE  /\ SwipesTake(n, req) \in Nat
         /\ SwipesTake(n, req) <= SwipesTake(m, req)
         /\ SwipesTake(n + 1, req) = SwipesTake(n, req) + 3050 + req.duration
         /\ SwipesTake(0, req) = 0
<1> DEFINE each == PauseBeforeMove + req.duration + CheckAllowance
<1>1. req.duration \in Nat /\ each \in Nat /\ each = 3050 + req.duration
  BY RequestIsTyped, SMT DEF PauseBeforeMove, CheckAllowance
<1> HIDE DEF each
<1>2. n * each \in Nat /\ n * each <= m * each /\ (n + 1) * each = n * each + each
  BY <1>1, Grows
<1>3. 0 * each = 0
  BY <1>1, SMT
<1>4. \A i : SwipesTake(i, req) = i * each
  BY DEF SwipesTake, each
<1> QED BY <1>1, <1>2, <1>3, <1>4, SMT

\* Where a step leaves a request, and after how many swipes and what time.
Moves(at, n, spent) ==
  /\ IsScroll(scroll')
  /\ scroll'.at = at /\ scroll'.req = scroll.req
  /\ scroll'.swipes = n /\ scroll'.spent = spent

LEMMA NewTime ==
  ASSUME TimeInv, NEW at \in Places, NEW n \in Nat, NEW spent \in Nat,
         Moves(at, n, spent), InTime(at, scroll.req, n, spent)
  PROVE  TimeInv'
BY DEF TimeInv, Moves

LEMMA TimeStep == TimeInv /\ [GestureNext]_gestureVars => TimeInv'
<1> SUFFICES ASSUME TimeInv, [GestureNext]_gestureVars PROVE TimeInv'
  OBVIOUS
<1> DEFINE req == scroll.req
           n == scroll.swipes
           took == scroll.spent
<1>1. /\ req \in Allowed /\ req.maxSwipes \in 1..50 /\ req.duration \in Nat
      /\ req.target \in BOOLEAN /\ n \in Nat /\ took \in Nat
      /\ req.maxSwipes \in Nat /\ InTime(scroll.at, req, n, took)
  BY RequestIsTyped DEF TimeInv
<1>2. /\ SwipesTake(n, req) \in Nat /\ SwipesTake(0, req) = 0
      /\ SwipesTake(n + 1, req) = SwipesTake(n, req) + 3050 + req.duration
  BY <1>1, SwipesGrow, SMTT(30)
<1>3. n <= req.maxSwipes => SwipesTake(n, req) <= SwipesTake(req.maxSwipes, req)
  <2> HIDE DEF n, req
  <2> QED BY <1>1, SwipesGrow
<1>4. SwipesTake(req.maxSwipes, req) \in Nat
  <2>1. req.maxSwipes <= req.maxSwipes
    BY <1>1
  <2> HIDE DEF req
  <2> QED BY <1>1, <2>1, SwipesGrow, SMTT(30)
<1>5. ASSUME NEW here, NEW there, NEW time, Spends(here, there, time)
      PROVE  scroll.at = here /\ Moves(there, n, took + time)
  BY <1>5 DEF Spends, TimeInv, Moves, IsScroll
<1>6. CASE SizeIsRead
  <2> DEFINE at == IF req.target THEN "lowering" ELSE "swiping"
  <2>1. scroll.at = "sizing" /\ Moves(at, n, took + CheckAllowance)
    BY <1>6 DEF SizeIsRead, TimeInv, Moves, IsScroll
  <2>2. InTime(at, req, n, took + CheckAllowance)
    BY <1>1, <2>1 DEF InTime, CheckAllowance
  <2> QED BY <1>1, <2>1, <2>2, NewTime DEF Places, CheckAllowance
<1>7. CASE WaitIsLowered
  <2>1. scroll.at = "lowering" /\ Moves("checking", n, took + CheckAllowance)
    BY <1>5, <1>7 DEF WaitIsLowered
  <2>2. InTime("checking", req, n, took + CheckAllowance)
    BY <1>1, <1>2, <2>1 DEF InTime, CheckAllowance
  <2> QED BY <1>1, <2>1, <2>2, NewTime DEF Places, CheckAllowance
<1>8. CASE NotInView
  <2>1. /\ scroll.at = "checking" /\ n < req.maxSwipes
        /\ Moves("swiping", n, took + CheckAllowance)
    BY <1>5, <1>8 DEF NotInView, MaySwipeAgain
  <2>2. InTime("swiping", req, n, took + CheckAllowance)
    BY <1>1, <1>2, <2>1 DEF InTime, CheckAllowance
  <2> QED BY <1>1, <2>1, <2>2, NewTime DEF Places, CheckAllowance
<1>9. CASE LoopEnds
  <2>1. scroll.at = "checking" /\ Moves("restoring", n, took + CheckAllowance)
    BY <1>5, <1>9 DEF LoopEnds
  <2>2. InTime("restoring", req, n, took + CheckAllowance)
    BY <1>1, <1>2, <1>3, <1>4, <2>1 DEF InTime, CheckAllowance
  <2> QED BY <1>1, <2>1, <2>2, NewTime DEF Places, CheckAllowance
<1>10. CASE SwipeEnds
  <2> DEFINE at == IF req.target THEN "checking" ELSE "over"
             spent == took + PauseBeforeMove + req.duration
  <2>1. scroll.at = "swiping" /\ Moves(at, n + 1, spent)
    BY <1>10 DEF SwipeEnds, TimeInv, Moves, IsScroll
  <2>2. InTime(at, req, n + 1, spent)
    BY <1>1, <1>2, <2>1 DEF InTime, CheckAllowance, PauseBeforeMove
  <2>3. spent \in Nat /\ n + 1 \in Nat
    BY <1>1 DEF PauseBeforeMove
  <2> QED BY <2>1, <2>2, <2>3, NewTime DEF Places
<1>11. CASE WaitIsBack
  <2>1. scroll.at = "restoring" /\ Moves("over", n, took + CheckAllowance)
    BY <1>5, <1>11 DEF WaitIsBack
  <2>2. InTime("over", req, n, took + CheckAllowance)
    BY <1>1, <1>4, <2>1 DEF InTime, CheckAllowance
  <2> QED BY <1>1, <2>1, <2>2, NewTime DEF Places, CheckAllowance
<1>12. CASE Rotates
  BY <1>12 DEF Rotates, TimeInv, IsScroll
<1>13. CASE UNCHANGED gestureVars
  BY <1>13 DEF gestureVars, TimeInv
<1> QED BY <1>6, <1>7, <1>8, <1>9, <1>10, <1>11, <1>12, <1>13 DEF GestureNext

(***************************************************************************)
(* For every request the schema allows, with any duration: the CLI never   *)
(* aborts "a scroll the daemon is still legitimately running".             *)
(***************************************************************************)
THEOREM CliIsPatient == GestureSpec => []CliOutwaitsTheScroll
<1>1. GestureInit => TimeInv
  <2> SUFFICES ASSUME GestureInit PROVE TimeInv
    OBVIOUS
  <2>1. PICK req \in Allowed : scroll = Scroll("sizing", req)
    BY DEF GestureInit
  <2> QED BY <2>1 DEF TimeInv, IsScroll, Scroll, Places, InTime
<1>2. TimeInv => CliOutwaitsTheScroll
  <2> SUFFICES ASSUME TimeInv PROVE scroll.spent <= ScrollTimeout(scroll.req)
    BY DEF CliOutwaitsTheScroll
  <2> DEFINE req == scroll.req
             n == scroll.swipes
             m == req.maxSwipes
             d == req.duration
  <2>1. /\ req \in Allowed /\ m \in 1..50 /\ m \in Nat /\ d \in Nat /\ n \in Nat
        /\ req.target \in BOOLEAN /\ scroll.spent \in Nat /\ scroll.at \in Places
        /\ InTime(scroll.at, req, n, scroll.spent)
    BY RequestIsTyped DEF TimeInv
  <2>2. /\ SwipesTake(m, req) \in Nat /\ SwipesTake(n, req) \in Nat
        /\ n <= m => SwipesTake(n, req) <= SwipesTake(m, req)
    <3>1. n <= n /\ m <= m
      BY <2>1
    <3> HIDE DEF n, m, req
    <3> QED BY <2>1, <3>1, SwipesGrow
  <2>3. SwipesTake(m, req) <= m * (d + 3000) + 2500 /\ 0 <= m * (d + 3000)
    <3>1. SwipesTake(m, req) = m * (3050 + d)
      BY <2>1 DEF SwipesTake, PauseBeforeMove, CheckAllowance
    <3> HIDE DEF m, d
    <3>2. m * (3050 + d) = m * (d + 3000) + 50 * m /\ 0 <= m * (d + 3000)
      BY <2>1, SMT
    <3> QED BY <2>1, <3>1, <3>2, SMT
  <2>4. /\ req.target => ScrollTimeout(req) = 30000 + m * (d + 3000)
        /\ ~req.target => ScrollTimeout(req) = 33000 + d
    BY <2>1 DEF ScrollTimeout, CliRequestTimeout, CheckAllowance
  <2>5. CASE req.target
    <3>1. scroll.spent <= 12000 + SwipesTake(m, req)
      BY <2>1, <2>2, <2>5 DEF InTime, Places, CheckAllowance
    <3> DEFINE limit == m * (d + 3000)
               total == SwipesTake(m, req)
    <3>2. limit \in Nat /\ total <= limit + 2500
      BY <2>1, <2>3, SMT
    <3>3. ScrollTimeout(req) = 30000 + limit
      BY <2>4, <2>5
    <3> HIDE DEF limit, total
    <3> QED BY <2>1, <2>2, <3>1, <3>2, <3>3, SMT DEF total
  <2>6. CASE ~req.target
    BY <2>1, <2>4, <2>6 DEF InTime, Places, CheckAllowance, PauseBeforeMove
  <2> QED BY <2>1, <2>5, <2>6
<1> QED BY <1>1, <1>2, TimeStep, PTL DEF GestureSpec
=============================================================================
