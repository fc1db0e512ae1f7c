----------------------------- MODULE OneSession -----------------------------
(***************************************************************************)
(* What the daemon's session manager promises, free of heartbeats,         *)
(* timeouts and concurrent callers: one session at a time.  A connect      *)
(* opens a session only while none is held and no other connect is under   *)
(* way, the session it ends up holding is the one Appium opened for it,    *)
(* and a session that was given up never comes back.                       *)
(***************************************************************************)
CONSTANTS Sessions,   \* the session ids an Appium server may hand out
          NoSession   \* stands for `null`

VARIABLES stage,      \* "free", "connecting" or "held"
          session,    \* the session opened by the connect, then held
          used        \* the session ids ever handed out

vars == <<stage, session, used>>

Init == /\ stage = "free"
        /\ session = NoSession
        /\ used = {}

Begin == /\ stage = "free"
         /\ stage' = "connecting"
         /\ UNCHANGED <<session, used>>

Open(s) == /\ stage = "connecting"
           /\ session = NoSession
           /\ s \notin used
           /\ session' = s
           /\ used' = used \union {s}
           /\ UNCHANGED stage

Hold == /\ stage = "connecting"
        /\ session # NoSession
        /\ stage' = "held"
        /\ UNCHANGED <<session, used>>

\* A connect that fails, and a held session that is ended or lost.
GiveUp == /\ stage # "free"
          /\ stage' = "free"
          /\ session' = NoSession
          /\ UNCHANGED used

Next == Begin \/ Hold \/ GiveUp \/ \E s \in Sessions : Open(s)

Spec == Init /\ [][Next]_vars
=============================================================================
