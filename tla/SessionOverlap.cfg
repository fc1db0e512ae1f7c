SPECIFICATION FairSpec
CONSTANTS
  NoSession = NoSession
  Sessions = {s1, s2}
  Handlers = {h1, h2}
  Beats = {b1, b2}
  Enders = {e1}
  FailureLimit = 3
  IdleLimit = 1
INVARIANTS
  TypeOK
  OneStartAtATime
  SessionIsWatched
  BeatsNeverStack
  FailuresAreItsOwn
PROPERTIES
  HoldsOneSession
  HeartbeatDiscardsTheUnresponsive
  DeadSessionIsDropped
  IdleSessionIsEnded
