SPECIFICATION DaemonSpec
CONSTANTS
  NoSession = NoSession
  Sessions = {s1, s2}
  Handlers = {h1}
  Beats = {b1}
  Enders = {}
  FailureLimit = 2
  IdleLimit = 0
  Finders = {f1}
  MaxMatches = 2
INVARIANT ReferencesAreCurrent
CHECK_DEADLOCK FALSE
