SPECIFICATION Spec
CONSTANTS
  NoSession = NoSession
  Sessions = {s1, s2}
  Handlers = {h1}
  Beats = {b1}
  Enders = {}
  FailureLimit = 3
  IdleLimit = 1
INVARIANT NoSessionLeaked
