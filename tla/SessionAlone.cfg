SPECIFICATION Spec
CONSTANTS
  NoSession = NoSession
  Sessions = {s1, s2, s3}
  Handlers = {h1}
  Beats = {b1, b2}
  Enders = {}
  FailureLimit = 3
  IdleLimit = 0
SYMMETRY Interchangeable
INVARIANTS
  NoSessionLeaked
  NoStrayInterval
PROPERTIES
  ReportDropsTheReported
