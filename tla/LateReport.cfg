SPECIFICATION Spec
CONSTANTS
  NoSession = NoSession
  Sessions = {s1, s2}
  Handlers = {h1, h2}
  Beats = {b1}
  Enders = {}
  FailureLimit = 3
  IdleLimit = 0
PROPERTY ReportDropsTheReported
