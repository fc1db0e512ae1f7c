SPECIFICATION DaemonSpec
CONSTANTS
  NoSession = NoSession
  Sessions = {s1, s2}
  Handlers = {h1}
  Beats = {b1}
  Enders = {e1}
  FailureLimit = 2
  IdleLimit = 0
  Finders = {f1, f2}
  MaxMatches = 2
SYMMETRY Alike
INVARIANTS
  DaemonTypeOK
  CleanExitReleasesTheDevice
  ShutdownLetsGo
  ReferencesDieWithTheirSession
CHECK_DEADLOCK FALSE
