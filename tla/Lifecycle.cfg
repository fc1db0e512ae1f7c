SPECIFICATION LifecycleSpec
CONSTANTS
  Starters = {p1, p2}
  NoLock = NoLock
  Faults = {"crash", "slow", "signal"}
  Ports = {1, 2}
  NoPort = 0
  NoFile = NoFile
  Blank = Blank
  Nobody = Nobody
  Killers = {k1}
SYMMETRY Alike
INVARIANTS
  LifecycleTypeOK
  OneStarterUntilStolen
  EndedStartsHoldNoLock
  RecordedUnlessAccident
  KilledMeansStopped
CHECK_DEADLOCK FALSE
