SPECIFICATION LockSpec
CONSTANTS
  NoLock = NoLock
  Starters = {p1, p2, p3}
  Faults = {"crash"}
INVARIANT OneStarter
CHECK_DEADLOCK FALSE
