SPECIFICATION MCSpec
CONSTANTS
  Pollers = {h1, h2, h3}
  Sessions = {s1, s2}
  NoSession = NoSession
  MaxSwipes = 1
  Windows <- MCWindows
  Requests <- MCRequests
SYMMETRY Alike
INVARIANTS
  WaitTypeOK
  CountIsTheNumberWithin
  PollsSeeAbsenceAtOnce
  WaitIsRestored
  SwipesStayOnScreen
  SwipesGoTheDistance
  CliOutwaitsTheScroll
CHECK_DEADLOCK FALSE
