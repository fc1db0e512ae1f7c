SPECIFICATION RefSpec
CONSTANTS
  Elements <- MCElements
  Texts = {"same", "other"}
  TextOf <- MCTextOf
  NoText = NoText
  NoElement = NoElement
  NoRef = NoRef
  Screens <- MCScreens
  Refs = {r1}
  Users = {h1, h2}
SYMMETRY Alike
INVARIANTS
  RefTypeOK
  ActsOnTheSameText
  FollowsOrRefuses
CHECK_DEADLOCK FALSE
