SPECIFICATION ListSpec
CONSTANTS
  Kinds <- MCKinds
  Variants <- MCKinds
  Bounds = TRUE
  MaxElements <- MCMaxElements
  MaxCopies = 1
INVARIANTS
  SameShapeSameSubtree
CHECK_DEADLOCK FALSE
