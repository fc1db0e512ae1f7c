SPECIFICATION TreeSpec
CONSTANTS
  Kinds <- MCKinds
  Variants <- MCVariants
  Bounds = TRUE
  MaxElements = 4
  MaxCopies = 4
INVARIANTS
  TreeTypeOK
  ParsesWhatIsMeant
  PrintsEveryTarget
  RowsLineUp
  SummariesLoseNothing
  SummariesAreShorter
CHECK_DEADLOCK FALSE
