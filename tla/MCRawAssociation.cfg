SPECIFICATION Spec
CONSTANTS
  Value <- MCValue
  Sizes <- MCSizes
  SetupSizes <- MCSetupSizes
INVARIANTS
  ReadsInBounds
  TableIsExact
  SortedByPermutation
PROPERTIES
  InPlaceOnce
  JoinEnds
CHECK_DEADLOCK FALSE
