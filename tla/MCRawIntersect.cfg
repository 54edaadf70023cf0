SPECIFICATION Spec
CONSTANTS
  Value <- MCValue
  Sizes <- MCSizes
  SetupSizes <- MCSetupSizes
INVARIANTS
  IntersectionIsExact
CHECK_DEADLOCK FALSE
