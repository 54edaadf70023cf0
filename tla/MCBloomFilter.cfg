SPECIFICATION Spec
CONSTANTS
  CharSize = 2
  Element <- MCElement
  Digests <- MCDigests
  Rates <- MCRates
  MaxElements <- MCMaxElements
  ClientCounts <- MCClientCounts
  Inputs <- MCInputs
INVARIANTS
  TypeOK
  NeverForgets
  AbortsOnlyWhenMadeForNone
CHECK_DEADLOCK FALSE
