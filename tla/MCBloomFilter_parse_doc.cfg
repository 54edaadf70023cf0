SPECIFICATION Spec
CONSTANTS
  CharSize = 2
  Element <- MCElement
  Digests <- MCDigests
  Rates <- MCRates
  MaxElements <- MCMaxElements
  ClientCounts <- MCClientCounts
  Inputs <- MCInputs
INVARIANTS
  ParsedHasBits
CHECK_DEADLOCK FALSE
