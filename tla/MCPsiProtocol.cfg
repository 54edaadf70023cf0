SPECIFICATION Spec
CONSTANTS
  Item <- MCItem
  ClientKey <- MCClientKey
  ServerKey <- MCServerKey
  ClientInputs <- MCClientInputs
  ServerInputs <- MCServerInputs
  Orders <- MCOrders
  MaxSetups = 1
  MaxRequests = 2
  MaxResponses = 2
  c1 = c1
  c2 = c2
  s1 = s1
  s2 = s2
SYMMETRY KeySymmetry
INVARIANTS
  IntersectionIsTrue
  TableLeadsBack
  MatchAgrees
  StrangersShareNothing
  SizeOnlyLearnsSize
  OrderIsHidden
