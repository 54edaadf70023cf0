SPECIFICATION GolombSpec
CONSTANTS
  CharSize = 3
  Hash <- MCHash
  Div <- MCDiv
  ServerSizes <- MCServerSizes
  ClientSizes <- MCClientSizes
INVARIANTS
  BytesInBounds
  CursorAtWordEnd
  IntersectionIsExact
CHECK_DEADLOCK FALSE
