SPECIFICATION Spec
CONSTANTS
  Byte <- MCByte
  SetupWindows <- WholeSetups
  ResponseWindows <- MatchingWindows
  MaxSent = 8
  MaxElementBytes = 2
  MaxVarintBytes = 2
  BatchElements = 2
  MinInputsForThreads = 2
  MaxElements = 3
  Decrypt <- MCDecrypt
  Undecryptable = Undecryptable
  LegalSetups <- Legal
INVARIANTS
  TypeOK
  MatchedExactly
  ResultOfMessages
PROPERTIES
  CallReturns
CHECK_DEADLOCK FALSE
