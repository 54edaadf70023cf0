SPECIFICATION Spec
CONSTANTS
  Byte <- MCByte
  SetupWindows <- FramingWindows
  ResponseWindows <- FramingResponses
  MaxSent = 8
  MaxElementBytes = 2
  MaxVarintBytes = 2
  BatchElements = 2
  MinInputsForThreads = 2
  MaxElements = 2
  Decrypt <- MCDecrypt
  Undecryptable = Undecryptable
  LegalSetups <- Legal
INVARIANTS
  SealedSetupIsWhole
  LegalSetupsAreAccepted
PROPERTIES
  RefusalIsFinal
CHECK_DEADLOCK FALSE
