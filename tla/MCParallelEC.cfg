SPECIFICATION Spec
CONSTANTS
  InputCounts <- MCInputCounts
  HardwareThreads <- MCHardwareThreads
  MinInputsForThreads = 2
  MinInputsPerThread = 1
  Batch = 2
INVARIANTS
  TypeOK
  OutcomeIsSequential
  CipherConfined
  NoShardOutlivesCall
  KeyOutlivesClones
  ProgressIsExact
PROPERTIES
  ProgressMonotone
  ImplementsElementMap
