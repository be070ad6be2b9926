CONSTANTS
  BufUnit = 4
  LenField = 3
  PtrSize = 3
  BufferSize = 12
  Lengths <- MCLengths
  MaxMsgs = 3
  MaxIntr = 1
SPECIFICATION FairSpec
INVARIANTS
  TypeOK
  BufferIntact
  QuietMeansDelivered
  NormalCloseLosesNothing
PROPERTIES
  DeliversInOrder
  ArrivedIsPicked
CHECK_DEADLOCK FALSE
