CONSTANTS
  Indices <- MCIndices
  VectorCount = 3
  RetryLimit = 1
  StsMax = 1
  MaxIrqs = 3
  NoIrq = NoIrq
  TableSize = 2
  LateWrites = {"send"}

SPECIFICATION SysSpec

INVARIANTS
  SysTypeOK
  NoInterruptLost

PROPERTIES
  AnswersMatch
  DeferredDelivered
  RequestsEnd

CHECK_DEADLOCK FALSE
