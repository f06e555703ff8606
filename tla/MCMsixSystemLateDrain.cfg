CONSTANTS
  Indices <- MCIndices
  VectorCount = 3
  RetryLimit = 1
  StsMax = 1
  MaxIrqs = 3
  NoIrq = NoIrq
  TableSize = 2
  LateWrites = {"send", "drain"}

SPECIFICATION SysSpec

INVARIANTS
  NoInterruptLost


CHECK_DEADLOCK FALSE
