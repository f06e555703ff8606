CONSTANTS
  Indices <- MCIndices
  VectorCount = 2
  RetryLimit = 2
  StsMax = 4
  MaxIrqs = 5
  NoIrq = NoIrq

SPECIFICATION FairSpec

INVARIANTS
  TypeOK
  Conservation
  FailuresExplained

PROPERTIES
  VectorStable
  ReadyAgain
  Implements
