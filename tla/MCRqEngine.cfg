CONSTANTS
  SegUnits = 2
  WrUnits <- MCWrUnits
  SEQ_NUM_FLAG = 2
  TX_SEQ_NUM_COUNT = 2
  FifoDepth = 2
SPECIFICATION Spec
VIEW MCView
INVARIANTS
  TypeOK
  FramingLegal
  EverySeqOnce
PROPERTIES
  ImplementsStreams
