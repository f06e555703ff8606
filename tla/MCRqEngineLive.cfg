CONSTANTS
  SegUnits = 2
  WrUnits <- MCWrUnits
  SEQ_NUM_FLAG = 1
  TX_SEQ_NUM_COUNT = 1
  FifoDepth = 2
SPECIFICATION FairSpec
PROPERTIES
  ReadsComeBack
  WritesGoWhenReadsRest
