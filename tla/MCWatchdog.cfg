CONSTANTS
  Check = 2
  Stall = 3
  WallSecs = 1
  MaxLoops = 2
  MaxChanges = 3

SPECIFICATION FairSpec

INVARIANT StallCaught

PROPERTIES
  NoFalseAlarm
  GuardEnds

CHECK_DEADLOCK FALSE
