CONSTANTS
  Half = 4
  SopDw = 2
  BusBeats <- MCBusBeats
SPECIFICATION CcSpec
VIEW MCView
INVARIANTS
  CcTypeOK
  HoldsMidPacketOnly
PROPERTIES
  ImplementsStream
