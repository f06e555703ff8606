CONSTANTS
  Builds <- MCBuilds
  BusBeats <- MCBusBeats
  Beats <- MCBeats
SPECIFICATION CqSpec
VIEW MCView
INVARIANTS
  CqTypeOK
  SkidInv
  LastMarksEop
  QuarterGridFits
PROPERTIES
  ImplementsFifo
  ImplementsStream
  InputReopens
