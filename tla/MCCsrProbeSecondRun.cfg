CONSTANTS
  MaxRuns = 2
  Timeout = 2

SPECIFICATION Spec

INVARIANT PassIsRoundTrip

CHECK_DEADLOCK FALSE
