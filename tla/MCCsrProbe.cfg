CONSTANTS
  MaxRuns = 2
  Timeout = 2

SPECIFICATION Spec

INVARIANTS
  TypeOK
  FreshPassIsRoundTrip
  DmaEndsWithPage
  CommandAsFound

PROPERTY PollSeesCompletion

CHECK_DEADLOCK FALSE
