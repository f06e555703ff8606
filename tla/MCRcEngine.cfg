CONSTANTS
  Builds <- MCBuilds
  Beats <- MCBeats

SPECIFICATION Spec

INVARIANT FinishedLeave

PROPERTY ImplementsStream
