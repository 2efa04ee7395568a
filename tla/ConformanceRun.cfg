SPECIFICATION Spec
CONSTANTS
  None = None
  StatusIs4xx = "EnsureHttpStatusCodeIs4xx"
  Checks <- MCChecks
  Allowed <- MCAllowed
  WaitingTimeout = 2
  FinishedTimeout = 2
  PollInterval = 1
  MaxPosts = 2
INVARIANTS
  GreenIsEarned
  DivergenceIsNarrow
  RedIsDeserved
PROPERTIES
  RunEnds
CHECK_DEADLOCK FALSE
