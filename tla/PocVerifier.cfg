CONSTANTS
  States = {s1}
  Posts = {p1, p2}
  Kinds = {"valid", "tampered"}
  Ttl = 2
  SweepPeriod = 1
  LastOpen = 0
  Horizon = 3
  Fetches = {f1, f2}
  NoState = NoState
SPECIFICATION PocSpec
CHECK_DEADLOCK FALSE
INVARIANTS
  QrIsWatched
  DoneIsEarned
  ShownResultIsEarned
PROPERTIES
  VerdictNeverFlips
  PollingEnds
  ImplementsOneShot
