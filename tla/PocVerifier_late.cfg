CONSTANTS
  States = {s1, s2}
  Posts = {p1}
  Kinds = {"valid"}
  Ttl = 2
  SweepPeriod = 2
  LastOpen = 0
  Horizon = 4
  Fetches = {f1, f2}
  NoState = NoState
SPECIFICATION PocSpec
CHECK_DEADLOCK FALSE
PROPERTIES
  PolledToItsOwnEnd
