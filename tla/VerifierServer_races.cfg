CONSTANTS
  States = {s1}
  Posts = {p1, p2}
  Kinds = {"valid", "tampered", "rejected", "illTyped", "fault", "encrypted", "denial", "empty"}
  Ttl = 2
  SweepPeriod = 2
  LastOpen = 1
  Horizon = 5
SPECIFICATION Spec
CHECK_DEADLOCK FALSE
SYMMETRY PostSymmetry
INVARIANTS
  TypeOK
  OneVerdict
  StoreMatchesLedger
  ReplayRefusalIsTrue
  RetentionBound
PROPERTIES
  PollsNeverGoBack
