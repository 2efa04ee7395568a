CONSTANTS
  Keys = {k1, k2, k3}
  Values = {v1, v2}
  Ttls = {0, 1}
  MaxEntries = 2
  Null = Null
  Horizon = 2
  MaxOps = 6
SPECIFICATION Spec
SYMMETRY KeySymmetry
INVARIANTS
  Bounded
  RecentlyUsedIsKept
PROPERTIES
  AnswersAreCurrent
CHECK_DEADLOCK FALSE
