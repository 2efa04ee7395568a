CONSTANTS
  Countries = {at}
  Callers = {a1}
  Refreshes = {r1, r2}
  NoRefresh = NoRefresh
  Interval = 1
  Horizon = 2
SPECIFICATION Spec
CHECK_DEADLOCK FALSE
PROPERTIES
  FailedRefreshKeepsLists
