CONSTANTS
  None = None
  at = at
  be = be
  Countries = {at, be}
  Callers = {e1, e2}
  Refreshes = {r1, r2}
  NoRefresh = NoRefresh
  Interval = 1
  Horizon = 1
  Cert <- MCCert
  Services <- MCServices
  Statics <- MCStatics
  Inputs <- MCInputs
SPECIFICATION EvaluatorSpec
CHECK_DEADLOCK FALSE
INVARIANTS
  SingleFlight
  StaleOnlyAfterFailure
  ServedWasLoaded
  AnchorIsTheTerminus
  RefusedMeansNoAnchor
  ProvenanceIsOfTheAnchor
PROPERTIES
  RejectedOnlyUnloaded
  EvaluationsEnd
