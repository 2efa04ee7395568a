CONSTANTS
  None = None
  NotADate = NotADate
  Now = 3
  Disclosures <- MCDisclosures
  Properties <- MCProperties
  Elements <- MCElements
  RefKv <- MCRefKv
  RefElems <- MCRefElems
  HonestCases <- MCHonestCases
  Departures <- MCDepartures
SPECIFICATION Spec
CHECK_DEADLOCK FALSE
INVARIANTS
  LeftoverIsUnreferenced
  AcceptedIsReferenced
  AcceptedAnswersThisRequest
  AcceptedIsVouchedFor
  HonestAnswerIsAccepted
  SentRequestIsBacked
PROPERTY
  EveryAnswerIsJudged
