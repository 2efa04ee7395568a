CONSTANTS
  Leaves <- MCLeaves
  CaCerts <- MCCaCerts
  MaxPathLen = 1
  NoLimit = NoLimit
  MaxPool = 3
  MaxAnchors = 2
SPECIFICATION Spec
CHECK_DEADLOCK FALSE
INVARIANTS
  ReturnedChainIsValid
  FailureMeansNoPath
PROPERTIES
  EndsWithoutCircle
