CONSTANTS
  Leaves <- MCLeaves
  CaCerts <- MCCaCerts
  MaxPathLen = 1
  NoLimit = NoLimit
  MaxPool = 2
  MaxAnchors = 2
SPECIFICATION Spec
CHECK_DEADLOCK FALSE
PROPERTIES
  SearchEnds
