CONSTANTS
  Checks = {c1, c2}
  CrlCount = 2
  MaxAge = 1
  CrlLife = 1
  MinTtl = 1
  MaxOcspTtl = 2
  Horizon = 2
SPECIFICATION Spec
CHECK_DEADLOCK FALSE
SYMMETRY CheckSymmetry
INVARIANTS
  VerdictsAreCurrent
  RequireFailsClosed
  PreferTriesEverything
