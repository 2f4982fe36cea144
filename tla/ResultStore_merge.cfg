SPECIFICATION Spec
CONSTANTS
  k1 = k1
  k2 = k2
  k3 = k3
  Key <- ThreeKeys
  Known <- TwoKeys
  Size <- Sizes
  Length <- Lengths
  Time <- Times
  Memory <- Memories
  Measured <- SomeMeasured
  PLUGN = 3
  MaxRuns = 3
  MaxKills = 1
INVARIANTS TypeOK OneLinePerKey OwnResults
PROPERTY BestResultsSpec
SYMMETRY Alike
CHECK_DEADLOCK FALSE
