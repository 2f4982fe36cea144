SPECIFICATION Spec
CONSTANTS
  k1 = k1
  k2 = k2
  k3 = k3
  Key <- ThreeKeys
  Known <- ThreeKeys
  Size <- Sizes
  Length <- Lengths
  Time <- Times
  Memory <- Memories
  Measured <- OneMeasured
  PLUGN = 1
  MaxRuns = 3
  MaxKills = 0
INVARIANT TableHolds
CHECK_DEADLOCK FALSE
