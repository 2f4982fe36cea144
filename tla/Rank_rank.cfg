SPECIFICATION Spec
CONSTANTS
  Tables <- SortedTables
  RankModes <- Modes
  Top = 1000
INVARIANTS TypeOK PointsGivenAway DominatedIsBehind RankIsPlace
CHECK_DEADLOCK FALSE
