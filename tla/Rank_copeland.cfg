SPECIFICATION Spec
CONSTANTS
  Tables <- CodecTables
  RankModes <- FullMode
  Top = 1000
INVARIANT CopelandPrimary
CHECK_DEADLOCK FALSE
