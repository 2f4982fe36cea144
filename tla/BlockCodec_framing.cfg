SPECIFICATION FairSpec
CONSTANTS
  W16 = 4
  W32 = 64
  Files <- SmallFiles
  Opts <- SmallOpts
  CodecRet <- SmallRet
  Garbage <- SmallGarbage
  Slack = 8
INVARIANTS TypeOK FramingInv InStep FailureShows AllConsumed BlocksApart EndsAsSaid
PROPERTIES RoundTripSpec Terminates
CHECK_DEADLOCK FALSE
