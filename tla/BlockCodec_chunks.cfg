SPECIFICATION FairSpec
CONSTANTS
  W16 = 4
  W32 = 64
  Files <- MergedFiles
  Opts <- ModeOpts
  CodecRet <- SmallRet
  Garbage <- SmallGarbage
  Slack = 8
INVARIANT LengthsAreLengths
CHECK_DEADLOCK FALSE
