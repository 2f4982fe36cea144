SPECIFICATION FairSpec
CONSTANTS
  Opts <- SomeOpts
  RepCalls = 3
  CallTime <- SomeTimes
  NoGain = 3
  Long = 8
  Inf = Inf
INVARIANTS TypeOK MeanOfFastest RunsFit EarlyStop
PROPERTY Terminates
CHECK_DEADLOCK FALSE
