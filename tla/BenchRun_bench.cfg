SPECIFICATION Spec
CONSTANTS
  t1 = t1
  t2 = t2
  b1 = b1
  b2 = b2
  Thread <- MCThread
  Block <- MCBlock
  NoBlock = NoBlock
  Size = {1, 2}
  SizeMax = 16
  StackHere = 1
  WorkStatic = 2
  FA_WORKMEM = 3
  ScratchSize = 1
  Runs <- MCRuns
  Result <- MCResult
SYMMETRY Symm
INVARIANTS TypeOK CountersHold CodecIsPrepared NothingLeft SumsAddUp MemoryOfCodec
CHECK_DEADLOCK FALSE
