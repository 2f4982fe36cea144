SPECIFICATION Spec
CONSTANTS
 Coders = {"shrc", "fastari", "fpaqc", "subotin", "fqz0", "ppmdec", "vecrc", "fastac", "fasthf", "fpc", "fpc0"}
 Inputs <- MCInputs
 MinCode = 2
 DMShift = 4
 AcTable = 1
 HfMaxCount = 16
 HfTable = 2
 SymNum = 16
 NUM_STREAMS = 3
 MAX_BIT_LEN = 5
 MIN_COMPRESSIBLE_SIZE = 6
 ADAPTIVE_STEP = 8
 BLOCK_OVERHEAD = 4
 FlatLen = 4
 NibbleMax = 9
 U16MAX = 31
 BlockSize = 30
 Bits = 2
 SCALElog = 4
 Rate = 2
 ProbBits = 4
 ORDER = 3
 ADAPT = 2
 N = 3
 TBits = 5
 FRate = 2
 InvBits = 8
 B = 5
 NSym = 4
 Incr = 2
 MaxFreq = 16
 FqzMaxFreq = 14
 STEP = 2
 Bubble = 2
 UP_FREQ = 2
 PpmBOT = 16
 VScale = 3
 VRate = 1
INVARIANTS RoundTrips ModelsInStep ReciprocalsDivide
CHECK_DEADLOCK FALSE
