SPECIFICATION Spec
CONSTANTS
  Calls <- MCCalls
  Chunks = 2
INVARIANTS TypeOK Served Verdict
CHECK_DEADLOCK FALSE
