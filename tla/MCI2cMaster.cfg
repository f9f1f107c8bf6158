SPECIFICATION Spec
CONSTANTS
  r1 = r1
  r2 = r2
  Registers = {r1, r2}
  Bytes <- MCBytes
  HalRetries = 2
  SccbRetries = 2
  MaxCalls = 2
INVARIANTS
  CoreFree
  FailedForCause
PROPERTIES
  ImplementsPort
  CallsEnd
CHECK_DEADLOCK FALSE
