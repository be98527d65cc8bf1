SPECIFICATION Spec
CONSTANTS
  k1 = k1
INVARIANTS
  ProcessSafe
PROPERTIES
  CallReturns
CHECK_DEADLOCK FALSE
