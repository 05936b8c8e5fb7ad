CONSTANTS
  IntBits = 2
  MAX_INT = 2
  N = 3
  K = 3
  BulkMax = 2
  MaxScans = 1
SPECIFICATION Spec
CHECK_DEADLOCK FALSE
INVARIANT RangeExact
