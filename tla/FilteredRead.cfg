CONSTANTS
  IntBits = 1
  MAX_INT = 3
  N = 5
  Columns = 2
  PageMax = 3
SPECIFICATION Spec
CHECK_DEADLOCK FALSE
INVARIANT WellFormed
INVARIANT RowsExact
INVARIANT LateScanCrashes
PROPERTY Ends
