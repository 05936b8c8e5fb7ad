CONSTANTS
  IntBits = 1
  MAX_INT = 2
  N = 4
  K = 2
  PageBlocks = 2
  ValPage = 3
  MaxScans = 1
SPECIFICATION Spec
CHECK_DEADLOCK FALSE
INVARIANT FirstScanComplete
