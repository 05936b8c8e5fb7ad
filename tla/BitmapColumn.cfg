CONSTANTS
  IntBits = 1
  MAX_INT = 2
  N = 7
  K = 2
  PageBlocks = 2
  ValPage = 3
  MaxScans = 2
SPECIFICATION Spec
CHECK_DEADLOCK FALSE
INVARIANT TypeOK
INVARIANT PagesInOrder
INVARIANT RowsKept
INVARIANT FirstScanExact
INVARIANT ScanSound
