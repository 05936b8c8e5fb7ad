CONSTANTS
  IntBits = 2
  MAX_INT = 2
  N = 9
  K = 2
  BulkMax = 2
  MaxScans = 2
SPECIFICATION Spec
CHECK_DEADLOCK FALSE
INVARIANT TypeOK
INVARIANT FilterSound
INVARIANT ScanComplete
INVARIANT EqualityExact
INVARIANT ScanSound
PROPERTY FetchedOnce
PROPERTY LossOnlyByShift
PROPERTY ScanEnds
