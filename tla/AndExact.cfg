CONSTANTS
  IntBits = 2
  MAX_INT = 2
  N = 6
  Spans = {{1, 2, 3, 4, 5, 6}}
  Operands = 2
SPECIFICATION Spec
CHECK_DEADLOCK FALSE
INVARIANT AndExact
