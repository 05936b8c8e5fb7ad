CONSTANTS
  N = 4
  MaxByte = 2
SPECIFICATION Spec
CHECK_DEADLOCK FALSE
INVARIANT WellFormed
INVARIANT BoundsExact
INVARIANT ThrowsWithoutSuccessor
