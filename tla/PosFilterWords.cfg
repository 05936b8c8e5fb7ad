CONSTANTS
  IntBits = 2
  MAX_INT = 4
  MaxPos = 10
SPECIFICATION Spec
INVARIANT WellFormed
INVARIANT ReadInOrder
PROPERTY ImplementsBlock
