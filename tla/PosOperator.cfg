CONSTANTS
  IntBits = 3
  MAX_INT = 2
  N = 13
  Spans = {{1, 8, 12, 13}, {6, 7, 11, 12}, {7, 8, 9}}
  Operands = 3
SPECIFICATION Spec
INVARIANT WellFormed
INVARIANT ResultSound
INVARIANT ResultExact
PROPERTY TurnsMoveOn
