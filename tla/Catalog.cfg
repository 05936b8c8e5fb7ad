CONSTANTS
  Makers = {m1, m2}
  Names = {a, b}
  Nobody = Nobody
  Pages = {p1, p2}
  NumColumns = 2
  MaxCalls = 3
  MaxFails = 1
  MaxCrashes = 1
SPECIFICATION Spec
CHECK_DEADLOCK FALSE
INVARIANT TypeOK
INVARIANT DeadlockOnlyByIndex
PROPERTY IsAtomic
PROPERTY CallEnds
PROPERTY UsableOnceUsed
