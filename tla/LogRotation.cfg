CONSTANTS
  Threads = {t1, t2}
  NumSlots = 3
  LogSize = 1
  MaxLines = 14
  MaxCrashes = 2
  MaxFails = 1
SPECIFICATION Spec
CHECK_DEADLOCK FALSE
INVARIANT WellFormed
INVARIANT ArchivesKept
INVARIANT AbandonedOnlyUnread
PROPERTY WriteEnds
