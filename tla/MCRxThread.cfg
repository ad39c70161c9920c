SPECIFICATION FairSpec
CONSTANTS
  FifoSize = 1
  MaxChunks = 2
CHECK_DEADLOCK FALSE
INVARIANTS TypeOK NoUseAfterFree OneMoreCallback ForeignIsOld StreamHasReader
PROPERTIES InOrder ReleaseEnds
