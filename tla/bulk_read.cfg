CONSTANTS
  HeaderLen = 2
  GroupSize = 2
  GarbageLen = 50
  ChunkBudget = 6
  MaxCarry = 4
  Estimates = {4, 9}
  Files <- MCFiles
SPECIFICATION Spec
CHECK_DEADLOCK FALSE
INVARIANT RowsAreExact
INVARIANT NothingLost
INVARIANT ChunkFitsBudget
INVARIANT SoundFilesAreRead
PROPERTY BulkReturns
