CONSTANTS
  HeaderLen = 2
  GroupSize = 2
  GarbageLen = 5
  Files <- MCFiles
SPECIFICATION Spec
CHECK_DEADLOCK FALSE
INVARIANT TypeOK
INVARIANT SendsNeverBlock
INVARIANT RecvHasJobUntilError
INVARIANT RowsAreExact
INVARIANT FirstErrorIsNear
PROPERTY CallsReturn
PROPERTY DropCompletes
PROPERTY ImplementsRecordStream
