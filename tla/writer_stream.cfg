CONSTANTS
  BlockSize = 3
  GroupSize = 2
  MaxRows = 5
  Batches <- MCBatches
SPECIFICATION Spec
CHECK_DEADLOCK FALSE
INVARIANT TypeOK
INVARIANT IndexMarksGroups
INVARIANT RecordsSplitOnlyIfLonger
INVARIANT BlocksFitBuffers
INVARIANT CountCommitsLast
INVARIANT FinishedFileIsReadable
