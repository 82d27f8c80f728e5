SPECIFICATION Spec
CONSTANTS
  MAX_AMBIGUITY_STATES = 60
  MAX_AMBIGUITY_FIELDS = 4
  SampleSize = 2
  MaxCalls = 12
  MaxBlocks = 3
  Requests <- MCRequests
INVARIANT RowsAreExact
INVARIANT EndMeansAll
INVARIANT SoundFilesAreRead
INVARIANT VerdictsAreRight
INVARIANT IterationEnds
