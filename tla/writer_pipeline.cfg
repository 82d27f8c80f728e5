CONSTANTS
  BlockSize = 3
  GroupSize = 2
  ChannelCapacity = 2
  RowSeqs <- MCRowSeqs
SPECIFICATION FrameSpec
CHECK_DEADLOCK FALSE
INVARIANT TypeOK
INVARIANT NoMutualWait
INVARIANT BlocksInOrder
INVARIANT SameAsSequential
INVARIANT WhatReadsIsWhole
PROPERTY IndexIsAccurate
PROPERTY CallReturns
PROPERTY WorkerEnds
