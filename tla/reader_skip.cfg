CONSTANTS
  HeaderLen = 2
  GroupSize = 2
  GarbageLen = 5
  Files <- MCSpatialFiles
SPECIFICATION Spec
CHECK_DEADLOCK FALSE
PROPERTY SkipsOnlyGrid
