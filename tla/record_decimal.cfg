SPECIFICATION Spec
CONSTANTS
  SECOND = 2
  RATIO = 10
  CHUNK = 2
  Frames <- NarrowFrames
  BadWords <- MCBadWords
INVARIANT DecimalsComeBack
