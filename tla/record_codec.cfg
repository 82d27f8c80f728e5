SPECIFICATION Spec
CONSTANTS
  SECOND = 2
  RATIO = 10
  CHUNK = 2
  Frames <- MCFrames
  BadWords <- MCBadWords
INVARIANT ValuesComeBack
INVARIANT DecodersAgree
INVARIANT VarDataStaysInside
