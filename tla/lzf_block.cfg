CONSTANTS
  ByteValues = 8
  MAX_LIT = 2
  HASH_SIZE = 16
  ShortLen = 11
  Inputs <- MCInputs
SPECIFICATION Spec
INVARIANT OutputMeansInput
INVARIANT DecompressionIsExact
