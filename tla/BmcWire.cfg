SPECIFICATION Spec
INVARIANTS TypeOK DecodesWhatWasSent FrameEndsClean
CONSTANTS
  WordBits = 4
  NWords = 4
  ReadBack = 4
  MinIdle = 20
