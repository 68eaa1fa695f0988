SPECIFICATION FairSpec
INVARIANTS TypeOK StopLeaksOnePoll WholeUnlessOverlapped AnswerIsOwn
PROPERTY ReturnsToLoop
CONSTANTS
  FrameWords = 3
  FifoDepth = 1
  MaxFrames = 5
  Losses = 1
  SeqMod = 4
  Hold = 2
  MaxKeys = 2
