SPECIFICATION FairSpec
CONSTANTS
  MaxWindows = 4
  StagingWindows = 4
  Chunks = 1
  LastChunks = 1
  InitialCredits = 2
  Batch = 1
  MaxRetries = 1
  MaxFlashRetries = 3
  ImageSizes = {4}
  MaxSessions = 1
  Budget <- MCOneLoss
PROPERTY SessionEnds
CHECK_DEADLOCK FALSE
