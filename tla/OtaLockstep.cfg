SPECIFICATION FairSpec
CONSTANTS
  MaxWindows = 3
  StagingWindows = 2
  Chunks = 2
  LastChunks = 1
  InitialCredits = 1
  Batch = 1
  MaxRetries = 3
  MaxFlashRetries = 3
  ImageSizes = {2, 3}
  MaxSessions = 1
  Budget <- MCEvery
INVARIANTS VerifiedBeforeFlash SenderWithinSlots
PROPERTIES SessionEnds SessionSucceeds
CHECK_DEADLOCK FALSE
