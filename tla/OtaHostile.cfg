SPECIFICATION Spec
CONSTANTS
  MaxWindows = 4
  StagingWindows = 3
  Chunks = 2
  LastChunks = 1
  InitialCredits = 2
  Batch = 1
  MaxRetries = 1
  MaxFlashRetries = 1
  ImageSizes = {3, 4}
  MaxSessions = 2
  Budget <- MCHostile
INVARIANTS TypeOK OversizeNeverStaged CreditsCoverSending
PROPERTIES KeepsPromise CommitsInOrder
CHECK_DEADLOCK FALSE
