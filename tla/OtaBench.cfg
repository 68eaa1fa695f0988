SPECIFICATION Spec
INVARIANTS TypeOK CommitsWhatFits PollsWholePort
PROPERTY StagingOnly
CONSTANTS
  Page = 2
  Sector = 4
  Block = 8
  TotalBytes = 44
  FirmwareBytes = 12
  TestBytes = 16
  Window = 8
  MaxRetries = 2
  ImageSizes = {11, 14, 20}
  Rates = {r1, r2}
  SleepTicks = 3
  PollTicks = 2
  MaxCommands = 3
  MaxFaults = 2
  MaxPowerLosses = 1
CHECK_DEADLOCK FALSE
