SPECIFICATION Spec
INVARIANTS TypeOK ProgramsOnErased StrategiesVerify
PROPERTY OnlyTestRegionChanges
CONSTANTS
  Page = 2
  Sector = 4
  Block = 16
  TotalBytes = 80
  FirmwareBytes = 16
  TestBytes = 32
  NSectors = 3
  NBlocks = 1
  NPages = 3
  NChunks = 3
  MaxCommands = 3
  MaxFaults = 1
  MaxPowerLosses = 1
CHECK_DEADLOCK FALSE
