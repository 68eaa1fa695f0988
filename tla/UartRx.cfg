SPECIFICATION Spec
INVARIANTS TypeOK CursorInStep NothingIntactSkipped DeliveredInOrder CountersTellTheTruth
CONSTANTS
  Payloads <- FourPayloads
  MaxLen = 3
  Pad = 2
  Capacity = 16
  SeqMod = 2
  Slack = 1
  Damages = 1
  Slips = 1
  Noise <- Confusing
CHECK_DEADLOCK FALSE
