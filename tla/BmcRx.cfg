SPECIFICATION Spec
INVARIANTS TypeOK CounterExact NeverAhead NothingIntactSkipped NothingLeftBehind DeliveredInOrder DropsAccountForGaps
CONSTANTS
  Payloads <- ThreePayloads
  MaxLen = 3
  Word = 2
  Lead = 2
  Window = 28
  Recover = 8
  Ring = 32
  Reload = 18
  SeqMod = 2
  Slack = 1
  Damages = 1
  Slips = 1
  Noise <- Confusing
CHECK_DEADLOCK FALSE
