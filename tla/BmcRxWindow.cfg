SPECIFICATION Spec
INVARIANTS SkippedFindsNothing
CONSTANTS
  Payloads <- ThreeShort
  MaxLen = 1
  Word = 2
  Lead = 2
  Window = 28
  Recover = 8
  Ring = 40
  Reload = 30
  SeqMod = 2
  Slack = 1
  Damages = 2
  Slips = 0
  Noise <- NotSync
CHECK_DEADLOCK FALSE
