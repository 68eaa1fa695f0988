SPECIFICATION ResetSpec
CONSTANTS
  r1 = r1
  r2 = r2
  none = none
  Size = 3
  Items <- MCItems
  NoItem <- none
  MaxPushes = 3
INVARIANT Fifo
