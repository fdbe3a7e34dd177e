CONSTANTS
  Pad = 2
  Room = 1
  MaxLooks = 3
  Errors <- SpiErrors

SPECIFICATION Spec

INVARIANTS
  WaitEndsAsSaid
