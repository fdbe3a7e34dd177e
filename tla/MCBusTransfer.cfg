CONSTANTS
  Pad = 2
  Room = 2
  MaxLooks = 2
  Errors <- SpiErrors

SPECIFICATION FairSpec

INVARIANTS
  IndInv

PROPERTIES
  ImplementsRadioBus
  WriteReturns
