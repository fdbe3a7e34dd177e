CONSTANTS
  Depth = 4
  Jobs <- Transfers

SPECIFICATION Spec

INVARIANTS
  IndInv
  PinOwned
  ExchangeWhole

PROPERTIES
  EveryStepCounts
  TransferReturns
