CONSTANTS
  User = {caller, worker}
  Poll = Poll
  Nobody = Nobody
  SemLimit = 2

SPECIFICATION FairSpec

INVARIANTS
  IndInv
  TransferUndisturbed
  ArmedAtRest

PROPERTIES
  WakeServed
