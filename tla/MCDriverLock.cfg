CONSTANTS
  Thread = {caller, worker, poller}
  Nobody = Nobody
  MaxDepth = 3

SPECIFICATION FairSpec

INVARIANTS
  IndInv

PROPERTIES
  ImplementsRecursiveLock
  SomeWaiterGetsLock
