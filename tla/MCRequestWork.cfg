CONSTANTS
  Caller = {shell, app}
  Nobody = Nobody
  Kind = {"CONNECT", "SCAN", "DISCONNECT"}
  MaxCalls = 3

SPECIFICATION FairSpec

INVARIANTS
  IndInv
  LastRunServedNewest

PROPERTIES
  ImplementsFairMailbox
  ImplementsScanRequest
  EveryCallServed

\* the calls of a behaviour are bounded by MaxCalls
CHECK_DEADLOCK FALSE
