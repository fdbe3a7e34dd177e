CONSTANTS
  Sender = {app}
  Stack = Stack
  Poll = Poll
  Host = Host
  Nobody = Nobody
  Pool = 2
  BtPool <- SmallPools

CHECK_DEADLOCK FALSE

SPECIFICATION FairTrafficSpec

INVARIANTS
  TrafficInv
  OwnFrameSent
  RecvInstalled

PROPERTIES
  ReceiveReturns
  ProcessReturns
  SendReturns
