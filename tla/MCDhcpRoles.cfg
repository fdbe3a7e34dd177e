CONSTANTS
  Caller = {shell}
  MaxJoin = 2
  MaxPoll = 2

SPECIFICATION Spec

INVARIANTS
  DhcpClientOnlyInStaMode
