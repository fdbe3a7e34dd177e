CONSTANTS
  Caller = {shell, app}
  MaxJoin = 2
  MaxPoll = 2

SPECIFICATION FairSpec

INVARIANTS
  IndInv
  ModesApartWhenSerial
  ApBitMatchesRadio
  ConnectAnswerMatchesInterface

PROPERTIES
  ConnectAnswered
  ServiceEnds
