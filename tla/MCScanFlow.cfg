CONSTANTS
  MaxWait = 3
  MaxScans = 4

SPECIFICATION FairScanSpec

INVARIANTS
  ScanIndInv
  CallbackInstalled
  NewestCallerTold

PROPERTIES
  NoScanOverScan
  ScanServiceEnds

\* the calls of a behaviour are bounded by MaxScans
CHECK_DEADLOCK FALSE
