CONSTANTS
  Reader = {shell, app}
  Settings <- Builds

SPECIFICATION Spec

INVARIANTS
  IndInv
  StatusOfThisCall
  PeriodsReported
