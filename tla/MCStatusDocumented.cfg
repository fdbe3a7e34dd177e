CONSTANTS
  Reader = {shell}
  Settings <- Shipped

SPECIFICATION Spec

INVARIANTS
  StatusAsDocumented
