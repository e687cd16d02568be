SPECIFICATION Spec
CONSTANTS
  Files = {f}
  Past = 2
  MaxEvals = 3
  MaxVms = 2
  MaxPending = 2
  Results = {TRUE, FALSE}
INVARIANTS
  TypeOK
  VmIsRecovered
  SnapshotsKeepUp
CHECK_DEADLOCK FALSE
PROPERTIES
  WritersAreTold
