SPECIFICATION Spec
CONSTANTS
  Files = {f}
  Past = 0
  MaxEvals = 1
  MaxVms = 2
  MaxPending = 2
  Results = {TRUE}
INVARIANTS
  WritesPersist
CHECK_DEADLOCK FALSE
