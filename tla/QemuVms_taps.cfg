SPECIFICATION Spec
CONSTANTS
  t1 = t1
  t2 = t2
  Launches = {v1, v2}
  Taps = {t1, t2}
  TapSets <- MCTapSets
  Hosts <- MCHosts
  Results = {TRUE}
INVARIANTS
  TypeOK
  InterfacesAreOwned
  NothingIsLeft
CHECK_DEADLOCK FALSE
PROPERTIES
  EndedIsCleaned
