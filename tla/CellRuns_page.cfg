SPECIFICATION FairSpec
CONSTANTS
  Cells = {c1, c2}
  MaxRuns = 2
  Removable = {c1}
  Nobody = Nobody
INVARIANTS TypeOK RunsAreTrue PageShowsTheRuns
PROPERTY RunsEnd
CHECK_DEADLOCK FALSE
