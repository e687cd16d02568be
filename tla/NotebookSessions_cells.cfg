SPECIFICATION FairSpec
CONSTANTS
  Paths = {p}
  Sessions = {s1}
  Clients = {c}
  Users = {u}
  Docs = {new}
  NewDoc = new
  Cells = {x, y}
  Vms = {v1, v2}
  MaxPending = 1
  Nil = Nil
INVARIANTS TypeOK SessionIsExclusive
PROPERTIES AnsweredCellIsSaved RequestsEnd
