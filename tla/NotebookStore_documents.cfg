SPECIFICATION Spec
CONSTANTS
  Paths = {a, b}
  Tasks = {t1, t2}
  MaxEdits = 2
  MaxCodes = 2
  MaxCalls = 4
  Nil = Nil
INVARIANTS
  TypeOK
  EditsSurvive
  PageAgrees
SYMMETRY Symmetry
CHECK_DEADLOCK FALSE
