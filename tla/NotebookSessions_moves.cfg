SPECIFICATION Spec
CONSTANTS
  Paths = {p, q}
  Sessions = {s1, s2}
  Clients = {c, d}
  Users = {u}
  Docs = {new, edited}
  NewDoc = new
  Cells = {}
  Vms = {v}
  MaxPending = 1
  Nil = Nil
SYMMETRY Symmetry
VIEW View
INVARIANTS IndexSound FilesAgree
PROPERTIES NotebooksSurvive
