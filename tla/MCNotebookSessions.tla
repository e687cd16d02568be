------------------------- MODULE MCNotebookSessions -------------------------
(***************************************************************************)
(* Small instances of NotebookSessions for TLC.                            *)
(***************************************************************************)
EXTENDS NotebookSessions, TLC

Symmetry ==
  Permutations(Paths) \union Permutations(Sessions)
    \union Permutations(Clients) \union Permutations(Users)

(* The view is used without cells: every snapshot and every list of cells is empty
   then.  It leaves out what no later step and no property can tell apart: the
   fields of a session that is not registered, which are set before they are used,
   and what was written on a raced path until the process ends, when any contents
   are those of an initial state. *)
Blanked(s) ==
  \/ Unused(s)
  \/ \E r \in Requests : req[r].step = "registering" /\ req[r].session = s
Blank(value, blank) == IF value = Nil THEN Nil ELSE blank
Empty == [doc |-> NewDoc, cells |-> {}]
Files == [p \in Paths |-> IF p \in raced THEN Blank(file[p], Empty) ELSE file[p]]
Documents ==
  [s \in Sessions |-> IF Blanked(s) \/ path[s] \in raced THEN NewDoc ELSE notebook[s]]
OnRacedPath(q) ==
  IF q.op \in {"save", "eval", "edit", "restart", "reload"}
    THEN path[q.session] \in raced ELSE q.path \in raced
Memory(q) ==
  IF q.op \in {"restart", "reload"}
    THEN LET op == IF OnRacedPath(q) THEN "restart" ELSE q.op
         IN [q EXCEPT !.op = op, !.path = Nil,
                      !.read = IF op = "restart" THEN Nil ELSE @]
    ELSE IF OnRacedPath(q)
           THEN [q EXCEPT !.read = Blank(@, Empty), !.doc = Blank(@, NewDoc)]
           ELSE q
PathOf == [s \in Sessions |-> IF Blanked(s) THEN Nil ELSE path[s]]
View == <<Files, sessions, byPath, PathOf, Documents, chain,
          [r \in Requests |-> Memory(req[r])], revived \ raced, raced>>
=============================================================================
