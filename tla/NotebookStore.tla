---------------------------- MODULE NotebookStore ----------------------------
(***************************************************************************)
(* The notebooks of the web client (src/web/src/store/ui.ts): the store    *)
(* that holds the open documents, their dirty flags and session codes, and *)
(* the functions a user starts from the page.  Each of them sends requests *)
(* and goes on when the answer is there; nothing keeps the user from       *)
(* typing or from starting another one meanwhile.                          *)
(*                                                                         *)
(* A document is the number of its last edit.  The server is what the      *)
(* client sees of the registry of sessions (NotebookSessions): it handles  *)
(* a request in one step, requests and answers overtake each other, and a  *)
(* request or an answer may get lost.                                      *)
(***************************************************************************)
EXTENDS Naturals, FiniteSets

CONSTANTS Paths,    \* paths of notebooks
          Tasks,    \* functions of the store that can run at a time
          MaxEdits, \* bound: edits
          MaxCodes, \* bound: sessions the server has opened
          MaxCalls, \* bound: functions the user starts
          Nil       \* undefined, "" and the missing file; not an edit

ASSUME NilAssumption == Nil \notin Paths /\ Nil \notin Nat
ASSUME BoundsAssumption == MaxEdits \in Nat /\ MaxCodes \in Nat /\ MaxCalls \in Nat

VARIABLES
  disk,      \* server: the document at each path, Nil when there is none
  served,    \* server: the path of each session, Nil when there is none
  issued,    \* server: sessions opened so far
  notebooks, \* notebooks of the store, Nil when absent
  dirty,     \* notebookDirtyByFile
  codes,     \* sessionCodeByFile, 0 when absent
  selected,  \* selectedFileId
  listing,   \* isbFiles
  isSaving,
  task,      \* the functions that run, and what they wait for
  edits,     \* edits so far
  calls,     \* functions started so far
  typed,     \* history: the unsaved edit the user made last, per notebook
  exposed,   \* history: notebooks edited while a function was under way, left
             \* with an unsaved edit without a question, or asked for again
             \* while they had one
  lost,      \* history: notebooks whose unsaved edit was overwritten
  faulty     \* history: a message was lost, or two functions ran at a time

serverVars == <<disk, served, issued>>
storeVars == <<notebooks, dirty, codes, selected>>
countVars == <<edits, calls>>
editVars == <<typed, exposed, lost>>
vars == <<serverVars, storeVars, listing, isSaving, task, countVars, editVars, faulty>>

Documents == 0..MaxEdits
Codes == 1..MaxCodes
Sessions == [path : Paths, code : Codes, doc : Documents]
NoSession == [path |-> Nil, code |-> 0, doc |-> 0]
Ops == {"none", "open", "create", "save", "move", "delete"}
Steps == {"idle", "asked", "answered", "failed", "list"}
NoTask == [op |-> "none", step |-> "idle", path |-> Nil, target |-> Nil,
           selected |-> FALSE, doc |-> 0, code |-> 0, answer |-> NoSession]

\* A page that is loaded: the server has some notebooks, the store has none.
Init ==
  /\ disk \in [Paths -> {Nil, 0}]
  /\ served = [c \in Codes |-> Nil]
  /\ issued = 0
  /\ notebooks = [p \in Paths |-> Nil]
  /\ dirty = [p \in Paths |-> FALSE]
  /\ codes = [p \in Paths |-> 0]
  /\ selected = Nil
  /\ listing = {p \in Paths : disk[p] # Nil}
  /\ isSaving = FALSE
  /\ task = [t \in Tasks |-> NoTask]
  /\ edits = 0 /\ calls = 0
  /\ typed = [p \in Paths |-> Nil]
  /\ exposed = {} /\ lost = {}
  /\ faulty = FALSE

Busy == {t \in Tasks : task[t] # NoTask}
Waiting(t, op, step) == task[t].op \in op /\ task[t].step = step

-----------------------------------------------------------------------------
(* Updates of the store. *)

Saved(v, w) == v = Nil \/ v = w

\* A notebook that was created takes the page, without a question.
Leave(p, op) ==
  exposed' = IF op = "create" /\ selected \notin {Nil, p} /\ typed[selected] # Nil
             THEN exposed \union {selected} ELSE exposed

\* setSessionState: the document of the answer replaces the one in the store,
\* and its notebook is selected, whatever happened to both meanwhile.
SetSession(s, op) ==
  /\ notebooks' = [notebooks EXCEPT ![s.path] = s.doc]
  /\ dirty' = [dirty EXCEPT ![s.path] = FALSE]
  /\ codes' = [codes EXCEPT ![s.path] = s.code]
  /\ selected' = s.path
  /\ Leave(s.path, op)
  /\ lost' = IF Saved(typed[s.path], s.doc) THEN lost ELSE lost \union {s.path}
  /\ typed' = [typed EXCEPT ![s.path] = Nil]

\* renameNotebookState: each record carries over the entry it has.
\* (RenameForgetsDirty, RenameForgetsCode: that record does not.)
Renamed(f, p, q, none) ==
  [f EXCEPT ![q] = IF notebooks[p] = Nil THEN @ ELSE f[p], ![p] = none]
RenameDocument(p, q) ==
  /\ notebooks' = Renamed(notebooks, p, q, Nil)
  /\ selected' = IF selected = p THEN q ELSE selected
  /\ lost' = IF notebooks[p] = Nil \/ typed[q] = Nil THEN lost ELSE lost \union {q}
  /\ typed' = Renamed(typed, p, q, Nil)
  /\ exposed' = IF p \in exposed THEN exposed \union {q} ELSE exposed
RenameForgetsDirty(p, q) ==
  /\ RenameDocument(p, q)
  /\ dirty' = [dirty EXCEPT ![p] = FALSE]
  /\ codes' = Renamed(codes, p, q, 0)
RenameForgetsCode(p, q) ==
  /\ RenameDocument(p, q)
  /\ dirty' = Renamed(dirty, p, q, FALSE)
  /\ UNCHANGED codes
Rename(p, q) ==
  /\ RenameDocument(p, q)
  /\ dirty' = Renamed(dirty, p, q, FALSE)
  /\ codes' = Renamed(codes, p, q, 0)

\* removeNotebookState, with the selection when the notebook was selected when
\* the deletion was asked.
Remove(p, reset) ==
  /\ notebooks' = [notebooks EXCEPT ![p] = Nil]
  /\ dirty' = [dirty EXCEPT ![p] = FALSE]
  /\ codes' = [codes EXCEPT ![p] = 0]
  /\ selected' = IF reset THEN Nil ELSE selected
  /\ lost' = IF typed[p] = Nil THEN lost ELSE lost \union {p}
  /\ typed' = [typed EXCEPT ![p] = Nil]

-----------------------------------------------------------------------------
(* What the user does. *)

\* updateCellSource of the notebook on the page (addCell, deleteCell and the
\* moves of cells mark it the same way).
Edit ==
  /\ selected # Nil /\ notebooks[selected] # Nil /\ edits < MaxEdits
  /\ edits' = edits + 1
  /\ notebooks' = [notebooks EXCEPT ![selected] = edits + 1]
  /\ dirty' = [dirty EXCEPT ![selected] = TRUE]
  /\ typed' = [typed EXCEPT ![selected] = edits + 1]
  /\ exposed' = IF Busy # {} THEN exposed \union {selected} ELSE exposed
  /\ UNCHANGED <<serverVars, codes, selected, listing, isSaving, task, calls, lost,
                 faulty>>

\* A function of the store starts and sends its first request.
Begin(t, request) ==
  /\ task[t] = NoTask /\ calls < MaxCalls
  /\ task' = [task EXCEPT ![t] = request]
  /\ calls' = calls + 1
  /\ faulty' = (faulty \/ Busy # {})

Request(op, p) == [NoTask EXCEPT !.op = op, !.step = "asked", !.path = p]

\* switchRemoteFile: unsaved changes of the selected notebook are given up, if
\* the user agrees (if not, nothing happens); then openRemoteFile.
Switch(t, p) ==
  /\ p \in listing /\ p # selected
  /\ Begin(t, Request("open", p))
  /\ LET q == selected IN
     IF q # Nil /\ dirty[q]
       THEN /\ dirty' = [dirty EXCEPT ![q] = FALSE]
            /\ typed' = [typed EXCEPT ![q] = Nil]
       ELSE UNCHANGED <<dirty, typed>>
  /\ UNCHANGED <<serverVars, notebooks, codes, selected, listing, isSaving, edits,
                 exposed, lost>>

\* A document is to come to p, where the page may have an unsaved edit (only
\* when it has not heard that the notebook is gone).
Expect(p) == exposed' = IF typed[p] # Nil THEN exposed \union {p} ELSE exposed

\* createNotebookInFolder and createRemoteFile.
Create(t, p) ==
  /\ Begin(t, Request("create", p))
  /\ Expect(p)
  /\ UNCHANGED <<serverVars, storeVars, listing, isSaving, edits, typed, lost>>

SaveRequest(p, target) ==
  [Request("save", p) EXCEPT !.target = target, !.doc = notebooks[p],
                             !.code = codes[p]]

\* saveNotebook, on Ctrl-S.
Save(t) ==
  /\ selected # Nil /\ codes[selected] # 0 /\ notebooks[selected] # Nil /\ ~isSaving
  /\ Begin(t, SaveRequest(selected, Nil))
  /\ isSaving' = TRUE
  /\ UNCHANGED <<serverVars, storeVars, listing, edits, editVars>>

\* moveNotebook saves the selected notebook first when it is dirty.
Move(t, p, q) ==
  /\ p \in listing /\ p # q
  /\ IF selected = p /\ dirty[p] /\ notebooks[p] # Nil /\ codes[p] # 0
       THEN Begin(t, SaveRequest(p, q)) /\ isSaving' = TRUE
       ELSE /\ selected = p => ~dirty[p]
            /\ Begin(t, [Request("move", p) EXCEPT !.target = q])
            /\ UNCHANGED isSaving
  /\ Expect(q)
  /\ UNCHANGED <<serverVars, storeVars, listing, edits, typed, lost>>

\* deleteNotebook, once the user has confirmed that changes will be lost.
Delete(t, p) ==
  /\ p \in listing
  /\ Begin(t, [Request("delete", p) EXCEPT !.selected = (selected = p)])
  /\ typed' = [typed EXCEPT ![p] = Nil]
  /\ UNCHANGED <<serverVars, storeVars, listing, isSaving, edits, exposed, lost>>

-----------------------------------------------------------------------------
(* The server. *)

CodeAt(p) == {c \in Codes : served[c] = p}

Answer(t, s) == task' = [task EXCEPT ![t].step = "answered", ![t].answer = s]
Refuse(t) == task' = [task EXCEPT ![t].step = "failed"] /\ UNCHANGED serverVars

\* A session for the document d at p, the one there is or a new one.
OpenSession(t, p, d) ==
  IF CodeAt(p) # {}
    THEN /\ Answer(t, [path |-> p, code |-> CHOOSE c \in CodeAt(p) : TRUE, doc |-> d])
         /\ UNCHANGED <<served, issued>>
    ELSE /\ issued < MaxCodes
         /\ issued' = issued + 1
         /\ served' = [served EXCEPT ![issued + 1] = p]
         /\ Answer(t, [path |-> p, code |-> issued + 1, doc |-> d])

ServeOpen(t) ==
  LET p == task[t].path IN
  /\ Waiting(t, {"open"}, "asked")
  /\ IF disk[p] = Nil THEN Refuse(t)
     ELSE OpenSession(t, p, disk[p]) /\ UNCHANGED disk

ServeCreate(t) ==
  LET p == task[t].path IN
  /\ Waiting(t, {"create"}, "asked")
  /\ IF disk[p] # Nil THEN Refuse(t)
     ELSE OpenSession(t, p, 0) /\ disk' = [disk EXCEPT ![p] = 0]

\* The document goes to the file the session is bound to, and carries the path the
\* page knew: after a move that the page does not know yet writeIsbFile refuses it.
\* (ServeSaveAnyway: a save of a notebook that was deleted is answered as if it had
\* a path.)
ServeSaveAnyway(t) ==
  LET c == task[t].code
      p == served[c]
  IN
  /\ Waiting(t, {"save"}, "asked")
  /\ disk' = IF p = Nil THEN disk ELSE [disk EXCEPT ![p] = task[t].doc]
  /\ Answer(t, [path |-> p, code |-> c, doc |-> task[t].doc])
  /\ UNCHANGED <<served, issued>>
ServeSave(t) ==
  LET c == task[t].code
      p == served[c]
  IN
  /\ Waiting(t, {"save"}, "asked")
  /\ IF p # task[t].path THEN Refuse(t)
     ELSE /\ disk' = [disk EXCEPT ![p] = task[t].doc]
          /\ Answer(t, [path |-> p, code |-> c, doc |-> task[t].doc])
          /\ UNCHANGED <<served, issued>>

ServeMove(t) ==
  LET p == task[t].path
      q == task[t].target
  IN
  /\ Waiting(t, {"move"}, "asked")
  /\ IF disk[p] = Nil \/ disk[q] # Nil THEN Refuse(t)
     ELSE /\ disk' = [disk EXCEPT ![q] = disk[p], ![p] = Nil]
          /\ served' = [c \in Codes |-> IF served[c] = p THEN q ELSE served[c]]
          /\ Answer(t, NoSession)
          /\ UNCHANGED issued

ServeDelete(t) ==
  LET p == task[t].path IN
  /\ Waiting(t, {"delete"}, "asked")
  /\ IF disk[p] = Nil THEN Refuse(t)
     ELSE /\ disk' = [disk EXCEPT ![p] = Nil]
          /\ served' = [c \in Codes |-> IF served[c] = p THEN Nil ELSE served[c]]
          /\ Answer(t, NoSession)
          /\ UNCHANGED issued

Serve(t) ==
  /\ ServeOpen(t) \/ ServeCreate(t) \/ ServeSave(t) \/ ServeMove(t)
     \/ ServeDelete(t)
  /\ typed' = IF Waiting(t, {"save"}, "asked") /\ typed[task[t].path] = task[t].doc
                 /\ task'[t].step = "answered"
              THEN [typed EXCEPT ![task[t].path] = Nil] ELSE typed
  /\ UNCHANGED <<storeVars, listing, isSaving, countVars, exposed, lost, faulty>>

\* A request, or its answer, gets lost: fetch rejects.
Lose(t) ==
  /\ task[t].step \in {"asked", "answered"}
  /\ task' = [task EXCEPT ![t].step = "failed", ![t].answer = NoSession]
  /\ faulty' = TRUE
  /\ UNCHANGED <<serverVars, storeVars, listing, isSaving, countVars, editVars>>

-----------------------------------------------------------------------------
(* The functions go on. *)

Finish(t) == task' = [task EXCEPT ![t] = NoTask]
List(t) == task' = [task EXCEPT ![t].step = "list"]

\* openRemoteFile, createRemoteFile and saveNotebook take the session, then
\* refreshFiles.
TakeSession(t) ==
  /\ Waiting(t, {"open", "create", "save"}, "answered")
  /\ SetSession(task[t].answer, task[t].op)
  /\ isSaving' = (isSaving /\ task[t].op # "save")
  /\ List(t)
  /\ UNCHANGED <<serverVars, listing, countVars, faulty>>

TakeMove(t) ==
  /\ Waiting(t, {"move"}, "answered")
  /\ Rename(task[t].path, task[t].target)
  /\ List(t)
  /\ UNCHANGED <<serverVars, listing, isSaving, countVars, faulty>>

TakeDelete(t) ==
  /\ Waiting(t, {"delete"}, "answered")
  /\ Remove(task[t].path, task[t].selected)
  /\ List(t)
  /\ UNCHANGED <<serverVars, listing, isSaving, countVars, exposed, faulty>>

\* After saveNotebook, moveNotebook goes on unless the notebook is still dirty.
GoOn(t) ==
  IF task[t].op = "save" /\ task[t].target # Nil /\ ~dirty[task[t].path]
    THEN task' = [task EXCEPT ![t] = [Request("move", task[t].path)
                                        EXCEPT !.target = task[t].target]]
    ELSE Finish(t)

\* The catch blocks.
Fail(t) ==
  /\ task[t].step = "failed"
  /\ isSaving' = (isSaving /\ task[t].op # "save")
  /\ GoOn(t)
  /\ UNCHANGED <<serverVars, storeVars, listing, countVars, editVars, faulty>>

\* refreshFiles: the list of the server, or after an error the old one.  Then a
\* deletion of the notebook that was selected opens another one, or creates one.
TakeList(t) ==
  /\ task[t].step = "list"
  /\ listing' \in {{p \in Paths : disk[p] # Nil}, listing}
  /\ IF task[t].op # "delete" \/ ~task[t].selected THEN GoOn(t) /\ UNCHANGED exposed
     ELSE \E p \in Paths :
            /\ p \in listing' \/ listing' = {}
            /\ task' = [task EXCEPT ![t] =
                           Request(IF listing' = {} THEN "create" ELSE "open", p)]
            /\ Expect(p)
  /\ UNCHANGED <<serverVars, storeVars, isSaving, countVars, typed, lost, faulty>>

Continue(t) == TakeSession(t) \/ TakeMove(t) \/ TakeDelete(t) \/ Fail(t) \/ TakeList(t)

Start(t) ==
  \/ \E p \in Paths : Switch(t, p) \/ Create(t, p) \/ Delete(t, p)
  \/ \E p, q \in Paths : Move(t, p, q)
  \/ Save(t)

Next ==
  \/ Edit
  \/ \E t \in Tasks : Start(t) \/ Serve(t) \/ Lose(t) \/ Continue(t)

Spec == Init /\ [][Next]_vars

-----------------------------------------------------------------------------
(* Properties. *)

\* Every variable keeps its type.
TypeOK ==
  /\ disk \in [Paths -> Documents \union {Nil}]
  /\ served \in [Codes -> Paths \union {Nil}] /\ issued \in 0..MaxCodes
  /\ notebooks \in [Paths -> Documents \union {Nil}]
  /\ dirty \in [Paths -> BOOLEAN]
  /\ codes \in [Paths -> 0..MaxCodes]
  /\ selected \in Paths \union {Nil}
  /\ listing \subseteq Paths
  /\ isSaving \in BOOLEAN
  /\ task \in [Tasks -> [op : Ops, step : Steps, path : Paths \union {Nil},
                         target : Paths \union {Nil}, selected : BOOLEAN,
                         doc : Documents, code : 0..MaxCodes,
                         answer : Sessions \union {NoSession}]]
  /\ edits \in 0..MaxEdits /\ calls \in 0..MaxCalls
  /\ typed \in [Paths -> Documents \union {Nil}]
  /\ exposed \subseteq Paths /\ lost \subseteq Paths
  /\ faulty \in BOOLEAN

\* An unsaved edit the user did not give up is overwritten in two cases only: it
\* was typed while a request for its notebook was under way, or the page had
\* moved to another notebook without a question (createRemoteFile).
LostOnlyToARace == lost \subseteq exposed

\* Without lost messages and with one function at a time, at rest the notebook
\* on the page is one the server has, under the session the server has for it.
SelectedIsServed ==
  (Busy = {} /\ ~faulty /\ selected # Nil) =>
    notebooks[selected] # Nil /\ CodeAt(selected) = {codes[selected]}

\* An edit that is neither saved nor given up is on the page, marked as unsaved:
\* the question of switchRemoteFile and the save of moveNotebook go by the mark.
EditsAreMarked ==
  \A p \in Paths : typed[p] # Nil => dirty[p] /\ notebooks[p] = typed[p]

\* An unsaved edit is on the page, marked as such, until it is saved or given up;
\* where it can be overwritten is known.
EditsSurvive == LostOnlyToARace /\ EditsAreMarked

\* Ctrl-S is off only while a save is under way, however the last one ended.
SavingIsUnderWay ==
  isSaving => \E t \in Busy : task[t].op = "save" /\ task[t].step # "list"

\* What the page knows of the server is so, and no failure leaves it waiting.
PageAgrees == SelectedIsServed /\ SavingIsUnderWay
=============================================================================
