------------------------- MODULE NotebookStoreProofs -------------------------
(***************************************************************************)
(* Proofs about NotebookStore, for any notebooks, any number of functions  *)
(* that run at a time and any messages that get lost.  TypeInv gives the   *)
(* function that waits its shape, EditsInv says where an unsaved edit is,  *)
(* AgreeInv what the page knows of the server, and SavingInv whose save    *)
(* keeps Ctrl-S off.                                                       *)
(***************************************************************************)
EXTENDS NotebookStore, TLAPS

\* What task holds, as TypeOK states it.
Records ==
  [op : Ops, step : Steps, path : Paths \union {Nil}, target : Paths \union {Nil},
   selected : BOOLEAN, doc : Documents, code : 0..MaxCodes,
   answer : Sessions \union {NoSession}]

\* A function that runs has a path; what it has been answered is a session.
Shaped(k) ==
  \/ k = NoTask
  \/ /\ k.op # "none" /\ k.step # "idle" /\ k.path \in Paths
     /\ k.op = "move" => k.target \in Paths
     /\ k.op = "save" => k.code \in Codes
     /\ k.step = "answered" /\ k.op \in {"open", "create", "save"} =>
          /\ k.answer \in Sessions
          /\ k.op \in {"open", "create"} => k.answer.path = k.path

\* The types, and the shape of every function.
TypeInv == TypeOK /\ \A t \in Tasks : Shaped(task[t])

\* The types of all but the functions.
PageOK ==
  /\ disk \in [Paths -> Documents \union {Nil}]
  /\ served \in [Codes -> Paths \union {Nil}] /\ issued \in 0..MaxCodes
  /\ notebooks \in [Paths -> Documents \union {Nil}]
  /\ dirty \in [Paths -> BOOLEAN]
  /\ codes \in [Paths -> 0..MaxCodes]
  /\ selected \in Paths \union {Nil}
  /\ listing \subseteq Paths
  /\ isSaving \in BOOLEAN
  /\ edits \in 0..MaxEdits /\ calls \in 0..MaxCalls
  /\ typed \in [Paths -> Documents \union {Nil}]
  /\ exposed \subseteq Paths /\ lost \subseteq Paths
  /\ faulty \in BOOLEAN

LEMMA NoTaskRecord == NoTask \in Records /\ Shaped(NoTask)
BY BoundsAssumption
   DEF NoTask, Records, Shaped, Ops, Steps, Documents, NoSession

\* One function goes on.
LEMMA SetTask ==
  ASSUME TypeInv, NEW t \in Tasks, NEW k \in Records, Shaped(k),
         task' = [task EXCEPT ![t] = k], PageOK'
  PROVE  TypeInv'
<1>1. task \in [Tasks -> Records]
  BY DEF TypeInv, TypeOK, Records
<1>2. task' \in [Tasks -> Records]
  BY <1>1
<1>3. \A u \in Tasks : Shaped(task'[u])
  BY <1>1 DEF TypeInv
<1> QED BY <1>2, <1>3 DEF TypeInv, TypeOK, PageOK, Records

\* A function that asks something of the server.
Asks(k, op, p, q, b) ==
  /\ k \in Records
  /\ k.op = op /\ k.step = "asked" /\ k.path = p /\ k.target = q /\ k.selected = b

\* What Request and SaveRequest build asks for what they are given.
LEMMA RecordUpdate ==
  ASSUME NEW k \in Records, NEW op \in Ops, NEW p \in Paths
  PROVE  Asks([k EXCEPT !.op = op, !.step = "asked", !.path = p],
              op, p, k.target, k.selected)
BY DEF Records, Steps, Asks

LEMMA RequestAsks ==
  ASSUME NEW op \in Ops, NEW p \in Paths
  PROVE  Asks(Request(op, p), op, p, Nil, FALSE)
<1>1. PICK k : k = NoTask
  OBVIOUS
<1>2. k \in Records /\ k.target = Nil /\ k.selected = FALSE
  <2>1. NoTask \in Records
    BY NoTaskRecord
  <2>2. NoTask.target = Nil /\ NoTask.selected = FALSE
    BY DEF NoTask
  <2> QED BY <1>1, <2>1, <2>2
<1>3. Request(op, p) = [k EXCEPT !.op = op, !.step = "asked", !.path = p]
  BY <1>1 DEF Request
<1>4. Asks([k EXCEPT !.op = op, !.step = "asked", !.path = p], op, p, k.target,
           k.selected)
  <2>1. k \in Records
    BY <1>2
  <2> QED BY <2>1, RecordUpdate, Zenon
<1> QED BY <1>2, <1>3, <1>4

LEMMA RequestsAsk ==
  ASSUME NEW op \in Ops, NEW p \in Paths, NEW q \in Paths \union {Nil}, NEW b \in BOOLEAN
  PROVE  /\ Asks([Request(op, p) EXCEPT !.target = q], op, p, q, FALSE)
         /\ Asks([Request(op, p) EXCEPT !.selected = b], op, p, Nil, b)
<1>1. PICK k : k = Request(op, p)
  OBVIOUS
<1>2. Asks(k, op, p, Nil, FALSE)
  BY <1>1, RequestAsks
<1>3. /\ Asks([k EXCEPT !.target = q], op, p, q, FALSE)
      /\ Asks([k EXCEPT !.selected = b], op, p, Nil, b)
  BY <1>2 DEF Asks, Records
<1> QED BY <1>1, <1>3

LEMMA AskFields ==
  ASSUME NEW k, NEW op, NEW p, NEW q, NEW b \in BOOLEAN, Asks(k, op, p, q, b)
  PROVE  k.op = op /\ k.step = "asked" /\ k.path = p /\ k.target = q /\ k.selected = b
BY DEF Asks

LEMMA AskIsShaped ==
  ASSUME NEW k, NEW op \in Ops \ {"none", "save"}, NEW p \in Paths,
         NEW q \in Paths \union {Nil}, op = "move" => q \in Paths, NEW b \in BOOLEAN,
         Asks(k, op, p, q, b)
  PROVE  k \in Records /\ Shaped(k)
BY DEF Asks, Shaped

LEMMA SaveAsks ==
  ASSUME NEW p \in Paths, NEW q \in Paths \union {Nil},
         notebooks[p] \in Documents \union {Nil}, notebooks[p] # Nil,
         codes[p] \in 0..MaxCodes, codes[p] # 0
  PROVE  LET k == SaveRequest(p, q)
         IN /\ Asks(k, "save", p, q, FALSE) /\ Shaped(k)
            /\ k.doc = notebooks[p] /\ k.code = codes[p]
<1>1. PICK k : k = Request("save", p)
  OBVIOUS
<1>2. Asks(k, "save", p, Nil, FALSE)
  BY <1>1, RequestAsks DEF Ops
<1>3. notebooks[p] \in Documents /\ codes[p] \in Codes
  BY BoundsAssumption DEF Codes
<1>4. PICK n : n = [k EXCEPT !.target = q, !.doc = notebooks[p], !.code = codes[p]]
  OBVIOUS
<1>5. Asks(n, "save", p, q, FALSE) /\ n.doc = notebooks[p] /\ n.code = codes[p]
  BY <1>2, <1>3, <1>4 DEF Asks, Records
<1>6. n = SaveRequest(p, q)
  BY <1>1, <1>4 DEF SaveRequest
<1>7. Shaped(n)
  BY <1>3, <1>5 DEF Shaped, Asks
<1> QED BY <1>5, <1>6, <1>7

\* The types from the start, and at each step of a function.
LEMMA TypeInit == Init => TypeInv
<1> SUFFICES ASSUME Init PROVE TypeInv
  OBVIOUS
<1>1. 0 \in Documents /\ 0 \in 0..MaxCodes /\ 0 \in 0..MaxCalls /\ 0 \in 0..MaxEdits
  BY BoundsAssumption DEF Documents
<1>3. disk \in [Paths -> Documents \union {Nil}]
  BY <1>1 DEF Init
<1>4. /\ served \in [Codes -> Paths \union {Nil}]
      /\ notebooks \in [Paths -> Documents \union {Nil}]
      /\ typed \in [Paths -> Documents \union {Nil}]
      /\ dirty \in [Paths -> BOOLEAN]
      /\ codes \in [Paths -> 0..MaxCodes]
  BY <1>1 DEF Init
<1>5. PageOK
  BY <1>1, <1>3, <1>4 DEF Init, PageOK
<1>2. task \in [Tasks -> Records] /\ \A t \in Tasks : Shaped(task[t])
  BY NoTaskRecord DEF Init
<1> QED BY <1>2, <1>5 DEF TypeInv, TypeOK, PageOK, Records

LEMMA TypeStart ==
  ASSUME TypeInv, NEW t \in Tasks, Start(t)
  PROVE  TypeInv'
<1> USE DEF Begin, serverVars, storeVars, countVars, editVars
<1>1. PageOK /\ Nil \notin Paths /\ Nil \notin Nat
  BY NilAssumption DEF TypeInv, TypeOK, PageOK
<1>2. ASSUME calls < MaxCalls PROVE calls + 1 \in 0..MaxCalls
  BY <1>1, <1>2, BoundsAssumption DEF PageOK
<1>3. ASSUME NEW p \in Paths, Switch(t, p) PROVE TypeInv'
  <2>1. task' = [task EXCEPT ![t] = Request("open", p)]
    BY <1>3 DEF Switch
  <2>2. Request("open", p) \in Records /\ Shaped(Request("open", p))
    BY RequestAsks, AskIsShaped DEF Ops
  <2>3. PageOK'
    BY <1>1, <1>2, <1>3 DEF Switch, PageOK
  <2> QED BY <2>1, <2>2, <2>3, SetTask
<1>4. ASSUME NEW p \in Paths, Create(t, p) PROVE TypeInv'
  <2>1. task' = [task EXCEPT ![t] = Request("create", p)]
    BY <1>4 DEF Create
  <2>2. Request("create", p) \in Records /\ Shaped(Request("create", p))
    BY RequestAsks, AskIsShaped DEF Ops
  <2>3. PageOK'
    BY <1>1, <1>2, <1>4 DEF Create, PageOK, Expect
  <2> QED BY <2>1, <2>2, <2>3, SetTask
<1>5. ASSUME NEW p \in Paths, Delete(t, p) PROVE TypeInv'
  <2>1. PICK k : k = [Request("delete", p) EXCEPT !.selected = (selected = p)]
    OBVIOUS
  <2>2. PICK b \in BOOLEAN : b = (selected = p)
    OBVIOUS
  <2>3. task' = [task EXCEPT ![t] = k]
    BY <1>5, <2>1 DEF Delete
  <2>4. Asks(k, "delete", p, Nil, b)
    BY <2>1, <2>2, RequestsAsk DEF Ops
  <2>5. k \in Records /\ Shaped(k)
    BY <2>4, AskIsShaped DEF Ops
  <2>6. PageOK'
    BY <1>1, <1>2, <1>5 DEF Delete, PageOK
  <2> QED BY <2>3, <2>5, <2>6, SetTask
<1>6. ASSUME NEW p \in Paths, NEW q \in Paths \union {Nil}, notebooks[p] # Nil,
             codes[p] # 0
      PROVE  SaveRequest(p, q) \in Records /\ Shaped(SaveRequest(p, q))
  <2>1. PICK k : k = SaveRequest(p, q)
    OBVIOUS
  <2>2. notebooks[p] \in Documents \union {Nil} /\ codes[p] \in 0..MaxCodes
    BY <1>1 DEF PageOK
  <2>3. Asks(k, "save", p, q, FALSE) /\ Shaped(k)
    BY <1>6, <2>1, <2>2, SaveAsks
  <2> QED BY <2>1, <2>3 DEF Asks
<1>7. ASSUME NEW p \in Paths, NEW q \in Paths, Move(t, p, q) PROVE TypeInv'
  <2>1. CASE selected = p /\ dirty[p] /\ notebooks[p] # Nil /\ codes[p] # 0
    <3>1. PageOK'
      BY <1>1, <1>2, <1>7, <2>1 DEF Move, PageOK, Expect
    <3> QED BY <1>6, <1>7, <2>1, <3>1, SetTask DEF Move
  <2>2. CASE ~(selected = p /\ dirty[p] /\ notebooks[p] # Nil /\ codes[p] # 0)
    <3>1. PICK k : k = [Request("move", p) EXCEPT !.target = q]
      OBVIOUS
    <3>2. task' = [task EXCEPT ![t] = k]
      BY <1>7, <2>2, <3>1 DEF Move
    <3>3. k \in Records /\ Shaped(k)
      BY <3>1, RequestsAsk, AskIsShaped DEF Ops
    <3>4. PageOK'
      BY <1>1, <1>2, <1>7, <2>2 DEF Move, PageOK, Expect
    <3> QED BY <3>2, <3>3, <3>4, SetTask
  <2> QED BY <2>1, <2>2
<1>8. CASE Save(t)
  <2>1. PageOK'
    BY <1>1, <1>2, <1>8 DEF Save, PageOK
  <2>2. /\ selected \in Paths /\ notebooks[selected] # Nil /\ codes[selected] # 0
        /\ task' = [task EXCEPT ![t] = SaveRequest(selected, Nil)]
    BY <1>1, <1>8 DEF Save, PageOK
  <2> QED BY <1>6, <2>1, <2>2, SetTask
<1> QED BY <1>3, <1>4, <1>5, <1>7, <1>8 DEF Start

\* The fields of a function that runs.
LEMMA TaskFields ==
  ASSUME TypeInv, NEW t \in Tasks, task[t].step # "idle"
  PROVE  /\ task[t] \in Records /\ Shaped(task[t]) /\ task[t].path \in Paths
         /\ task[t].op = "move" => task[t].target \in Paths
         /\ task[t].op = "save" => task[t].code \in Codes
BY DEF TypeInv, TypeOK, Records, Shaped, NoTask

LEMMA TypeServe ==
  ASSUME TypeInv, NEW t \in Tasks, Serve(t)
  PROVE  TypeInv'
<1> USE DEF serverVars, storeVars, countVars
<1> DEFINE k == task[t]
           After(st, s) == [k EXCEPT !.step = st, !.answer = s]
<1>1. PageOK /\ Nil \notin Paths /\ Nil \notin Nat
  BY NilAssumption DEF TypeInv, TypeOK, PageOK
<1>2. /\ k \in Records /\ Shaped(k) /\ k.path \in Paths /\ k.step = "asked"
      /\ k.op = "move" => k.target \in Paths
      /\ k.op = "save" => k.code \in Codes
  <2>1. k.step = "asked"
    BY DEF Serve, ServeOpen, ServeCreate, ServeSave, ServeMove, ServeDelete, Waiting
  <2> QED BY <2>1, TaskFields
<1>3. PageOK' <=>
        /\ disk' \in [Paths -> Documents \union {Nil}]
        /\ served' \in [Codes -> Paths \union {Nil}] /\ issued' \in 0..MaxCodes
  <2>1. typed' \in [Paths -> Documents \union {Nil}]
    BY <1>1, <1>2 DEF Serve, PageOK
  <2> QED BY <1>1, <2>1 DEF Serve, PageOK
<1>4. task \in [Tasks -> Records]
  BY DEF TypeInv, TypeOK, Records
<1>5. CASE Refuse(t)
  <2> DEFINE n == [k EXCEPT !.step = "failed"]
  <2>1. n \in Records /\ Shaped(n)
    BY <1>2 DEF Records, Shaped, Steps, NoTask
  <2>2. task' = [task EXCEPT ![t] = n]
    BY <1>4, <1>5 DEF Refuse
  <2>3. PageOK'
    BY <1>1, <1>3, <1>5 DEF Refuse, PageOK
  <2> HIDE DEF n
  <2> QED BY <2>1, <2>2, <2>3, SetTask
<1>6. ASSUME NEW s \in Sessions \union {NoSession}, Answer(t, s), PageOK',
             k.op \in {"open", "create", "save"} => s \in Sessions,
             k.op \in {"open", "create"} => s.path = k.path
      PROVE  TypeInv'
  <2> DEFINE n == [k EXCEPT !.step = "answered", !.answer = s]
  <2>1. n \in Records
    BY <1>2 DEF Records, Steps
  <2>2. Shaped(n)
    BY <1>2, <1>6 DEF Records, Shaped, NoTask
  <2>3. task' = [task EXCEPT ![t] = n]
    BY <1>4, <1>6 DEF Answer
  <2> HIDE DEF n
  <2> QED BY <1>6, <2>1, <2>2, <2>3, SetTask
<1> HIDE DEF k
<1>7. ASSUME NEW d \in Documents, OpenSession(t, k.path, d),
             disk' \in [Paths -> Documents \union {Nil}],
             k.op \in {"open", "create"}
      PROVE  TypeInv'
  <2>1. CASE CodeAt(k.path) # {}
    <3>1. PICK c \in Codes : Answer(t, [path |-> k.path, code |-> c, doc |-> d])
      BY <1>7, <2>1 DEF OpenSession, CodeAt
    <3>2. [path |-> k.path, code |-> c, doc |-> d] \in Sessions
      BY <1>2 DEF Sessions
    <3>3. PageOK'
      BY <1>1, <1>3, <1>7, <2>1 DEF OpenSession, PageOK
    <3> QED BY <1>6, <1>7, <3>1, <3>2, <3>3
  <2>2. CASE CodeAt(k.path) = {}
    <3>1. issued + 1 \in Codes /\ issued + 1 \in 0..MaxCodes
      BY <1>1, <1>7, <2>2, BoundsAssumption DEF OpenSession, PageOK, Codes
    <3>2. [path |-> k.path, code |-> issued + 1, doc |-> d] \in Sessions
      BY <1>2, <3>1 DEF Sessions
    <3>3. PageOK'
      BY <1>1, <1>2, <1>3, <1>7, <2>2, <3>1 DEF OpenSession, PageOK
    <3> QED BY <1>6, <1>7, <2>2, <3>2, <3>3 DEF OpenSession
  <2> QED BY <2>1, <2>2
<1>8. CASE ServeOpen(t)
  <2>1. CASE disk[k.path] = Nil
    BY <1>5, <1>8, <2>1 DEF ServeOpen, k
  <2>2. CASE disk[k.path] # Nil
    <3>1. disk[k.path] \in Documents
      BY <1>1, <1>2, <2>2 DEF PageOK
    <3> QED BY <1>1, <1>7, <1>8, <2>2, <3>1 DEF ServeOpen, k, PageOK, Waiting
  <2> QED BY <2>1, <2>2
<1>9. CASE ServeCreate(t)
  <2>1. CASE disk[k.path] # Nil
    BY <1>5, <1>9, <2>1 DEF ServeCreate, k
  <2>2. CASE disk[k.path] = Nil
    <3>1. 0 \in Documents /\ disk' = [disk EXCEPT ![k.path] = 0]
      BY <1>9, <2>2, BoundsAssumption DEF Documents, ServeCreate, k
    <3>2. disk' \in [Paths -> Documents \union {Nil}]
      BY <1>1, <1>2, <3>1 DEF PageOK
    <3> QED BY <1>7, <1>9, <2>2, <3>1, <3>2 DEF ServeCreate, k, Waiting
  <2> QED BY <2>1, <2>2
<1>10. CASE ServeSave(t)
  <2>1. CASE served[k.code] # k.path
    BY <1>5, <1>10, <2>1 DEF ServeSave, k
  <2>2. CASE served[k.code] = k.path
    <3>1. k.op = "save" /\ k.code \in Codes /\ k.doc \in Documents
      BY <1>2, <1>10 DEF ServeSave, k, Waiting, Records
    <3>2. served[k.code] \in Paths
      BY <1>2, <2>2
    <3>3. [path |-> served[k.code], code |-> k.code, doc |-> k.doc] \in Sessions
      BY <3>1, <3>2 DEF Sessions
    <3>4. PageOK'
      BY <1>1, <1>3, <1>10, <2>2, <3>1 DEF ServeSave, k, PageOK
    <3> QED BY <1>6, <1>10, <2>2, <3>1, <3>3, <3>4 DEF ServeSave, k
  <2> QED BY <2>1, <2>2
<1>11. CASE ServeMove(t)
  <2>1. CASE disk[k.path] = Nil \/ disk[k.target] # Nil
    BY <1>5, <1>11, <2>1 DEF ServeMove, k
  <2>2. CASE ~(disk[k.path] = Nil \/ disk[k.target] # Nil)
    <3>1. k.op = "move" /\ k.target \in Paths
      BY <1>2, <1>11 DEF ServeMove, k, Waiting
    <3>2. PageOK'
      BY <1>1, <1>2, <1>3, <1>11, <2>2, <3>1 DEF ServeMove, k, PageOK
    <3> QED BY <1>6, <1>11, <2>2, <3>1, <3>2 DEF ServeMove, k
  <2> QED BY <2>1, <2>2
<1>12. CASE ServeDelete(t)
  <2>1. CASE disk[k.path] = Nil
    BY <1>5, <1>12, <2>1 DEF ServeDelete, k
  <2>2. CASE disk[k.path] # Nil
    <3>1. k.op = "delete"
      BY <1>12 DEF ServeDelete, k, Waiting
    <3>2. PageOK'
      BY <1>1, <1>2, <1>3, <1>12, <2>2 DEF ServeDelete, k, PageOK
    <3> QED BY <1>6, <1>12, <2>2, <3>1, <3>2 DEF ServeDelete, k
  <2> QED BY <2>1, <2>2
<1> QED BY <1>8, <1>9, <1>10, <1>11, <1>12 DEF Serve

LEMMA TypeLose ==
  ASSUME TypeInv, NEW t \in Tasks, Lose(t)
  PROVE  TypeInv'
<1>1. PICK k : k = task[t]
  OBVIOUS
<1>2. k \in Records /\ Shaped(k) /\ k.path \in Paths /\ k # NoTask
      /\ task \in [Tasks -> Records]
  BY <1>1 DEF Lose, TypeInv, TypeOK, Records, Shaped, NoTask
<1>3. PICK n : n = [k EXCEPT !.step = "failed", !.answer = NoSession]
  OBVIOUS
<1>4. n \in Records /\ Shaped(n)
  BY <1>2, <1>3 DEF Records, Shaped, Steps
<1>5. task' = [task EXCEPT ![t] = n]
  BY <1>1, <1>2, <1>3 DEF Lose
<1>6. PageOK'
  BY DEF TypeInv, TypeOK, PageOK, Lose, serverVars, storeVars, countVars, editVars
<1> QED BY <1>4, <1>5, <1>6, SetTask

\* A function ends, waits for the list, or saved and now moves.
LEMMA TypeGoOn ==
  ASSUME TypeInv, NEW t \in Tasks, GoOn(t), PageOK', task[t].step # "idle"
  PROVE  TypeInv'
<1>1. task[t].path \in Paths /\ task[t].target \in Paths \union {Nil}
  BY TaskFields DEF Records
<1>2. CASE task[t].op = "save" /\ task[t].target # Nil /\ ~dirty[task[t].path]
  <2>1. PICK k : k = [Request("move", task[t].path) EXCEPT !.target = task[t].target]
    OBVIOUS
  <2>2. task' = [task EXCEPT ![t] = k]
    BY <1>2, <2>1 DEF GoOn
  <2>3. Asks(k, "move", task[t].path, task[t].target, FALSE)
    BY <1>1, <2>1, RequestsAsk DEF Ops
  <2>4. k \in Records /\ Shaped(k)
    BY <1>1, <1>2, <2>3, AskIsShaped DEF Ops
  <2> QED BY <2>2, <2>4, SetTask
<1>3. CASE ~(task[t].op = "save" /\ task[t].target # Nil /\ ~dirty[task[t].path])
  <2>1. task' = [task EXCEPT ![t] = NoTask]
    BY <1>3 DEF GoOn, Finish
  <2> QED BY <2>1, NoTaskRecord, SetTask
<1> QED BY <1>2, <1>3

LEMMA TypeList ==
  ASSUME TypeInv, NEW t \in Tasks, List(t), PageOK', task[t].step # "idle"
  PROVE  TypeInv'
<1>1. PICK k : k = task[t]
  OBVIOUS
<1>2. k \in Records /\ Shaped(k) /\ k # NoTask /\ task \in [Tasks -> Records]
  BY <1>1 DEF TypeInv, TypeOK, Records, Shaped, NoTask
<1>3. PICK n : n = [k EXCEPT !.step = "list"]
  OBVIOUS
<1>4. n \in Records /\ Shaped(n)
  BY <1>2, <1>3 DEF Records, Shaped, Steps
<1>5. task' = [task EXCEPT ![t] = n]
  BY <1>1, <1>2, <1>3 DEF List
<1> QED BY <1>4, <1>5, SetTask

LEMMA TypeContinue ==
  ASSUME TypeInv, NEW t \in Tasks, Continue(t)
  PROVE  TypeInv'
<1> USE DEF serverVars, storeVars, countVars, editVars
<1>1. PageOK /\ Nil \notin Paths /\ Nil \notin Nat
  BY NilAssumption DEF TypeInv, TypeOK, PageOK
<1>2. CASE TakeSession(t)
  <2>1. task[t].step = "answered" /\ task[t].op \in {"open", "create", "save"}
    BY <1>2 DEF TakeSession, Waiting
  <2>2. PICK s \in Sessions : s = task[t].answer
    BY <2>1 DEF TypeInv, Shaped, NoTask
  <2>3. s.path \in Paths /\ s.code \in 0..MaxCodes /\ s.doc \in Documents
    BY BoundsAssumption DEF Sessions, Codes
  <2>4. SetSession(s, task[t].op)
    BY <1>2, <2>2 DEF TakeSession
  <2>5. PageOK'
    <3>1. exposed' \subseteq Paths /\ lost' \subseteq Paths
      BY <1>1, <2>3, <2>4 DEF SetSession, Leave, PageOK
    <3> QED BY <1>1, <1>2, <2>3, <2>4, <3>1 DEF TakeSession, SetSession, PageOK
  <2> QED BY <1>2, <2>1, <2>5, TypeList DEF TakeSession
<1>3. CASE TakeMove(t)
  <2>1. task[t].step = "answered" /\ task[t].op = "move"
    BY <1>3 DEF TakeMove, Waiting
  <2>2. PICK p \in Paths, q \in Paths : p = task[t].path /\ q = task[t].target
    BY <2>1, TaskFields
  <2>3. Rename(p, q)
    BY <1>3, <2>2 DEF TakeMove
  <2>4. /\ notebooks' \in [Paths -> Documents \union {Nil}]
        /\ typed' \in [Paths -> Documents \union {Nil}]
    BY <1>1, <2>3 DEF Rename, RenameDocument, Renamed, PageOK
  <2>5. dirty' \in [Paths -> BOOLEAN]
    BY <1>1, <2>3 DEF Rename, Renamed, PageOK
  <2>6. codes' \in [Paths -> 0..MaxCodes]
    BY <1>1, <2>3, BoundsAssumption DEF Rename, Renamed, PageOK
  <2>7. /\ selected' \in Paths \union {Nil}
        /\ exposed' \subseteq Paths /\ lost' \subseteq Paths
    BY <1>1, <2>3 DEF Rename, RenameDocument, PageOK
  <2>8. PageOK'
    BY <1>1, <1>3, <2>4, <2>5, <2>6, <2>7 DEF TakeMove, PageOK
  <2> QED BY <1>3, <2>1, <2>8, TypeList DEF TakeMove
<1>4. CASE TakeDelete(t)
  <2>1. task[t].step = "answered" /\ task[t].op = "delete"
    BY <1>4 DEF TakeDelete, Waiting
  <2>2. PICK p \in Paths, b \in BOOLEAN : p = task[t].path /\ Remove(p, b)
    BY <1>4, <2>1, TaskFields DEF TakeDelete, Records
  <2>3. PageOK'
    BY <1>1, <1>4, <2>2, BoundsAssumption DEF TakeDelete, Remove, PageOK
  <2> QED BY <1>4, <2>1, <2>3, TypeList DEF TakeDelete
<1>5. CASE Fail(t)
  <2>1. PageOK'
    BY <1>1, <1>5 DEF Fail, PageOK
  <2> QED BY <1>5, <2>1, TypeGoOn DEF Fail
<1>6. CASE TakeList(t)
  <2>1. task[t].step = "list" /\ listing' \subseteq Paths
    BY <1>1, <1>6 DEF TakeList, PageOK
  <2>2. CASE task[t].op # "delete" \/ ~task[t].selected
    <3>1. PageOK'
      BY <1>1, <1>6, <2>1, <2>2 DEF TakeList, PageOK
    <3> QED BY <1>6, <2>1, <2>2, <3>1, TypeGoOn DEF TakeList
  <2>3. CASE ~(task[t].op # "delete" \/ ~task[t].selected)
    <3>1. PICK p \in Paths, op \in {"create", "open"} :
            Expect(p) /\ task' = [task EXCEPT ![t] = Request(op, p)]
      BY <1>6, <2>3 DEF TakeList
    <3>2. PageOK'
      BY <1>1, <1>6, <2>1, <3>1 DEF TakeList, PageOK, Expect
    <3>3. Request(op, p) \in Records /\ Shaped(Request(op, p))
      BY <3>1, RequestAsks, AskIsShaped DEF Ops
    <3> QED BY <3>1, <3>2, <3>3, SetTask
  <2> QED BY <2>2, <2>3
<1> QED BY <1>2, <1>3, <1>4, <1>5, <1>6 DEF Continue

LEMMA TypeNext == TypeInv /\ [Next]_vars => TypeInv'
<1> SUFFICES ASSUME TypeInv, [Next]_vars PROVE TypeInv'
  OBVIOUS
<1>1. CASE Edit
  <2>1. PageOK /\ edits + 1 \in 0..MaxEdits /\ selected \in Paths
    BY <1>1, BoundsAssumption DEF Edit, TypeInv, TypeOK, PageOK
  <2>2. PageOK'
    BY <1>1, <2>1
       DEF Edit, PageOK, Documents, serverVars, storeVars
  <2> QED BY <1>1, <2>2 DEF Edit, TypeInv, TypeOK, PageOK
<1>2. CASE UNCHANGED vars
  BY <1>2
     DEF vars, serverVars, storeVars, countVars, editVars, TypeInv, TypeOK
<1> QED BY <1>1, <1>2, TypeStart, TypeServe, TypeLose, TypeContinue DEF Next

\* Every variable of the store keeps its type, whatever the server answers, loses
\* or refuses: a function goes on from an answer that belongs to what it asked.
THEOREM StoreTypeCorrect == Spec => []TypeOK
<1>1. TypeInv => TypeOK
  BY DEF TypeInv
<1> QED BY <1>1, TypeInit, TypeNext, PTL DEF Spec

-----------------------------------------------------------------------------
(* Unsaved edits.  One can be overwritten only when it is known to be exposed: *)
(* it was typed while a function was under way, left without a question, or    *)
(* its notebook was asked for again.                                           *)

\* p has no unsaved edit, or one whose loss would be accounted for.
Safe(p) == typed[p] = Nil \/ p \in exposed

\* A function that leaves the unsaved edit e of p alone, or saves it.
Spares(k, p, e) ==
  \/ k = NoTask
  \/ k.op = "save" /\ k.path = p /\ k.step = "asked" /\ k.doc = e
  \/ k.op = "save" /\ k.path = p /\ k.step = "failed"
  \/ k.op = "create" /\ k.path # p
  \/ k.op = "move" /\ k.path # p /\ k.target # p
  \/ k.op = "delete" /\ k.path # p /\ ~k.selected

\* An edit that is not exposed is on the selected notebook, and every function
\* that runs spares it.
EditsInv ==
  /\ EditsAreMarked
  /\ LostOnlyToARace
  /\ \A p \in Paths :
       Safe(p) \/ (p = selected /\ \A t \in Tasks : Spares(task[t], p, typed[p]))

\* Fewer edits are unsafe, the selection stays.
LEMMA EditsFrame ==
  ASSUME EditsInv, NEW t \in Tasks, EditsAreMarked',
         selected' = selected, lost' \subseteq exposed', exposed \subseteq exposed',
         \A p \in Paths : typed'[p] \in {typed[p], Nil},
         \A u \in Tasks : u # t => task'[u] = task[u],
         \A p \in Paths : ~Safe(p) => Safe(p)' \/ Spares(task'[t], p, typed[p])
  PROVE  EditsInv'
<1>1. ASSUME NEW p \in Paths, ~Safe(p)', NEW u \in Tasks
      PROVE  p = selected' /\ Spares(task'[u], p, typed'[p])
  <2>1. ~Safe(p) /\ typed'[p] = typed[p]
    BY <1>1 DEF Safe
  <2>2. p = selected /\ Spares(task[u], p, typed[p])
    BY <2>1 DEF EditsInv
  <2>3. CASE u = t
    BY <1>1, <2>1, <2>2, <2>3
  <2>4. CASE u # t
    BY <2>1, <2>2, <2>4
  <2> QED BY <2>3, <2>4
<1>2. \A p \in Paths :
        Safe(p)' \/ (p = selected' /\ \A u \in Tasks : Spares(task'[u], p, typed'[p]))
  BY <1>1
<1> QED BY <1>2 DEF EditsInv, LostOnlyToARace

\* A mark stays with its edit.
LEMMA MarksFrame ==
  ASSUME EditsAreMarked, UNCHANGED <<notebooks, dirty>>,
         \A p \in Paths : typed'[p] \in {typed[p], Nil}
  PROVE  EditsAreMarked'
BY DEF EditsAreMarked

\* The others do not notice the start of a function.
LEMMA Others ==
  ASSUME TypeInv, NEW t \in Tasks, NEW k, task' = [task EXCEPT ![t] = k]
  PROVE  task'[t] = k /\ \A u \in Tasks : u # t => task'[u] = task[u]
BY DEF TypeInv, TypeOK

LEMMA EditsStart ==
  ASSUME TypeInv, EditsInv, NEW t \in Tasks, Start(t)
  PROVE  EditsInv'
<1> USE DEF Begin, serverVars, storeVars, countVars, editVars
<1>1. PageOK /\ Nil \notin Paths /\ Nil \notin Nat
  BY NilAssumption DEF TypeInv, TypeOK, PageOK
<1>2. EditsAreMarked /\ lost \subseteq exposed
  BY DEF EditsInv, LostOnlyToARace
<1>3. ASSUME NEW p \in Paths, Switch(t, p) PROVE EditsInv'
  <2>1. task' = [task EXCEPT ![t] = Request("open", p)]
    BY <1>3 DEF Switch
  <2>2. UNCHANGED <<notebooks, selected, lost, exposed>>
    BY <1>3 DEF Switch
  <2>3. \A x \in Paths : typed'[x] \in {typed[x], Nil}
    BY <1>1, <1>3 DEF Switch, PageOK
  <2>4. EditsAreMarked'
    BY <1>1, <1>2, <1>3 DEF Switch, EditsAreMarked, PageOK
  <2>5. \A x \in Paths : ~Safe(x) => Safe(x)'
    <3> SUFFICES ASSUME NEW x \in Paths, ~Safe(x) PROVE typed'[x] = Nil
      BY DEF Safe
    <3>1. x = selected /\ dirty[x]
      BY <1>2 DEF EditsInv, EditsAreMarked, Safe
    <3> QED BY <1>1, <1>3, <3>1 DEF Switch, PageOK
  <2> QED BY <1>2, <2>1, <2>2, <2>3, <2>4, <2>5, Others, EditsFrame
<1>4. ASSUME NEW k, task' = [task EXCEPT ![t] = k],
             UNCHANGED <<notebooks, dirty, selected, lost>>,
             \A x \in Paths : typed'[x] \in {typed[x], Nil},
             exposed \subseteq exposed',
             \A x \in Paths :
               ~Safe(x) /\ x = selected => Safe(x)' \/ Spares(k, x, typed[x])
      PROVE  EditsInv'
  <2>1. EditsAreMarked'
    BY <1>2, <1>4, MarksFrame
  <2>2. \A x \in Paths : ~Safe(x) => x = selected
    BY DEF EditsInv
  <2>3. task'[t] = k /\ \A u \in Tasks : u # t => task'[u] = task[u]
    BY <1>4, Others
  <2> QED BY <1>2, <1>4, <2>1, <2>2, <2>3, EditsFrame
<1>5. ASSUME NEW p \in Paths, Create(t, p) PROVE EditsInv'
  <2>1. PICK k : k = Request("create", p)
    OBVIOUS
  <2>2. Asks(k, "create", p, Nil, FALSE)
    BY <2>1, RequestAsks DEF Ops
  <2>3. k.op = "create" /\ k.path = p
    BY <2>2, AskFields
  <2>4. Safe(p)' /\ exposed \subseteq exposed' /\ typed' = typed
    BY <1>5 DEF Create, Expect, Safe
  <2>5. \A x \in Paths : ~Safe(x) => Safe(x)' \/ Spares(k, x, typed[x])
    BY <2>3, <2>4 DEF Spares
  <2> QED BY <1>4, <1>5, <2>1, <2>4, <2>5 DEF Create
<1>6. ASSUME NEW p \in Paths, Delete(t, p) PROVE EditsInv'
  <2>1. PICK b \in BOOLEAN : b = (selected = p)
    OBVIOUS
  <2>2. PICK k : k = [Request("delete", p) EXCEPT !.selected = b]
    OBVIOUS
  <2>3. Asks(k, "delete", p, Nil, b)
    BY <2>2, RequestsAsk DEF Ops
  <2>4. k.op = "delete" /\ k.path = p /\ k.selected = b
    BY <2>3, AskFields
  <2>5. Safe(p)' /\ \A x \in Paths : typed'[x] \in {typed[x], Nil}
    BY <1>1, <1>6 DEF Delete, Safe, PageOK
  <2>6. \A x \in Paths : ~Safe(x) /\ x = selected => Safe(x)' \/ Spares(k, x, typed[x])
    BY <2>1, <2>4, <2>5 DEF Spares
  <2>7. task' = [task EXCEPT ![t] = k]
    BY <1>6, <2>1, <2>2 DEF Delete
  <2> QED BY <1>4, <1>6, <2>5, <2>6, <2>7 DEF Delete
<1>7. ASSUME NEW p \in Paths, NEW q \in Paths \union {Nil}, p = selected,
             notebooks[p] # Nil, codes[p] # 0
      PROVE  \A x \in Paths :
               ~Safe(x) /\ x = selected => Spares(SaveRequest(p, q), x, typed[x])
  <2>1. PICK k : k = SaveRequest(p, q)
    OBVIOUS
  <2>2. notebooks[p] \in Documents \union {Nil} /\ codes[p] \in 0..MaxCodes
    BY <1>1 DEF PageOK
  <2>3. Asks(k, "save", p, q, FALSE) /\ k.doc = notebooks[p]
    BY <1>7, <2>1, <2>2, SaveAsks
  <2>4. k.op = "save" /\ k.path = p /\ k.step = "asked"
    BY <2>3, AskFields
  <2>5. ASSUME NEW x \in Paths, ~Safe(x), x = selected PROVE Spares(k, x, typed[x])
    BY <1>2, <1>7, <2>3, <2>4, <2>5 DEF Spares, Safe, EditsAreMarked
  <2>6. \A x \in Paths : ~Safe(x) /\ x = selected => Spares(k, x, typed[x])
    BY <2>5
  <2> QED BY <2>1, <2>6
<1>8. ASSUME NEW p \in Paths, NEW q \in Paths, Move(t, p, q) PROVE EditsInv'
  <2>1. typed' = typed /\ exposed \subseteq exposed' /\ Safe(q)'
    BY <1>8 DEF Move, Expect, Safe
  <2>2. UNCHANGED <<notebooks, dirty, selected, lost>>
    BY <1>8 DEF Move
  <2>3. CASE selected = p /\ dirty[p] /\ notebooks[p] # Nil /\ codes[p] # 0
    <3>1. task' = [task EXCEPT ![t] = SaveRequest(p, q)]
      BY <1>8, <2>3 DEF Move
    <3>2. \A x \in Paths :
            ~Safe(x) /\ x = selected => Spares(SaveRequest(p, q), x, typed[x])
      BY <1>7, <2>3
    <3> QED BY <1>4, <2>1, <2>2, <3>1, <3>2
  <2>4. CASE ~(selected = p /\ dirty[p] /\ notebooks[p] # Nil /\ codes[p] # 0)
    <3>1. PICK k : k = [Request("move", p) EXCEPT !.target = q]
      OBVIOUS
    <3>2. task' = [task EXCEPT ![t] = k] /\ (selected = p => ~dirty[p])
      BY <1>8, <2>4, <3>1 DEF Move
    <3>3. Asks(k, "move", p, q, FALSE)
      BY <3>1, RequestsAsk DEF Ops
    <3>4. k.op = "move" /\ k.path = p /\ k.target = q
      BY <3>3, AskFields
    <3>5. \A x \in Paths :
            ~Safe(x) /\ x = selected => Safe(x)' \/ Spares(k, x, typed[x])
      BY <1>2, <2>1, <3>2, <3>4 DEF Spares, Safe, EditsAreMarked
    <3> QED BY <1>4, <2>1, <2>2, <3>2, <3>5
  <2> QED BY <2>3, <2>4
<1>9. CASE Save(t)
  <2>1. /\ selected \in Paths /\ notebooks[selected] # Nil /\ codes[selected] # 0
        /\ task' = [task EXCEPT ![t] = SaveRequest(selected, Nil)]
        /\ UNCHANGED <<notebooks, dirty, selected, lost, typed, exposed>>
    BY <1>1, <1>9 DEF Save, PageOK
  <2>2. \A x \in Paths :
          ~Safe(x) /\ x = selected => Spares(SaveRequest(selected, Nil), x, typed[x])
    BY <1>7, <2>1
  <2> QED BY <1>4, <2>1, <2>2
<1> QED BY <1>3, <1>5, <1>6, <1>8, <1>9 DEF Start

\* The server answers a function or refuses.
LEMMA ServeKeeps ==
  ASSUME TypeInv, NEW t \in Tasks, Serve(t)
  PROVE  /\ task[t].step = "asked" /\ task[t].op # "none"
         /\ task'[t].step \in {"answered", "failed"}
         /\ task'[t].op = task[t].op /\ task'[t].path = task[t].path
         /\ task'[t].target = task[t].target /\ task'[t].selected = task[t].selected
         /\ \A u \in Tasks : u # t => task'[u] = task[u]
<1>1. task \in [Tasks -> Records]
  BY DEF TypeInv, TypeOK, Records
<1>2. task[t].step = "asked" /\ task[t].op # "none"
  BY DEF Serve, ServeOpen, ServeCreate, ServeSave, ServeMove, ServeDelete, Waiting
<1>3. ASSUME NEW p, NEW d, OpenSession(t, p, d) PROVE \E s : Answer(t, s)
  BY <1>3 DEF OpenSession
<1>4. Refuse(t) \/ \E s : Answer(t, s)
  BY <1>3 DEF Serve, ServeOpen, ServeCreate, ServeSave, ServeMove, ServeDelete
<1>5. CASE Refuse(t)
  <2>1. task' = [task EXCEPT ![t].step = "failed"]
    BY <1>5 DEF Refuse
  <2> QED BY <1>1, <1>2, <2>1 DEF Records
<1>6. ASSUME NEW s, Answer(t, s)
      PROVE  /\ task'[t].step = "answered"
             /\ task'[t].op = task[t].op /\ task'[t].path = task[t].path
             /\ task'[t].target = task[t].target
             /\ task'[t].selected = task[t].selected
             /\ \A u \in Tasks : u # t => task'[u] = task[u]
  <2>1. task' = [task EXCEPT ![t].step = "answered", ![t].answer = s]
    BY <1>6 DEF Answer
  <2> QED BY <1>1, <2>1 DEF Records
<1> QED BY <1>2, <1>4, <1>5, <1>6

LEMMA EditsServe ==
  ASSUME TypeInv, EditsInv, NEW t \in Tasks, Serve(t)
  PROVE  EditsInv'
<1>1. EditsAreMarked /\ lost \subseteq exposed
  BY DEF EditsInv, LostOnlyToARace
<1>2. UNCHANGED <<notebooks, dirty, selected, exposed, lost>>
  BY DEF Serve, storeVars
<1>3. /\ typed \in [Paths -> Documents \union {Nil}]
      /\ task[t].step = "asked" /\ task[t].path \in Paths
  BY ServeKeeps, TaskFields DEF TypeInv, TypeOK
<1>4. \A p \in Paths : typed'[p] \in {typed[p], Nil}
  BY <1>3 DEF Serve
<1>5. EditsAreMarked'
  BY <1>1, <1>2, <1>4, MarksFrame
<1>6. ASSUME NEW p \in Paths, ~Safe(p), ~Safe(p)'
      PROVE  Spares(task'[t], p, typed[p])
  <2>1. Spares(task[t], p, typed[p])
    BY <1>6 DEF EditsInv
  <2>2. CASE task[t].op = "save"
    <3>1. task[t].path = p /\ task[t].doc = typed[p]
      BY <1>3, <2>1, <2>2 DEF Spares, NoTask
    <3>2. task'[t].step # "answered"
      BY <1>3, <1>6, <2>2, <3>1 DEF Serve, Waiting, Safe
    <3> QED BY <2>2, <3>1, <3>2, ServeKeeps DEF Spares
  <2>3. CASE task[t].op # "save"
    BY <1>3, <2>1, <2>3, ServeKeeps DEF Spares, NoTask
  <2> QED BY <2>2, <2>3
<1> QED BY <1>1, <1>2, <1>4, <1>5, <1>6, ServeKeeps, EditsFrame

LEMMA EditsLose ==
  ASSUME TypeInv, EditsInv, NEW t \in Tasks, Lose(t)
  PROVE  EditsInv'
<1>1. PICK k \in Records : k = task[t] /\ task \in [Tasks -> Records]
  BY DEF TypeInv, TypeOK, Records
<1>2. PICK n : n = [k EXCEPT !.step = "failed", !.answer = NoSession]
  OBVIOUS
<1>3. task' = [task EXCEPT ![t] = n] /\ k.step \in {"asked", "answered"}
  BY <1>1, <1>2 DEF Lose
<1>4. /\ n.op = k.op /\ n.path = k.path /\ n.target = k.target
      /\ n.selected = k.selected /\ n.step = "failed"
  BY <1>1, <1>2 DEF Records
<1>5. task'[t] = n /\ \A u \in Tasks : u # t => task'[u] = task[u]
  BY <1>3, Others
<1>6. \A p \in Paths : ~Safe(p) => Spares(k, p, typed[p])
  BY <1>1 DEF EditsInv
<1>7. \A p \in Paths : Spares(k, p, typed[p]) => Spares(n, p, typed[p])
  BY <1>3, <1>4 DEF Spares, NoTask
<1>8. UNCHANGED <<notebooks, dirty, selected, typed, exposed, lost>>
  BY DEF Lose, storeVars, editVars
<1>9. EditsAreMarked' /\ lost \subseteq exposed
  BY <1>8 DEF EditsInv, LostOnlyToARace, EditsAreMarked
<1> QED BY <1>5, <1>6, <1>7, <1>8, <1>9, EditsFrame

\* A function ends, or moves the notebook it has saved.
LEMMA GoOnSpares ==
  ASSUME TypeInv, EditsInv, NEW t \in Tasks, GoOn(t), task[t].step # "idle"
  PROVE  /\ \A u \in Tasks : u # t => task'[u] = task[u]
         /\ \A p \in Paths : ~Safe(p) => Spares(task'[t], p, typed[p])
<1>1. task[t].path \in Paths
  BY TaskFields
<1>2. CASE task[t].op = "save" /\ task[t].target # Nil /\ ~dirty[task[t].path]
  <2>1. PICK k : k = [Request("move", task[t].path) EXCEPT !.target = task[t].target]
    OBVIOUS
  <2>2. task' = [task EXCEPT ![t] = k]
    BY <1>2, <2>1 DEF GoOn
  <2>3. ASSUME NEW p \in Paths PROVE Safe(p)
    <3>1. SUFFICES ASSUME ~Safe(p) PROVE FALSE
      OBVIOUS
    <3>2. Spares(task[t], p, typed[p]) /\ dirty[p]
      BY <3>1 DEF EditsInv, EditsAreMarked, Safe
    <3> QED BY <1>2, <3>2 DEF Spares, NoTask
  <2>4. task'[t] = k
    BY <2>2, Others
  <2> QED BY <2>2, <2>3, <2>4
<1>3. CASE ~(task[t].op = "save" /\ task[t].target # Nil /\ ~dirty[task[t].path])
  <2>1. task' = [task EXCEPT ![t] = NoTask]
    BY <1>3 DEF GoOn, Finish
  <2> QED BY <2>1, Others DEF Spares
<1> QED BY <1>2, <1>3

LEMMA EditsContinue ==
  ASSUME TypeInv, EditsInv, NEW t \in Tasks, Continue(t)
  PROVE  EditsInv'
<1> USE DEF serverVars, storeVars, countVars, editVars
<1>1. PageOK /\ Nil \notin Paths /\ Nil \notin Nat
  BY NilAssumption DEF TypeInv, TypeOK, PageOK
<1>2. EditsAreMarked /\ lost \subseteq exposed
  BY DEF EditsInv, LostOnlyToARace
<1>3. \A p \in Paths :
        ~Safe(p) => p = selected /\ \A u \in Tasks : Spares(task[u], p, typed[p])
  BY DEF EditsInv
<1>4. ASSUME List(t), task[t].step # "idle"
      PROVE  /\ \A u \in Tasks : u # t => task'[u] = task[u]
             /\ task'[t].op = task[t].op /\ task'[t].path = task[t].path
             /\ task'[t].target = task[t].target
             /\ task'[t].selected = task[t].selected
  BY <1>4 DEF List, TypeInv, TypeOK
<1>5. CASE TakeSession(t)
  <2>1. task[t].step = "answered" /\ task[t].op \in {"open", "create", "save"}
    BY <1>5 DEF TakeSession, Waiting
  <2>2. PICK s \in Sessions :
          s = task[t].answer /\ (task[t].op = "create" => s.path = task[t].path)
    BY <2>1 DEF TypeInv, Shaped, NoTask
  <2>3. s.path \in Paths /\ s.doc \in Documents
    BY DEF Sessions
  <2>4. SetSession(s, task[t].op)
    <3>1. SetSession(task[t].answer, task[t].op)
      BY <1>5 DEF TakeSession
    <3>2. s = task[t].answer
      BY <2>2
    <3> QED BY <3>1, <3>2, Zenon
  <2>5. \A p \in Paths : typed'[p] = IF p = s.path THEN Nil ELSE typed[p]
    BY <1>1, <2>3, <2>4 DEF SetSession, PageOK
  <2>6. EditsAreMarked'
    BY <1>1, <1>2, <2>3, <2>4, <2>5 DEF SetSession, EditsAreMarked, PageOK
  <2>7. ASSUME NEW p \in Paths, ~Safe(p)
        PROVE  task[t].op = "create" /\ p = selected /\ p # s.path /\ p \in exposed'
    <3>1. p = selected /\ Spares(task[t], p, typed[p]) /\ typed[p] # Nil
      BY <1>3, <2>7 DEF Safe
    <3>2. task[t].op = "create" /\ task[t].path # p
      BY <2>1, <3>1 DEF Spares, NoTask
    <3>3. s.path = task[t].path /\ s.path # p
      BY <2>2, <3>2
    <3>4. exposed' = IF task[t].op = "create" /\ selected \notin {Nil, s.path}
                         /\ typed[selected] # Nil
                     THEN exposed \union {selected} ELSE exposed
      BY <2>4 DEF SetSession, Leave
    <3>5. selected \notin {Nil, s.path} /\ typed[selected] # Nil
      BY <1>1, <3>1, <3>3
    <3>6. exposed' = exposed \union {selected}
      BY <3>2, <3>4, <3>5
    <3> QED BY <3>1, <3>2, <3>3, <3>6
  <2>8. exposed \subseteq exposed'
    BY <2>4 DEF SetSession, Leave
  <2>9. lost' \subseteq exposed'
    BY <1>2, <2>3, <2>4, <2>7, <2>8 DEF SetSession, Saved, Safe
  <2>10. \A p \in Paths : Safe(p)'
    BY <2>5, <2>7, <2>8 DEF Safe
  <2> QED BY <2>6, <2>9, <2>10 DEF EditsInv, LostOnlyToARace
<1>6. CASE TakeMove(t)
  <2>1. task[t].step = "answered" /\ task[t].op = "move"
    BY <1>6 DEF TakeMove, Waiting
  <2>2. PICK p \in Paths, q \in Paths : p = task[t].path /\ q = task[t].target
    BY <2>1, TaskFields
  <2>3. Rename(p, q)
    BY <1>6, <2>2 DEF TakeMove
  <2>4. \A x \in Paths : ~Safe(x) => x = selected /\ x # p /\ x # q
    BY <1>3, <2>1, <2>2 DEF Spares, NoTask
  <2>5. \A x \in Paths : typed'[x] = IF x = p THEN Nil
                                     ELSE IF x = q /\ notebooks[p] # Nil THEN typed[p]
                                     ELSE typed[x]
    BY <1>1, <2>3 DEF Rename, RenameDocument, Renamed, PageOK
  <2>6. EditsAreMarked'
    <3>1. \A x \in Paths : dirty'[x] = IF x = p THEN FALSE
                                     ELSE IF x = q /\ notebooks[p] # Nil THEN dirty[p]
                                     ELSE dirty[x]
      BY <1>1, <2>3 DEF Rename, Renamed, PageOK
    <3>2. \A x \in Paths : notebooks'[x] = IF x = p THEN Nil
                                     ELSE IF x = q /\ notebooks[p] # Nil
                                            THEN notebooks[p]
                                     ELSE notebooks[x]
      BY <1>1, <2>3 DEF Rename, RenameDocument, Renamed, PageOK
    <3> QED BY <1>2, <2>5, <3>1, <3>2 DEF EditsAreMarked
  <2>7. exposed \subseteq exposed' /\ (p \in exposed => q \in exposed')
    BY <2>3 DEF Rename, RenameDocument
  <2>8. lost' \subseteq exposed'
    BY <1>2, <2>3, <2>4, <2>7 DEF Rename, RenameDocument, Safe
  <2>9. ASSUME NEW x \in Paths, ~Safe(x)'
        PROVE  /\ ~Safe(x) /\ x # p /\ x # q /\ x = selected' /\ typed'[x] = typed[x]
    <3>1. x # p /\ x # q
      BY <2>4, <2>5, <2>7, <2>9 DEF Safe
    <3>2. ~Safe(x) /\ typed'[x] = typed[x]
      BY <2>5, <2>7, <2>9, <3>1 DEF Safe
    <3> QED BY <2>3, <2>4, <3>1, <3>2 DEF Rename, RenameDocument
  <2>10. ASSUME NEW x \in Paths, ~Safe(x)', NEW u \in Tasks
         PROVE  Spares(task'[u], x, typed'[x])
    <3>1. Spares(task[u], x, typed'[x])
      BY <1>3, <2>9, <2>10
    <3>2. CASE u = t
      BY <1>4, <1>6, <2>1, <2>2, <2>9, <2>10, <3>2 DEF Spares, TakeMove
    <3>3. CASE u # t
      BY <1>4, <1>6, <2>1, <3>1, <3>3 DEF TakeMove
    <3> QED BY <3>2, <3>3
  <2> QED BY <2>6, <2>8, <2>9, <2>10 DEF EditsInv, LostOnlyToARace
<1>7. CASE TakeDelete(t)
  <2>1. task[t].step = "answered" /\ task[t].op = "delete" /\ task[t].path \in Paths
    BY <1>7, TaskFields DEF TakeDelete, Waiting
  <2>2. PICK p \in Paths, b \in BOOLEAN :
          p = task[t].path /\ b = task[t].selected /\ Remove(p, b)
    BY <1>7, <2>1, TaskFields DEF TakeDelete, Records
  <2>3. exposed' = exposed
    BY <1>7 DEF TakeDelete
  <2>4. \A x \in Paths : ~Safe(x) => x = selected /\ x # p /\ ~b
    BY <1>3, <2>1, <2>2 DEF Spares, NoTask
  <2>5. \A x \in Paths : typed'[x] = IF x = p THEN Nil ELSE typed[x]
    BY <1>1, <2>2 DEF Remove, PageOK
  <2>6. EditsAreMarked'
    BY <1>1, <1>2, <2>2, <2>5 DEF Remove, EditsAreMarked, PageOK
  <2>7. lost' \subseteq exposed'
    BY <1>2, <2>2, <2>3, <2>4 DEF Remove, Safe
  <2>8. ASSUME NEW x \in Paths, ~Safe(x)'
        PROVE  /\ ~Safe(x) /\ x # p /\ ~b /\ x = selected' /\ typed'[x] = typed[x]
    BY <2>2, <2>3, <2>4, <2>5, <2>8 DEF Safe, Remove
  <2>9. ASSUME NEW x \in Paths, ~Safe(x)', NEW u \in Tasks
        PROVE  Spares(task'[u], x, typed'[x])
    <3>1. Spares(task[u], x, typed'[x])
      BY <1>3, <2>8, <2>9
    <3>2. CASE u = t
      BY <1>4, <1>7, <2>1, <2>2, <2>8, <2>9, <3>2 DEF Spares, TakeDelete
    <3>3. CASE u # t
      BY <1>4, <1>7, <2>1, <3>1, <3>3 DEF TakeDelete
    <3> QED BY <3>2, <3>3
  <2> QED BY <2>6, <2>7, <2>8, <2>9 DEF EditsInv, LostOnlyToARace
<1>8. CASE Fail(t)
  <2>1. UNCHANGED <<notebooks, dirty, selected, typed, exposed, lost>>
    BY <1>8 DEF Fail
  <2>2. EditsAreMarked'
    BY <1>2, <2>1, MarksFrame
  <2>3. /\ \A u \in Tasks : u # t => task'[u] = task[u]
        /\ \A p \in Paths : ~Safe(p) => Spares(task'[t], p, typed[p])
    BY <1>8, GoOnSpares DEF Fail
  <2> QED BY <1>2, <2>1, <2>2, <2>3, EditsFrame
<1>9. CASE TakeList(t)
  <2>1. /\ task[t].step = "list" /\ exposed \subseteq exposed'
        /\ UNCHANGED <<notebooks, dirty, selected, typed, lost>>
    BY <1>9 DEF TakeList, Expect
  <2>2. EditsAreMarked'
    BY <1>2, <2>1, MarksFrame
  <2>3. /\ \A u \in Tasks : u # t => task'[u] = task[u]
        /\ \A p \in Paths : ~Safe(p) => Spares(task'[t], p, typed[p])
    <3>1. CASE task[t].op # "delete" \/ ~task[t].selected
      BY <1>9, <2>1, <3>1, GoOnSpares DEF TakeList
    <3>2. CASE ~(task[t].op # "delete" \/ ~task[t].selected)
      <4>1. \A p \in Paths : Safe(p)
        BY <1>3, <3>2 DEF Spares, NoTask
      <4>2. PICK k : task' = [task EXCEPT ![t] = k]
        BY <1>9, <3>2 DEF TakeList
      <4> QED BY <4>1, <4>2, Others
    <3> QED BY <3>1, <3>2
  <2> QED BY <1>2, <2>1, <2>2, <2>3, EditsFrame
<1> QED BY <1>5, <1>6, <1>7, <1>8, <1>9 DEF Continue

LEMMA EditsEdit ==
  ASSUME TypeInv, EditsInv, Edit
  PROVE  EditsInv'
<1>1. PageOK /\ Nil \notin Paths /\ Nil \notin Nat /\ selected \in Paths
      /\ edits + 1 # Nil
  BY NilAssumption, BoundsAssumption DEF TypeInv, TypeOK, PageOK, Edit
<1>2. /\ \A p \in Paths : typed'[p] = IF p = selected THEN edits + 1 ELSE typed[p]
      /\ exposed \subseteq exposed' /\ lost' = lost /\ selected' = selected
      /\ task' = task /\ (Busy # {} => selected \in exposed')
  BY <1>1 DEF Edit, PageOK
<1>3. EditsAreMarked'
  BY <1>1, <1>2 DEF EditsInv, EditsAreMarked, Edit, PageOK
<1>4. ASSUME NEW p \in Paths, ~Safe(p)'
      PROVE  p = selected /\ \A t \in Tasks : Spares(task[t], p, typed'[p])
  <2>1. p = selected
    BY <1>2, <1>4 DEF EditsInv, Safe
  <2>2. Busy = {}
    BY <1>2, <1>4, <2>1 DEF Safe
  <2> QED BY <2>1, <2>2 DEF Busy, Spares
<1> QED BY <1>2, <1>3, <1>4 DEF EditsInv, LostOnlyToARace

LEMMA EditsNext == TypeInv /\ EditsInv /\ [Next]_vars => EditsInv'
<1> SUFFICES ASSUME TypeInv, EditsInv, [Next]_vars PROVE EditsInv'
  OBVIOUS
<1>1. CASE UNCHANGED vars
  BY <1>1
     DEF vars, storeVars, editVars, EditsInv, EditsAreMarked, LostOnlyToARace, Safe
<1> QED BY <1>1, EditsEdit, EditsStart, EditsServe, EditsLose, EditsContinue DEF Next

\* An unsaved edit stays on the page, marked as unsaved, until it is saved or given
\* up; it is overwritten only where it was exposed, by an answer that arrives after
\* the user typed, left or asked again (setSessionState, renameNotebookState and
\* removeNotebookState look neither at what was typed nor at the question).
THEOREM EditsAlwaysSurvive == Spec => []EditsSurvive
<1>1. Init => EditsInv
  BY DEF Init, EditsInv, EditsAreMarked, LostOnlyToARace, Safe
<1>2. EditsInv => EditsSurvive
  BY DEF EditsInv, EditsSurvive
<1> QED BY <1>1, <1>2, TypeInit, TypeNext, EditsNext, PTL DEF Spec

-----------------------------------------------------------------------------
(* What the page knows of the server, as long as no message was lost and no two *)
(* functions ran at a time (faulty is FALSE).                                   *)

\* A session is bound to one notebook, a notebook to one session.
ServerOK ==
  /\ \A c \in Codes : served[c] # Nil => c <= issued /\ disk[served[c]] # Nil
  /\ \A b, c \in Codes : served[b] = served[c] /\ served[b] # Nil => b = c

\* One function at most is under way.
Alone == \A t, u \in Tasks : task[t] # NoTask /\ task[u] # NoTask => t = u

\* The answer of the move or the deletion of p is on its way.
Moves(k, p) == k.op \in {"move", "delete"} /\ k.step = "answered" /\ k.path = p

\* The page has a code for p exactly when it has the document, and unless p is being
\* moved or removed the server's session of that code is p's.
Known(p) ==
  /\ notebooks[p] = Nil <=> codes[p] = 0
  /\ codes[p] # 0 /\ (\A t \in Tasks : ~Moves(task[t], p)) => served[codes[p]] = p

\* An answer on its way tells what the server did.
Informed(t) ==
  LET k == task[t] IN
  /\ k.op \in {"open", "create", "save"} /\ k.step = "answered" =>
       served[k.answer.code] = k.answer.path
  /\ k.op = "move" /\ k.step = "answered" =>
       /\ k.path # k.target
       /\ codes[k.path] # 0 => served[codes[k.path]] = k.target
       /\ codes[k.target] = 0
  /\ k.op = "delete" /\ k.step \in {"asked", "answered"} =>
       (k.selected <=> selected = k.path)

\* The server's part holds whatever goes wrong, the page's part without faults.
AgreeInv ==
  /\ ServerOK
  /\ ~faulty => /\ Alone
                /\ \A p \in Paths : Known(p)
                /\ \A t \in Tasks : Informed(t)
                /\ selected # Nil => notebooks[selected] # Nil

\* While isSaving is set a save is under way, or has failed and will reset it.
SavingInv ==
  isSaving => \E t \in Tasks : task[t].op = "save" /\ task[t].step # "list"

\* AgreeInv and SavingInv give PageAgrees.
LEMMA AgreeMeans == TypeInv /\ AgreeInv => SelectedIsServed
<1> SUFFICES ASSUME TypeInv, AgreeInv, Busy = {}, ~faulty, selected # Nil
             PROVE  notebooks[selected] # Nil /\ CodeAt(selected) = {codes[selected]}
  BY DEF SelectedIsServed
<1>1. selected \in Paths /\ notebooks[selected] # Nil /\ codes[selected] \in 0..MaxCodes
  BY DEF TypeInv, TypeOK, AgreeInv
<1>2. \A t \in Tasks : ~Moves(task[t], selected)
  BY DEF Busy, Moves, NoTask
<1>3. served[codes[selected]] = selected /\ codes[selected] \in Codes
  BY <1>1, <1>2, BoundsAssumption DEF AgreeInv, Known, Codes
<1>4. \A b, c \in Codes : served[b] = served[c] /\ served[b] # Nil => b = c
  BY DEF AgreeInv, ServerOK
<1> QED BY <1>1, <1>3, <1>4 DEF CodeAt

LEMMA SavingMeans == SavingInv => SavingIsUnderWay
BY DEF SavingInv, SavingIsUnderWay, Busy, NoTask

\* Nobody else runs after the step of t.
LEMMA AgreeFrame ==
  ASSUME TypeInv, NEW t \in Tasks, NEW k, task' = [task EXCEPT ![t] = k],
         \A u \in Tasks : u # t => task[u] = NoTask, ServerOK',
         \A p \in Paths :
           /\ notebooks'[p] = Nil <=> codes'[p] = 0
           /\ codes'[p] # 0 /\ ~Moves(k, p) => served'[codes'[p]] = p,
         Informed(t)', selected' # Nil => notebooks'[selected'] # Nil
  PROVE  AgreeInv'
<1>1. task'[t] = k /\ \A u \in Tasks : u # t => task'[u] = NoTask
  BY Others
<1>2. Alone'
  BY <1>1 DEF Alone
<1>3. \A p \in Paths : Known(p)'
  BY <1>1 DEF Known
<1>4. \A u \in Tasks : Informed(u)'
  BY <1>1 DEF Informed, NoTask
<1> QED BY <1>2, <1>3, <1>4 DEF AgreeInv

LEMMA AgreeStart ==
  ASSUME TypeInv, AgreeInv, NEW t \in Tasks, Start(t), ~faulty'
  PROVE  AgreeInv'
<1> USE DEF Begin, serverVars, storeVars, countVars, editVars
<1>1. PageOK /\ Nil \notin Paths
  BY NilAssumption DEF TypeInv, TypeOK, PageOK
<1>2. ~faulty /\ Busy = {}
  BY DEF Start, Switch, Create, Save, Move, Delete
<1>3. \A u \in Tasks : task[u] = NoTask
  BY <1>2 DEF Busy
<1>4. \A p \in Paths :
        /\ notebooks[p] = Nil <=> codes[p] = 0
        /\ codes[p] # 0 => served[codes[p]] = p
  <2>1. \A u \in Tasks, p \in Paths : ~Moves(task[u], p)
    BY <1>3 DEF Moves, NoTask
  <2> QED BY <1>2, <2>1 DEF AgreeInv, Known
<1>5. UNCHANGED <<serverVars, notebooks, codes, selected>>
  BY DEF Start, Switch, Create, Save, Move, Delete
<1>6. ASSUME NEW k, task' = [task EXCEPT ![t] = k], k.step = "asked",
             k.op = "delete" => (k.selected <=> selected = k.path)
      PROVE  AgreeInv'
  <2>1. ServerOK'
    BY <1>5 DEF AgreeInv, ServerOK
  <2>2. Informed(t)'
    BY <1>5, <1>6, Others DEF Informed
  <2>3. selected' # Nil => notebooks'[selected'] # Nil
    BY <1>2, <1>5 DEF AgreeInv
  <2>4. \A p \in Paths :
          /\ notebooks'[p] = Nil <=> codes'[p] = 0
          /\ codes'[p] # 0 => served'[codes'[p]] = p
    BY <1>4, <1>5
  <2> QED BY <1>3, <1>6, <2>1, <2>2, <2>3, <2>4, AgreeFrame
<1>7. ASSUME NEW p \in Paths, NEW op \in {"open", "create"},
             task' = [task EXCEPT ![t] = Request(op, p)]
      PROVE  AgreeInv'
  <2>1. PICK k : k = Request(op, p)
    OBVIOUS
  <2>2. Asks(k, op, p, Nil, FALSE)
    BY <2>1, RequestAsks DEF Ops
  <2>3. k.op = op /\ k.step = "asked"
    BY <2>2, AskFields
  <2> QED BY <1>6, <1>7, <2>1, <2>3
<1>8. ASSUME NEW p \in Paths, Delete(t, p) PROVE AgreeInv'
  <2>1. PICK b \in BOOLEAN : b = (selected = p)
    OBVIOUS
  <2>2. PICK k : k = [Request("delete", p) EXCEPT !.selected = b]
    OBVIOUS
  <2>3. Asks(k, "delete", p, Nil, b)
    BY <2>2, RequestsAsk DEF Ops
  <2>4. k.step = "asked" /\ k.path = p /\ k.selected = b
    BY <2>3, AskFields
  <2>5. task' = [task EXCEPT ![t] = k]
    BY <1>8, <2>1, <2>2 DEF Delete
  <2> QED BY <1>6, <2>1, <2>4, <2>5
<1>9. ASSUME NEW p \in Paths, NEW q \in Paths \union {Nil}, notebooks[p] # Nil,
             codes[p] # 0, task' = [task EXCEPT ![t] = SaveRequest(p, q)]
      PROVE  AgreeInv'
  <2>1. PICK k : k = SaveRequest(p, q)
    OBVIOUS
  <2>2. notebooks[p] \in Documents \union {Nil} /\ codes[p] \in 0..MaxCodes
    BY <1>1 DEF PageOK
  <2>3. Asks(k, "save", p, q, FALSE)
    BY <1>9, <2>1, <2>2, SaveAsks
  <2>4. k.op = "save" /\ k.step = "asked"
    BY <2>3, AskFields
  <2> QED BY <1>6, <1>9, <2>1, <2>4
<1>10. ASSUME NEW p \in Paths, NEW q \in Paths, Move(t, p, q) PROVE AgreeInv'
  <2>1. CASE selected = p /\ dirty[p] /\ notebooks[p] # Nil /\ codes[p] # 0
    BY <1>9, <1>10, <2>1 DEF Move
  <2>2. CASE ~(selected = p /\ dirty[p] /\ notebooks[p] # Nil /\ codes[p] # 0)
    <3>1. PICK k : k = [Request("move", p) EXCEPT !.target = q]
      OBVIOUS
    <3>2. task' = [task EXCEPT ![t] = k]
      BY <1>10, <2>2, <3>1 DEF Move
    <3>3. Asks(k, "move", p, q, FALSE)
      BY <3>1, RequestsAsk DEF Ops
    <3>4. k.op = "move" /\ k.step = "asked"
      BY <3>3, AskFields
    <3> QED BY <1>6, <3>2, <3>4
  <2> QED BY <2>1, <2>2
<1>11. CASE Save(t)
  <2>1. /\ selected \in Paths /\ notebooks[selected] # Nil /\ codes[selected] # 0
        /\ task' = [task EXCEPT ![t] = SaveRequest(selected, Nil)]
    BY <1>1, <1>11 DEF Save, PageOK
  <2> QED BY <1>9, <2>1
<1>12. ASSUME NEW p \in Paths, Switch(t, p) \/ Create(t, p) PROVE AgreeInv'
  BY <1>7, <1>12 DEF Switch, Create
<1> QED BY <1>8, <1>10, <1>11, <1>12 DEF Start

\* The server binds a new session or moves, removes or writes a notebook.
LEMMA ServerNext ==
  ASSUME TypeInv, ServerOK, NEW t \in Tasks, Serve(t)
  PROVE  ServerOK'
<1> USE DEF serverVars
<1>1. /\ disk \in [Paths -> Documents \union {Nil}]
      /\ served \in [Codes -> Paths \union {Nil}] /\ issued \in 0..MaxCodes
      /\ Nil \notin Paths /\ Nil \notin Nat
  BY NilAssumption DEF TypeInv, TypeOK
<1>2. task[t].path \in Paths /\ task[t].doc \in Documents
  BY ServeKeeps, TaskFields DEF Records
<1>3. CASE UNCHANGED served /\ issued' = issued
           /\ \A p \in Paths : disk[p] # Nil => disk'[p] # Nil
  BY <1>1, <1>3 DEF ServerOK
<1>4. CASE /\ issued < MaxCodes /\ issued' = issued + 1
           /\ served' = [served EXCEPT ![issued + 1] = task[t].path]
           /\ \A p \in Paths : disk[p] # Nil => disk'[p] # Nil
           /\ CodeAt(task[t].path) = {} /\ disk'[task[t].path] # Nil
  <2>1. issued + 1 \in Codes /\ \A c \in Codes : c \in Nat
    BY <1>1, <1>4, BoundsAssumption DEF Codes
  <2>2. \A c \in Codes :
          served'[c] = IF c = issued + 1 THEN task[t].path ELSE served[c]
    BY <1>1, <1>4
  <2>3. \A c \in Codes : served[c] # task[t].path
    BY <1>4 DEF CodeAt
  <2>4. \A c \in Codes : served'[c] # Nil => c <= issued' /\ disk'[served'[c]] # Nil
    <3> SUFFICES ASSUME NEW c \in Codes, served'[c] # Nil
                 PROVE  c <= issued' /\ disk'[served'[c]] # Nil
      OBVIOUS
    <3>1. CASE c = issued + 1
      BY <1>1, <1>4, <2>1, <2>2, <3>1
    <3>2. CASE c # issued + 1
      <4>1. c <= issued /\ disk[served[c]] # Nil /\ served'[c] = served[c]
        BY <2>2, <3>2 DEF ServerOK
      <4> QED BY <1>1, <1>4, <2>1, <4>1
    <3> QED BY <3>1, <3>2
  <2>5. \A b, c \in Codes : served'[b] = served'[c] /\ served'[b] # Nil => b = c
    BY <2>2, <2>3 DEF ServerOK
  <2> QED BY <2>4, <2>5 DEF ServerOK
<1>5. CASE ServeOpen(t)
  <2>1. CASE disk[task[t].path] = Nil
    BY <1>3, <1>5, <2>1 DEF ServeOpen, Refuse
  <2>2. CASE disk[task[t].path] # Nil /\ CodeAt(task[t].path) # {}
    BY <1>3, <1>5, <2>2 DEF ServeOpen, OpenSession
  <2>3. CASE disk[task[t].path] # Nil /\ CodeAt(task[t].path) = {}
    BY <1>4, <1>5, <2>3 DEF ServeOpen, OpenSession
  <2> QED BY <2>1, <2>2, <2>3
<1>6. CASE ServeCreate(t)
  <2>1. CASE disk[task[t].path] # Nil
    BY <1>3, <1>6, <2>1 DEF ServeCreate, Refuse
  <2>2. CASE disk[task[t].path] = Nil
    <3>1. disk' = [disk EXCEPT ![task[t].path] = 0] /\ OpenSession(t, task[t].path, 0)
      BY <1>6, <2>2 DEF ServeCreate
    <3>2. /\ \A p \in Paths : disk[p] # Nil => disk'[p] # Nil
          /\ disk'[task[t].path] # Nil
      BY <1>1, <1>2, <3>1
    <3>3. CASE CodeAt(task[t].path) # {}
      BY <1>3, <3>1, <3>2, <3>3 DEF OpenSession
    <3>4. CASE CodeAt(task[t].path) = {}
      BY <1>4, <3>1, <3>2, <3>4 DEF OpenSession
    <3> QED BY <3>3, <3>4
  <2> QED BY <2>1, <2>2
<1>7. CASE ServeSave(t)
  <2>1. CASE served[task[t].code] # task[t].path
    BY <1>3, <1>7, <2>1 DEF ServeSave, Refuse
  <2>2. CASE served[task[t].code] = task[t].path
    <3>1. disk' = [disk EXCEPT ![served[task[t].code]] = task[t].doc]
          /\ UNCHANGED <<served, issued>>
      BY <1>7, <2>2 DEF ServeSave
    <3>2. task[t].doc # Nil
      BY <1>1, <1>2, BoundsAssumption DEF Documents
    <3>3. \A p \in Paths : disk[p] # Nil => disk'[p] # Nil
      BY <1>1, <3>1, <3>2
    <3> QED BY <1>3, <3>1, <3>3
  <2> QED BY <2>1, <2>2
<1>8. CASE ServeMove(t)
  <2>1. CASE disk[task[t].path] = Nil \/ disk[task[t].target] # Nil
    BY <1>3, <1>8, <2>1 DEF ServeMove, Refuse
  <2>2. CASE ~(disk[task[t].path] = Nil \/ disk[task[t].target] # Nil)
    <3>1. PICK p \in Paths, q \in Paths : p = task[t].path /\ q = task[t].target
      BY <1>8, ServeKeeps, TaskFields DEF ServeMove, Waiting
    <3>2. /\ disk[p] # Nil /\ disk[q] = Nil /\ issued' = issued
          /\ disk' = [disk EXCEPT ![q] = disk[p], ![p] = Nil]
          /\ served' = [c \in Codes |-> IF served[c] = p THEN q ELSE served[c]]
      BY <1>8, <2>2, <3>1 DEF ServeMove
    <3>3. \A c \in Codes : served[c] # q
      BY <1>1, <3>1, <3>2 DEF ServerOK
    <3>4. \A c \in Codes : served'[c] # Nil => c <= issued' /\ disk'[served'[c]] # Nil
      BY <1>1, <3>1, <3>2, <3>3 DEF ServerOK
    <3>5. \A b, c \in Codes : served'[b] = served'[c] /\ served'[b] # Nil => b = c
      BY <1>1, <3>1, <3>2, <3>3 DEF ServerOK
    <3> QED BY <3>4, <3>5 DEF ServerOK
  <2> QED BY <2>1, <2>2
<1>9. CASE ServeDelete(t)
  <2>1. CASE disk[task[t].path] = Nil
    BY <1>3, <1>9, <2>1 DEF ServeDelete, Refuse
  <2>2. CASE disk[task[t].path] # Nil
    <3>1. PICK p \in Paths : p = task[t].path
      BY <1>2
    <3>2. /\ disk' = [disk EXCEPT ![p] = Nil] /\ issued' = issued
          /\ served' = [c \in Codes |-> IF served[c] = p THEN Nil ELSE served[c]]
      BY <1>9, <2>2, <3>1 DEF ServeDelete
    <3>3. \A c \in Codes : served'[c] # Nil => c <= issued' /\ disk'[served'[c]] # Nil
      BY <1>1, <3>1, <3>2 DEF ServerOK
    <3>4. \A b, c \in Codes : served'[b] = served'[c] /\ served'[b] # Nil => b = c
      BY <1>1, <3>1, <3>2 DEF ServerOK
    <3> QED BY <3>3, <3>4 DEF ServerOK
  <2> QED BY <2>1, <2>2
<1> QED BY <1>5, <1>6, <1>7, <1>8, <1>9 DEF Serve

\* With one function at a time, the others are idle while one goes on.
LEMMA AloneFacts ==
  ASSUME TypeInv, AgreeInv, ~faulty, NEW t \in Tasks, task[t].op # "none"
  PROVE  /\ \A u \in Tasks : u # t => task[u] = NoTask
         /\ Informed(t)
         /\ \A p \in Paths :
              /\ notebooks[p] = Nil <=> codes[p] = 0
              /\ codes[p] # 0 /\ ~Moves(task[t], p) => served[codes[p]] = p
         /\ selected # Nil => notebooks[selected] # Nil
<1>1. \A u \in Tasks : u # t => task[u] = NoTask
  <2>1. task[t] # NoTask
    BY DEF NoTask
  <2> QED BY <2>1 DEF AgreeInv, Alone
<1>2. \A u \in Tasks, p \in Paths : Moves(task[u], p) => u = t
  BY <1>1 DEF Moves, NoTask
<1> QED BY <1>1, <1>2 DEF AgreeInv, Known

LEMMA AgreeServe ==
  ASSUME TypeInv, AgreeInv, NEW t \in Tasks, Serve(t), ~faulty'
  PROVE  AgreeInv'
<1> USE DEF serverVars
<1>1. PageOK /\ Nil \notin Paths /\ Nil \notin Nat
  BY NilAssumption DEF TypeInv, TypeOK, PageOK
<1>2. PICK k \in Records : k = task[t] /\ task \in [Tasks -> Records]
  BY DEF TypeInv, TypeOK, Records
<1>3. /\ k.step = "asked" /\ k.op # "none" /\ k.path \in Paths
      /\ k.op = "move" => k.target \in Paths
      /\ k.op = "save" => k.code \in Codes
  BY <1>2, ServeKeeps, TaskFields
<1>4. ~faulty /\ UNCHANGED <<notebooks, codes, selected>>
  BY DEF Serve, storeVars
<1>5. /\ \A u \in Tasks : u # t => task[u] = NoTask
      /\ \A p \in Paths :
           /\ notebooks[p] = Nil <=> codes[p] = 0
           /\ codes[p] # 0 => served[codes[p]] = p /\ codes[p] \in Codes
      /\ selected # Nil => notebooks[selected] # Nil
      /\ Informed(t)
  <2>1. \A p \in Paths : ~Moves(task[t], p)
    BY <1>2, <1>3 DEF Moves
  <2>2. \A p \in Paths : codes[p] # 0 => codes[p] \in Codes
    BY <1>1, BoundsAssumption DEF PageOK, Codes
  <2> QED BY <1>2, <1>3, <1>4, <2>1, <2>2, AloneFacts
<1>6. ServerOK /\ ServerOK'
  BY ServerNext DEF AgreeInv
<1>7. ASSUME NEW n, task' = [task EXCEPT ![t] = n], Informed(t)',
             \A p \in Paths : codes[p] # 0 /\ ~Moves(n, p) => served'[codes[p]] = p
      PROVE  AgreeInv'
  BY <1>4, <1>5, <1>6, <1>7, AgreeFrame
<1>8. CASE Refuse(t)
  <2>1. PICK n : n = [k EXCEPT !.step = "failed"]
    OBVIOUS
  <2>2. task' = [task EXCEPT ![t] = n] /\ n.step = "failed"
    BY <1>2, <1>8, <2>1 DEF Refuse, Records
  <2>3. Informed(t)'
    BY <2>2, Others DEF Informed
  <2> QED BY <1>5, <1>7, <1>8, <2>2, <2>3 DEF Refuse
<1>9. ASSUME NEW s, Answer(t, s)
      PROVE  \E n : /\ task' = [task EXCEPT ![t] = n] /\ task'[t] = n
                    /\ n.step = "answered" /\ n.answer = s /\ n.op = k.op
                    /\ n.path = k.path /\ n.target = k.target
                    /\ n.selected = k.selected
  <2>1. PICK n : n = [k EXCEPT !.step = "answered", !.answer = s]
    OBVIOUS
  <2>2. task' = [task EXCEPT ![t] = n]
    BY <1>2, <1>9, <2>1 DEF Answer
  <2>3. /\ n.step = "answered" /\ n.answer = s /\ n.op = k.op /\ n.path = k.path
        /\ n.target = k.target /\ n.selected = k.selected
    BY <1>2, <2>1 DEF Records
  <2>4. task'[t] = n
    BY <2>2, Others
  <2> QED BY <2>2, <2>3, <2>4
<1>10. ASSUME NEW s, Answer(t, s), k.op \in {"open", "create", "save"},
              served'[s.code] = s.path,
              \A p \in Paths : codes[p] # 0 => served'[codes[p]] = p
       PROVE  AgreeInv'
  <2>1. PICK n : /\ task' = [task EXCEPT ![t] = n] /\ task'[t] = n
                 /\ n.op = k.op /\ n.answer = s
    BY <1>9, <1>10
  <2>2. Informed(t)'
    BY <1>10, <2>1 DEF Informed
  <2> QED BY <1>7, <1>10, <2>1, <2>2
<1>11. ASSUME NEW d, OpenSession(t, k.path, d), k.op \in {"open", "create"}
       PROVE  AgreeInv'
  <2>1. CASE CodeAt(k.path) # {}
    <3>1. PICK c \in Codes :
            /\ served[c] = k.path
            /\ Answer(t, [path |-> k.path, code |-> c, doc |-> d])
      BY <1>11, <2>1 DEF OpenSession, CodeAt
    <3>2. served' = served
      BY <1>11, <2>1 DEF OpenSession
    <3> QED BY <1>5, <1>10, <1>11, <3>1, <3>2
  <2>2. CASE CodeAt(k.path) = {}
    <3>1. /\ issued < MaxCodes /\ served' = [served EXCEPT ![issued + 1] = k.path]
          /\ Answer(t, [path |-> k.path, code |-> issued + 1, doc |-> d])
      BY <1>11, <2>2 DEF OpenSession
    <3>2. issued + 1 \in Codes /\ served'[issued + 1] = k.path
      BY <1>1, <3>1, BoundsAssumption DEF PageOK, Codes
    <3>3. \A c \in Codes : c <= issued => c # issued + 1 /\ served'[c] = served[c]
      BY <1>1, <3>1, BoundsAssumption DEF PageOK, Codes
    <3>4. \A p \in Paths : codes[p] # 0 => served'[codes[p]] = p
      BY <1>1, <1>5, <1>6, <3>3 DEF ServerOK
    <3> QED BY <1>10, <1>11, <3>1, <3>2, <3>4
  <2> QED BY <2>1, <2>2
<1>12. CASE ServeOpen(t)
  BY <1>2, <1>8, <1>11, <1>12 DEF ServeOpen, Waiting
<1>13. CASE ServeCreate(t)
  BY <1>2, <1>8, <1>11, <1>13 DEF ServeCreate, Waiting
<1>14. CASE ServeSave(t)
  <2>1. CASE served[k.code] # k.path
    BY <1>2, <1>8, <1>14, <2>1 DEF ServeSave
  <2>2. CASE served[k.code] = k.path
    <3>1. /\ served' = served /\ k.op = "save"
          /\ Answer(t, [path |-> served[k.code], code |-> k.code, doc |-> k.doc])
      BY <1>2, <1>14, <2>2 DEF ServeSave, Waiting
    <3> QED BY <1>5, <1>10, <3>1
  <2> QED BY <2>1, <2>2
<1>15. CASE ServeMove(t)
  <2>1. CASE disk[k.path] = Nil \/ disk[k.target] # Nil
    BY <1>2, <1>8, <1>15, <2>1 DEF ServeMove
  <2>2. CASE ~(disk[k.path] = Nil \/ disk[k.target] # Nil)
    <3>1. /\ Answer(t, NoSession) /\ k.op = "move" /\ k.target \in Paths
          /\ served' = [c \in Codes |-> IF served[c] = k.path THEN k.target
                                                               ELSE served[c]]
      BY <1>2, <1>3, <1>15, <2>2 DEF ServeMove, Waiting
    <3>2. PICK n : /\ task' = [task EXCEPT ![t] = n] /\ task'[t] = n
                   /\ n.step = "answered" /\ n.op = k.op
                   /\ n.path = k.path /\ n.target = k.target
      BY <1>9, <3>1
    <3>3. codes[k.target] = 0
      BY <1>1, <1>5, <1>6, <2>2, <3>1 DEF ServerOK
    <3>4. codes[k.path] # 0 => served'[codes[k.path]] = k.target
      BY <1>3, <1>5, <3>1
    <3>5. Informed(t)'
      BY <1>4, <2>2, <3>1, <3>2, <3>3, <3>4 DEF Informed
    <3>6. ASSUME NEW p \in Paths, codes[p] # 0, ~Moves(n, p)
          PROVE  served'[codes[p]] = p
      BY <1>5, <3>1, <3>2, <3>6 DEF Moves
    <3> QED BY <1>7, <3>2, <3>5, <3>6
  <2> QED BY <2>1, <2>2
<1>16. CASE ServeDelete(t)
  <2>1. CASE disk[k.path] = Nil
    BY <1>2, <1>8, <1>16, <2>1 DEF ServeDelete
  <2>2. CASE disk[k.path] # Nil
    <3>1. /\ Answer(t, NoSession) /\ k.op = "delete"
          /\ served' = [c \in Codes |-> IF served[c] = k.path THEN Nil ELSE served[c]]
      BY <1>2, <1>16, <2>2 DEF ServeDelete, Waiting
    <3>2. PICK n : /\ task' = [task EXCEPT ![t] = n] /\ task'[t] = n
                   /\ n.step = "answered" /\ n.op = k.op
                   /\ n.path = k.path /\ n.selected = k.selected
      BY <1>9, <3>1
    <3>3. k.selected <=> selected = k.path
      BY <1>2, <1>3, <1>5, <3>1 DEF Informed
    <3>4. Informed(t)'
      BY <1>4, <3>1, <3>2, <3>3 DEF Informed
    <3>5. ASSUME NEW p \in Paths, codes[p] # 0, ~Moves(n, p)
          PROVE  served'[codes[p]] = p
      BY <1>5, <3>1, <3>2, <3>5 DEF Moves
    <3> QED BY <1>7, <3>2, <3>4, <3>5
  <2> QED BY <2>1, <2>2
<1> QED BY <1>12, <1>13, <1>14, <1>15, <1>16 DEF Serve

\* A function ends, or sends the next request of a move.
LEMMA GoOnAsks ==
  ASSUME TypeInv, NEW t \in Tasks, GoOn(t), task[t].step # "idle"
  PROVE  \E k : /\ task' = [task EXCEPT ![t] = k]
                /\ k = NoTask \/ (k.op = "move" /\ k.step = "asked")
<1>1. task[t].path \in Paths /\ task[t].target \in Paths \union {Nil}
  BY TaskFields DEF Records
<1>2. CASE task[t].op = "save" /\ task[t].target # Nil /\ ~dirty[task[t].path]
  <2>1. PICK k : k = [Request("move", task[t].path) EXCEPT !.target = task[t].target]
    OBVIOUS
  <2>2. task' = [task EXCEPT ![t] = k]
    BY <1>2, <2>1 DEF GoOn
  <2>3. Asks(k, "move", task[t].path, task[t].target, FALSE)
    BY <1>1, <2>1, RequestsAsk DEF Ops
  <2>4. k.op = "move" /\ k.step = "asked"
    BY <2>3, AskFields
  <2> QED BY <2>2, <2>4
<1>3. CASE ~(task[t].op = "save" /\ task[t].target # Nil /\ ~dirty[task[t].path])
  BY <1>3 DEF GoOn, Finish
<1> QED BY <1>2, <1>3

\* After the list the function ends, moves, or opens another notebook.
LEMMA ListAsks ==
  ASSUME TypeInv, NEW t \in Tasks, TakeList(t)
  PROVE  \E k : /\ task' = [task EXCEPT ![t] = k]
                /\ \/ k = NoTask
                   \/ k.op \in {"move", "open", "create"} /\ k.step = "asked"
<1>1. CASE task[t].op # "delete" \/ ~task[t].selected
  BY <1>1, GoOnAsks DEF TakeList
<1>2. CASE ~(task[t].op # "delete" \/ ~task[t].selected)
  <2>1. PICK p \in Paths, op \in {"create", "open"} :
          task' = [task EXCEPT ![t] = Request(op, p)]
    BY <1>2 DEF TakeList
  <2>2. PICK k : k = Request(op, p)
    OBVIOUS
  <2>3. Asks(k, op, p, Nil, FALSE)
    BY <2>2, RequestAsks DEF Ops
  <2>4. k.op = op /\ k.step = "asked"
    BY <2>3, AskFields
  <2> QED BY <2>1, <2>2, <2>4
<1> QED BY <1>1, <1>2

LEMMA AgreeContinue ==
  ASSUME TypeInv, AgreeInv, NEW t \in Tasks, Continue(t), ~faulty'
  PROVE  AgreeInv'
<1> USE DEF serverVars, storeVars, countVars, editVars
<1>1. PageOK /\ Nil \notin Paths /\ Nil \notin Nat
  BY NilAssumption DEF TypeInv, TypeOK, PageOK
<1>2. PICK k \in Records : k = task[t] /\ task \in [Tasks -> Records]
  BY DEF TypeInv, TypeOK, Records
<1>3. k.step \in {"answered", "failed", "list"} /\ k.op # "none"
  <2>1. k.step \in {"answered", "failed", "list"}
    BY <1>2 DEF Continue, TakeSession, TakeMove, TakeDelete, Fail, TakeList, Waiting
  <2> QED BY <1>2, <2>1 DEF TypeInv, Shaped, NoTask
<1>4. /\ ~faulty /\ UNCHANGED <<disk, served, issued>>
      /\ ServerOK'
  <2>1. ~faulty /\ UNCHANGED <<disk, served, issued>>
    BY DEF Continue, TakeSession, TakeMove, TakeDelete, Fail, TakeList
  <2> QED BY <2>1 DEF AgreeInv, ServerOK
<1>5. /\ \A u \in Tasks : u # t => task[u] = NoTask
      /\ \A p \in Paths :
           /\ notebooks[p] = Nil <=> codes[p] = 0
           /\ codes[p] # 0 /\ ~Moves(k, p) => served[codes[p]] = p
      /\ selected # Nil => notebooks[selected] # Nil
      /\ Informed(t)
  BY <1>2, <1>3, <1>4, AloneFacts
<1>6. ASSUME NEW n, task' = [task EXCEPT ![t] = n],
             n = NoTask \/ n.step = "list" \/ (n.op # "delete" /\ n.step = "asked"),
             selected' # Nil => notebooks'[selected'] # Nil,
             \A p \in Paths : /\ notebooks'[p] = Nil <=> codes'[p] = 0
                              /\ codes'[p] # 0 => served'[codes'[p]] = p
      PROVE  AgreeInv'
  <2>1. task'[t] = n
    BY <1>6, Others
  <2>2. Informed(t)'
    BY <1>6, <2>1 DEF Informed, NoTask
  <2> QED BY <1>4, <1>5, <1>6, <2>2, AgreeFrame
<1>7. ASSUME List(t)
      PROVE  \E n : task' = [task EXCEPT ![t] = n] /\ n.step = "list"
  <2>1. PICK n : n = [k EXCEPT !.step = "list"]
    OBVIOUS
  <2>2. task' = [task EXCEPT ![t] = n]
    BY <1>2, <1>7, <2>1 DEF List
  <2>3. n.step = "list"
    BY <1>2, <2>1 DEF Records
  <2> QED BY <2>2, <2>3
<1>8. k.step # "answered" =>
        \A p \in Paths : codes[p] # 0 => served[codes[p]] = p
  BY <1>5 DEF Moves
<1>9. CASE TakeSession(t)
  <2>1. k.step = "answered" /\ k.op \in {"open", "create", "save"}
    BY <1>2, <1>9 DEF TakeSession, Waiting
  <2>2. PICK s \in Sessions : s = k.answer
    BY <1>2, <2>1 DEF TypeInv, Shaped, NoTask
  <2>3. s.path \in Paths /\ s.doc # Nil /\ s.code # 0 /\ s.code \in Codes
    BY <1>1, BoundsAssumption DEF Sessions, Codes, Documents
  <2>4. served[s.code] = s.path
    BY <1>2, <1>5, <2>1, <2>2 DEF Informed
  <2>5. /\ notebooks' = [notebooks EXCEPT ![s.path] = s.doc]
        /\ codes' = [codes EXCEPT ![s.path] = s.code] /\ selected' = s.path
    BY <1>2, <1>9, <2>2 DEF TakeSession, SetSession
  <2>6. \A p \in Paths : codes[p] # 0 => served[codes[p]] = p
    BY <1>5, <2>1 DEF Moves
  <2>7. \A p \in Paths : /\ notebooks'[p] = Nil <=> codes'[p] = 0
                         /\ codes'[p] # 0 => served'[codes'[p]] = p
    BY <1>1, <1>4, <1>5, <2>3, <2>4, <2>5, <2>6 DEF PageOK
  <2>8. notebooks'[selected'] # Nil
    BY <1>1, <2>3, <2>5 DEF PageOK
  <2> QED BY <1>6, <1>7, <1>9, <2>7, <2>8 DEF TakeSession
<1>10. CASE TakeMove(t)
  <2>1. k.step = "answered" /\ k.op = "move"
    BY <1>2, <1>10 DEF TakeMove, Waiting
  <2>2. PICK p \in Paths, q \in Paths : p = k.path /\ q = k.target
    BY <1>2, <2>1, TaskFields
  <2>3. /\ p # q /\ codes[q] = 0 /\ (codes[p] # 0 => served[codes[p]] = q)
    BY <1>2, <1>5, <2>1, <2>2 DEF Informed
  <2>4. Rename(p, q)
    BY <1>2, <1>10, <2>2 DEF TakeMove
  <2>5. \A x \in Paths : notebooks'[x] = IF x = p THEN Nil
                                         ELSE IF x = q /\ notebooks[p] # Nil
                                                THEN notebooks[p]
                                         ELSE notebooks[x]
    BY <1>1, <2>4 DEF Rename, RenameDocument, Renamed, PageOK
  <2>6. \A x \in Paths : codes'[x] = IF x = p THEN 0
                                     ELSE IF x = q /\ notebooks[p] # Nil THEN codes[p]
                                     ELSE codes[x]
    BY <1>1, <2>4 DEF Rename, Renamed, PageOK
  <2>7. \A x \in Paths : x # p /\ codes[x] # 0 => served[codes[x]] = x
    BY <1>5, <2>1, <2>2 DEF Moves
  <2>8. ASSUME NEW x \in Paths
        PROVE  /\ notebooks'[x] = Nil <=> codes'[x] = 0
               /\ codes'[x] # 0 => served'[codes'[x]] = x
    <3>1. CASE x = p
      BY <2>5, <2>6, <3>1
    <3>2. CASE x = q
      BY <1>4, <1>5, <2>3, <2>5, <2>6, <3>2
    <3>3. CASE x # p /\ x # q
      BY <1>4, <1>5, <2>5, <2>6, <2>7, <3>3
    <3> QED BY <3>1, <3>2, <3>3
  <2>9. selected' # Nil => notebooks'[selected'] # Nil
    <3>1. selected' = IF selected = p THEN q ELSE selected
      BY <2>4 DEF Rename, RenameDocument
    <3>2. notebooks[q] = Nil /\ selected \in Paths \union {Nil}
      BY <1>1, <1>5, <2>3 DEF PageOK
    <3> QED BY <1>1, <1>5, <2>3, <2>5, <3>1, <3>2
  <2> QED BY <1>6, <1>7, <1>10, <2>8, <2>9 DEF TakeMove
<1>11. CASE TakeDelete(t)
  <2>1. k.step = "answered" /\ k.op = "delete" /\ k.path \in Paths
    BY <1>2, <1>11, TaskFields DEF TakeDelete, Waiting
  <2>2. PICK p \in Paths, b \in BOOLEAN : p = k.path /\ b = k.selected
    BY <1>2, <2>1 DEF Records
  <2>3. Remove(p, b) /\ (b <=> selected = p)
    BY <1>2, <1>5, <1>11, <2>1, <2>2 DEF TakeDelete, Informed
  <2>4. /\ notebooks' = [notebooks EXCEPT ![p] = Nil] /\ codes' = [codes EXCEPT ![p] = 0]
        /\ selected' = IF b THEN Nil ELSE selected
    BY <2>3 DEF Remove
  <2>5. \A x \in Paths : x # p /\ codes[x] # 0 => served[codes[x]] = x
    BY <1>5, <2>1, <2>2 DEF Moves
  <2>6. \A x \in Paths : /\ notebooks'[x] = Nil <=> codes'[x] = 0
                         /\ codes'[x] # 0 => served'[codes'[x]] = x
    BY <1>1, <1>4, <1>5, <2>4, <2>5 DEF PageOK
  <2>7. selected' # Nil => notebooks'[selected'] # Nil
    BY <1>1, <1>5, <2>3, <2>4 DEF PageOK
  <2> QED BY <1>6, <1>7, <1>11, <2>6, <2>7 DEF TakeDelete
<1>12. ASSUME Fail(t) \/ TakeList(t) PROVE AgreeInv'
  <2>1. UNCHANGED <<notebooks, codes, selected>> /\ k.step # "answered"
    BY <1>2, <1>12 DEF Fail, TakeList
  <2>2. PICK n : /\ task' = [task EXCEPT ![t] = n]
                 /\ \/ n = NoTask
                    \/ n.op \in {"move", "open", "create"} /\ n.step = "asked"
    BY <1>12, GoOnAsks, ListAsks DEF Fail
  <2> QED BY <1>4, <1>5, <1>6, <1>8, <2>1, <2>2
<1> QED BY <1>9, <1>10, <1>11, <1>12 DEF Continue

LEMMA AgreeEdit ==
  ASSUME TypeInv, AgreeInv, Edit
  PROVE  AgreeInv'
<1> USE DEF serverVars
<1>1. /\ notebooks' = [notebooks EXCEPT ![selected] = edits + 1]
      /\ notebooks[selected] # Nil /\ edits + 1 # Nil
      /\ notebooks \in [Paths -> Documents \union {Nil}]
      /\ selected \in Paths
      /\ UNCHANGED <<disk, served, issued, codes, selected, task, faulty>>
  BY NilAssumption, BoundsAssumption DEF Edit, TypeInv, TypeOK
<1>2. \A p \in Paths : notebooks'[p] = Nil <=> notebooks[p] = Nil
  BY <1>1
<1>3. ServerOK'
  BY <1>1 DEF AgreeInv, ServerOK
<1>4. ASSUME ~faulty
      PROVE  /\ Alone' /\ (selected' # Nil => notebooks'[selected'] # Nil)
             /\ \A t \in Tasks : Informed(t)'
             /\ \A p \in Paths : Known(p)'
  <2>1. Alone' /\ notebooks'[selected'] # Nil
    BY <1>1, <1>2, <1>4 DEF AgreeInv, Alone
  <2>2. \A t \in Tasks : Informed(t)'
    BY <1>1, <1>4 DEF AgreeInv, Informed
  <2>3. \A p \in Paths : Known(p)'
    BY <1>1, <1>2, <1>4 DEF AgreeInv, Known
  <2> QED BY <2>1, <2>2, <2>3
<1> QED BY <1>1, <1>3, <1>4 DEF AgreeInv

LEMMA AgreeNext == TypeInv /\ AgreeInv /\ [Next]_vars => AgreeInv'
<1> SUFFICES ASSUME TypeInv, AgreeInv, [Next]_vars PROVE AgreeInv'
  OBVIOUS
<1>1. CASE UNCHANGED vars
  BY <1>1 DEF vars, serverVars, storeVars, AgreeInv, ServerOK, Alone, Known, Informed
<1>2. ASSUME NEW t \in Tasks, Start(t) \/ Serve(t) \/ Lose(t) \/ Continue(t)
      PROVE  AgreeInv'
  <2>1. CASE faulty'
    <3>1. Serve(t) \/ UNCHANGED <<disk, served, issued>>
      BY <1>2 DEF Start, Switch, Create, Save, Move, Delete, Lose, Continue, TakeSession,
                  TakeMove, TakeDelete, Fail, TakeList, serverVars
    <3>2. ServerOK'
      BY <3>1, ServerNext DEF AgreeInv, ServerOK
    <3> QED BY <2>1, <3>2 DEF AgreeInv
  <2>2. CASE ~faulty'
    BY <1>2, <2>2, AgreeStart, AgreeServe, AgreeContinue DEF Lose
  <2> QED BY <2>1, <2>2
<1> QED BY <1>1, <1>2, AgreeEdit DEF Next

\* isSaving is set with a save and reset by the first save that ends.
LEMMA SavingNext == TypeInv /\ SavingInv /\ [Next]_vars => SavingInv'
<1> SUFFICES ASSUME TypeInv, SavingInv, [Next]_vars, isSaving' PROVE SavingInv'
  BY DEF SavingInv
<1> USE DEF serverVars, storeVars, countVars, editVars
<1>1. CASE Edit \/ UNCHANGED vars
  BY <1>1 DEF Edit, vars, SavingInv
<1>2. ASSUME NEW t \in Tasks, NEW k, task' = [task EXCEPT ![t] = k],
             k.op = "save" /\ k.step = "asked"
      PROVE  SavingInv'
  <2>1. task'[t] = k
    BY <1>2, Others
  <2> QED BY <1>2, <2>1 DEF SavingInv
<1>3. ASSUME NEW t \in Tasks, isSaving, \A u \in Tasks : u # t => task'[u] = task[u],
             task[t].op = "save" /\ task[t].step # "list" =>
               task'[t].op = "save" /\ task'[t].step # "list"
      PROVE  SavingInv'
  BY <1>3 DEF SavingInv
<1>4. ASSUME NEW t \in Tasks, Start(t) PROVE SavingInv'
  <2>1. task[t] = NoTask /\ NoTask.op # "save"
    <3>1. task[t] = NoTask
      BY <1>4 DEF Start, Switch, Create, Save, Move, Delete, Begin
    <3> QED BY <3>1 DEF NoTask
  <2>2. ASSUME NEW k, task' = [task EXCEPT ![t] = k], isSaving PROVE SavingInv'
    BY <1>3, <2>1, <2>2, Others
  <2>3. ASSUME NEW p \in Paths, NEW q \in Paths \union {Nil}, notebooks[p] # Nil,
               codes[p] # 0, task' = [task EXCEPT ![t] = SaveRequest(p, q)]
        PROVE  SavingInv'
    <3>1. PICK k : k = SaveRequest(p, q)
      OBVIOUS
    <3>2. notebooks[p] \in Documents \union {Nil} /\ codes[p] \in 0..MaxCodes
      BY DEF TypeInv, TypeOK
    <3>3. Asks(k, "save", p, q, FALSE)
      BY <2>3, <3>1, <3>2, SaveAsks
    <3>4. k.op = "save" /\ k.step = "asked"
      BY <3>3, AskFields
    <3> QED BY <1>2, <2>3, <3>1, <3>4
  <2>4. ASSUME NEW p \in Paths, Switch(t, p) \/ Create(t, p) \/ Delete(t, p)
        PROVE  SavingInv'
    <3>1. isSaving /\ \E k : task' = [task EXCEPT ![t] = k]
      BY <2>4 DEF Switch, Create, Delete, Begin
    <3> QED BY <2>2, <3>1
  <2>5. ASSUME NEW p \in Paths, NEW q \in Paths, Move(t, p, q) PROVE SavingInv'
    <3>1. CASE selected = p /\ dirty[p] /\ notebooks[p] # Nil /\ codes[p] # 0
      BY <2>3, <2>5, <3>1 DEF Move, Begin
    <3>2. CASE ~(selected = p /\ dirty[p] /\ notebooks[p] # Nil /\ codes[p] # 0)
      <4>1. isSaving /\ \E k : task' = [task EXCEPT ![t] = k]
        BY <2>5, <3>2 DEF Move, Begin
      <4> QED BY <2>2, <4>1
    <3> QED BY <3>1, <3>2
  <2>6. CASE Save(t)
    <3>1. /\ selected \in Paths /\ notebooks[selected] # Nil /\ codes[selected] # 0
          /\ task' = [task EXCEPT ![t] = SaveRequest(selected, Nil)]
      BY <2>6 DEF Save, Begin, TypeInv, TypeOK
    <3> QED BY <2>3, <3>1
  <2> QED BY <1>4, <2>4, <2>5, <2>6 DEF Start
<1>5. ASSUME NEW t \in Tasks, Serve(t) PROVE SavingInv'
  <2>1. isSaving
    BY <1>5 DEF Serve
  <2> QED BY <1>3, <1>5, <2>1, ServeKeeps
<1>6. ASSUME NEW t \in Tasks, Lose(t) PROVE SavingInv'
  <2>1. isSaving
    BY <1>6 DEF Lose
  <2>2. PICK k \in Records : k = task[t] /\ task \in [Tasks -> Records]
    BY DEF TypeInv, TypeOK, Records
  <2>3. PICK n : n = [k EXCEPT !.step = "failed", !.answer = NoSession]
    OBVIOUS
  <2>4. task' = [task EXCEPT ![t] = n] /\ n.op = k.op /\ n.step = "failed"
    BY <1>6, <2>2, <2>3 DEF Lose, Records
  <2> QED BY <1>3, <2>1, <2>2, <2>4, Others
<1>7. ASSUME NEW t \in Tasks, Continue(t) PROVE SavingInv'
  <2>1. PICK k : task' = [task EXCEPT ![t] = k]
    <3>1. CASE Fail(t) \/ TakeList(t)
      BY <3>1, GoOnAsks, ListAsks DEF Fail
    <3>2. CASE TakeSession(t) \/ TakeMove(t) \/ TakeDelete(t)
      <4>1. List(t)
        BY <3>2 DEF TakeSession, TakeMove, TakeDelete
      <4>2. task' = [task EXCEPT ![t] = [task[t] EXCEPT !.step = "list"]]
        BY <4>1 DEF List, TypeInv, TypeOK
      <4> QED BY <4>2
    <3> QED BY <1>7, <3>1, <3>2 DEF Continue
  <2>2. isSaving /\ ~(task[t].op = "save" /\ task[t].step # "list")
    BY <1>7
       DEF Continue, TakeSession, TakeMove, TakeDelete, Fail, TakeList, Waiting
  <2> QED BY <1>3, <2>1, <2>2, Others
<1> QED BY <1>1, <1>4, <1>5, <1>6, <1>7 DEF Next

\* When the page is at rest, and no message was lost and no two functions ran at a
\* time, the selected notebook is open on the server under the code the page has;
\* and in every state isSaving is set only while a save is under way.
THEOREM PageAlwaysAgrees == Spec => []PageAgrees
<1>1. Init => AgreeInv /\ SavingInv
  <2> SUFFICES ASSUME Init PROVE AgreeInv /\ SavingInv
    OBVIOUS
  <2>1. ServerOK
    BY DEF Init, ServerOK
  <2>2. \A t \in Tasks : Informed(t)
    BY DEF Init, Informed, NoTask
  <2>3. \A p \in Paths : Known(p)
    BY DEF Init, Known
  <2>4. Alone
    BY DEF Init, Alone
  <2> QED BY <2>1, <2>2, <2>3, <2>4 DEF Init, AgreeInv, SavingInv
<1>2. TypeInv /\ AgreeInv /\ SavingInv => PageAgrees
  BY AgreeMeans, SavingMeans DEF PageAgrees
<1> QED BY <1>1, <1>2, TypeInit, TypeNext, AgreeNext, SavingNext, PTL DEF Spec
==============================================================================
