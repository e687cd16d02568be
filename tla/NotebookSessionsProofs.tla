----------------------- MODULE NotebookSessionsProofs -----------------------
(***************************************************************************)
(* Proofs about NotebookSessions, for any number of paths, sessions,       *)
(* clients, users, documents and cells.                                    *)
(***************************************************************************)
EXTENDS NotebookSessions, TLAPS

\* The tuples of variables that the others are made of.
USE DEF fileVars, snapshotVars, writeVars

-----------------------------------------------------------------------------
(* The type invariant, strengthened by what the record of a suspended handler
   holds at each of its steps. *)

Shaped(q) ==
  /\ q.op \in {"create", "open", "delete", "move"} => q.path \in Paths
  /\ q.op = "move" => q.target \in Paths
  /\ q.op \in {"save", "eval", "edit", "restart", "reload"} => q.session \in Sessions
  /\ q.step \in {"registering", "unlinking", "rebinding"} => q.session \in Sessions
  /\ q.op \notin {"create", "open"} /\ q.session # Nil =>
       path[q.session] \in Paths
  /\ q.op = "save" => q.doc \in Docs
  /\ q.op \in {"eval", "edit"} => q.cell \in Cells
  /\ q.step \in {"binding", "registering", "copying", "removing", "undoing",
                 "rebinding", "writing", "hydrating", "swapping"} =>
       q.read \in Contents

ShapeOK ==
  /\ \A r \in Requests : Shaped(req[r])
  /\ \A s \in sessions : path[s] \in Paths

\* An idle request has nothing to remember.
LEMMA NoRequestFacts ==
  /\ NoRequest \in RequestRecords
  /\ NoRequest.op = "none" /\ NoRequest.step = "idle" /\ NoRequest.session = Nil
  /\ Shaped(NoRequest)
BY DEF NoRequest, RequestRecords, Steps, Shaped

\* A step that replaces the record of one request and binds no session anew.
LEMMA ReplaceRecord ==
  ASSUME TypeOK, ShapeOK, NEW r \in Requests, NEW q \in RequestRecords, Shaped(q),
         req' = [req EXCEPT ![r] = q], sessions' \subseteq sessions, path' = path
  PROVE  req' \in [Requests -> RequestRecords] /\ ShapeOK'
<1>1. req' \in [Requests -> RequestRecords]
  BY DEF TypeOK
<1>2. \A x \in Requests : req'[x] = IF x = r THEN q ELSE req[x]
  BY DEF TypeOK
<1>3. \A x \in Requests : Shaped(req'[x])
  BY <1>2 DEF ShapeOK
<1>4. \A x \in Requests : Shaped(req[x])'
  BY <1>3 DEF Shaped
<1> QED BY <1>1, <1>4 DEF ShapeOK

LEMMA ProceedFacts ==
  ASSUME TypeOK, NEW r \in Requests, NEW step \in Steps, Proceed(r, step)
  PROVE  /\ req' = [req EXCEPT ![r] = [req[r] EXCEPT !.step = step]]
         /\ [req[r] EXCEPT !.step = step] \in RequestRecords
         /\ chain' = chain
<1>1. req[r] \in RequestRecords
  BY DEF TypeOK
<1>2. [req[r] EXCEPT !.step = step] \in RequestRecords
  BY <1>1 DEF RequestRecords
<1> QED BY <1>2 DEF TypeOK, Proceed

LEMMA EndFacts ==
  ASSUME TypeOK, ShapeOK, NEW r \in Requests, End(r),
         sessions' \subseteq sessions, path' = path
  PROVE  /\ chain' \in [Sessions -> Seq(Requests)]
         /\ req' \in [Requests -> RequestRecords]
         /\ ShapeOK'
<1>1. chain' \in [Sessions -> Seq(Requests)]
  BY DEF TypeOK, End
<1>2. req' = [req EXCEPT ![r] = NoRequest]
  BY DEF End
<1> QED BY <1>1, <1>2, NoRequestFacts, ReplaceRecord

LEMMA BeginFacts ==
  ASSUME TypeOK, ShapeOK, NEW r \in Requests, NEW s \in Sessions \union {Nil},
         NEW q \in RequestRecords, Shaped(q), Begin(r, s, q),
         sessions' \subseteq sessions, path' = path
  PROVE  /\ chain' \in [Sessions -> Seq(Requests)]
         /\ req' \in [Requests -> RequestRecords]
         /\ ShapeOK'
<1>1. chain' \in [Sessions -> Seq(Requests)]
  BY NilAssumption DEF TypeOK, Begin
<1>2. req' = [req EXCEPT ![r] = q]
  BY DEF Begin
<1> QED BY <1>1, <1>2, ReplaceRecord

LEMMA LookupFacts ==
  ASSUME TypeOK, ShapeOK, NEW p \in Paths
  PROVE  /\ Lookup(p) \in Sessions \union {Nil}
         /\ Lookup(p) # Nil => path[Lookup(p)] \in Paths
BY DEF TypeOK, ShapeOK, Lookup

-----------------------------------------------------------------------------
(* Types: creating and opening. *)

LEMMA BeginTypes ==
  ASSUME TypeOK, ShapeOK, NEW r \in Requests, NEW s \in Sessions \union {Nil},
         NEW q \in RequestRecords, Shaped(q), Begin(r, s, q),
         UNCHANGED <<registryVars, diskVars, vmVars>>, raced' \subseteq Paths
  PROVE  TypeOK' /\ ShapeOK'
<1>1. sessions' \subseteq sessions /\ path' = path
  BY DEF registryVars
<1>2. /\ chain' \in [Sessions -> Seq(Requests)]
      /\ req' \in [Requests -> RequestRecords]
      /\ ShapeOK'
  BY <1>1, BeginFacts
<1> QED BY <1>2 DEF TypeOK, registryVars, diskVars, vmVars

LEMMA RacesTypes ==
  ASSUME TypeOK, NEW ps \in SUBSET Paths, Races(ps)
  PROVE  raced' \subseteq Paths
<1>1. \A x \in Clients : Touches(x) \subseteq Paths
  BY DEF TypeOK, RequestRecords, Touches, Requests
<1> QED BY <1>1 DEF TypeOK, Races, Meeting

LEMMA CreateTypes ==
  ASSUME TypeOK, ShapeOK, NEW r \in Clients, NEW p \in Paths, Create(r, p)
  PROVE  TypeOK' /\ ShapeOK'
<1> DEFINE q == [NoRequest EXCEPT !.op = "create", !.step = "creating",
                                  !.path = p]
<1>1. q \in RequestRecords /\ Shaped(q)
  BY DEF NoRequest, RequestRecords, Steps, Shaped
<1>2. Begin(r, Nil, q) /\ UNCHANGED <<registryVars, diskVars, vmVars>>
  BY DEF Create
<1>3. raced' \subseteq Paths
  BY RacesTypes DEF Create
<1> QED BY <1>1, <1>2, <1>3, BeginTypes DEF Requests

LEMMA OpenTypes ==
  ASSUME TypeOK, ShapeOK, NEW r \in Clients, NEW p \in Paths, Open(r, p)
  PROVE  TypeOK' /\ ShapeOK'
<1> DEFINE q == [NoRequest EXCEPT !.op = "open", !.step = "opening",
                                  !.path = p]
<1>1. q \in RequestRecords /\ Shaped(q)
  BY DEF NoRequest, RequestRecords, Steps, Shaped
<1>2. Begin(r, Nil, q) /\ UNCHANGED <<registryVars, diskVars, vmVars>>
  BY DEF Open
<1>3. raced' \subseteq Paths
  BY RacesTypes DEF Open
<1> QED BY <1>1, <1>2, <1>3, BeginTypes DEF Requests

LEMMA DeleteTypes ==
  ASSUME TypeOK, ShapeOK, NEW r \in Clients, NEW p \in Paths, Delete(r, p)
  PROVE  TypeOK' /\ ShapeOK'
<1> DEFINE q == [NoRequest EXCEPT !.op = "delete", !.path = p,
                            !.step = "deleting", !.session = Lookup(p)]
<1>1. q \in RequestRecords /\ Shaped(q)
  BY LookupFacts DEF NoRequest, RequestRecords, Steps, Shaped
<1>2. Begin(r, Lookup(p), q) /\ UNCHANGED <<registryVars, diskVars, vmVars>>
  BY DEF Delete
<1>3. raced' \subseteq Paths
  BY RacesTypes DEF Delete
<1> QED BY <1>1, <1>2, <1>3, BeginTypes, LookupFacts DEF Requests

LEMMA MoveTypes ==
  ASSUME TypeOK, ShapeOK, NEW r \in Clients, NEW p \in Paths, NEW q \in Paths,
         Move(r, p, q)
  PROVE  TypeOK' /\ ShapeOK'
<1> DEFINE record == [NoRequest EXCEPT !.op = "move", !.step = "moving",
                            !.path = p, !.target = q, !.session = Lookup(p)]
<1>1. record \in RequestRecords /\ Shaped(record)
  BY LookupFacts DEF NoRequest, RequestRecords, Steps, Shaped
<1>2. Begin(r, Lookup(p), record) /\ UNCHANGED <<registryVars, diskVars, vmVars>>
  BY DEF Move
<1>3. raced' \subseteq Paths
  BY RacesTypes DEF Move
<1> QED BY <1>1, <1>2, <1>3, BeginTypes, LookupFacts DEF Requests

LEMMA AskTypes ==
  ASSUME TypeOK, ShapeOK, NEW r \in Users, NEW s \in Sessions,
         NEW op \in {"save", "eval", "edit", "restart", "reload"},
         NEW step \in Steps \ {"binding", "registering", "copying", "removing",
                               "undoing", "rebinding", "writing", "hydrating",
                               "swapping"},
         NEW doc \in Docs \union {Nil}, NEW cell \in Cells \union {Nil},
         op = "save" => doc \in Docs, op \in {"eval", "edit"} => cell \in Cells,
         Ask(r, s, op, step, doc, cell)
  PROVE  TypeOK' /\ ShapeOK'
<1> DEFINE q == [NoRequest EXCEPT !.op = op, !.step = step, !.session = s,
                    !.path = path[s], !.doc = doc, !.cell = cell]
<1>1. path[s] \in Paths
  BY DEF Ask, ShapeOK
<1>2. q \in RequestRecords
  BY <1>1 DEF NoRequest, RequestRecords
<1>3. Shaped(q)
  BY <1>1 DEF NoRequest, Shaped
<1>4. Begin(r, s, q) /\ UNCHANGED <<registryVars, diskVars, vmVars>>
  BY DEF Ask
<1>5. raced' \subseteq Paths
  BY DEF Ask, TypeOK
<1> QED BY <1>2, <1>3, <1>4, <1>5, BeginTypes DEF Requests

-----------------------------------------------------------------------------
(* Types: the steps of the handlers.  Each replaces the record of its request
   (RecordTypes) or ends it (EndTypes). *)

\* The files and the memory of the sessions keep their types.
WritesOK ==
  /\ current \in [Sessions -> Vms]
  /\ pending \in [Sessions -> [Vms -> Seq(SUBSET Cells)]]
  /\ saved \in [Sessions -> BOOLEAN]
StoreOK ==
  /\ file \in [Paths -> Contents \union {Nil}]
  /\ snapshot \in [Sessions -> (SUBSET Cells) \union {Nil}]
  /\ notebook \in [Sessions -> Docs]
  /\ vm \in [Sessions -> SUBSET Cells]
  /\ WritesOK
  /\ revived \subseteq Paths
  /\ intruded \subseteq Sessions
  /\ raced \subseteq Paths

LEMMA WritesFrame == WritesOK /\ UNCHANGED writeVars => WritesOK'
BY DEF WritesOK

LEMMA RecordTypes ==
  ASSUME TypeOK, ShapeOK, NEW r \in Requests, NEW q \in RequestRecords, Shaped(q),
         req' = [req EXCEPT ![r] = q], UNCHANGED <<registryVars, chain>>, StoreOK'
  PROVE  TypeOK' /\ ShapeOK'
<1>1. sessions' \subseteq sessions /\ path' = path
  BY DEF registryVars
<1>2. req' \in [Requests -> RequestRecords] /\ ShapeOK'
  BY <1>1, ReplaceRecord
<1> QED BY <1>2 DEF TypeOK, StoreOK, WritesOK, registryVars

LEMMA EndTypes ==
  ASSUME TypeOK, ShapeOK, NEW r \in Requests, End(r), UNCHANGED registryVars,
         StoreOK'
  PROVE  TypeOK' /\ ShapeOK'
<1>1. sessions' \subseteq sessions /\ path' = path
  BY DEF registryVars
<1>2. /\ chain' \in [Sessions -> Seq(Requests)]
      /\ req' \in [Requests -> RequestRecords]
      /\ ShapeOK'
  BY <1>1, EndFacts
<1> QED BY <1>2 DEF TypeOK, StoreOK, WritesOK, registryVars

\* What is known of the record of a suspended handler.
LEMMA RecordFacts ==
  ASSUME TypeOK, ShapeOK, NEW r \in Requests
  PROVE  /\ req[r] \in RequestRecords
         /\ Shaped(req[r])
         /\ NewDoc \in Docs
         /\ StoreOK
BY NewDocAssumption DEF TypeOK, ShapeOK, StoreOK, WritesOK

LEMMA CreateWriteTypes ==
  ASSUME TypeOK, ShapeOK, NEW r \in Requests, NEW ok \in BOOLEAN, CreateWrite(r, ok),
         UNCHANGED raced
  PROVE  TypeOK' /\ ShapeOK'
<1> DEFINE empty == [doc |-> NewDoc, cells |-> {}]
           q == [req[r] EXCEPT !.step = "binding", !.read = empty]
<1>1. empty \in Contents
  BY NewDocAssumption DEF Contents
<1>2. req[r].path \in Paths
  BY RecordFacts DEF CreateWrite, At, Shaped
<1>3. CASE ok
  <2>1. /\ file' = [file EXCEPT ![req[r].path] = empty]
        /\ revived' = revived \ {req[r].path}
        /\ req' = [req EXCEPT ![r].step = "binding", ![r].read = empty]
        /\ UNCHANGED <<registryVars, chain, snapshotVars, vmVars>>
    BY <1>3 DEF CreateWrite
  <2>2. req' = [req EXCEPT ![r] = q]
    BY <2>1 DEF TypeOK
  <2>3. q \in RequestRecords
    BY <1>1, RecordFacts DEF RequestRecords, Steps
  <2>4. Shaped(q)
    BY <1>1, RecordFacts DEF Shaped, CreateWrite, At, RequestRecords
  <2>5. StoreOK'
    BY <1>1, <1>2, <2>1, RecordFacts, WritesFrame DEF StoreOK, vmVars
  <2> QED BY <2>1, <2>2, <2>3, <2>4, <2>5, RecordTypes
<1>4. CASE ~ok
  <2>1. StoreOK'
    BY <1>4, RecordFacts, WritesFrame DEF CreateWrite, StoreOK, vmVars
  <2> QED BY <1>4, <2>1, EndTypes DEF CreateWrite
<1> QED BY <1>3, <1>4

LEMMA OpenReadTypes ==
  ASSUME TypeOK, ShapeOK, NEW r \in Requests, NEW ok \in BOOLEAN, OpenRead(r, ok),
         UNCHANGED raced
  PROVE  TypeOK' /\ ShapeOK'
<1> DEFINE read == file[req[r].path]
           q == [req[r] EXCEPT !.step = "binding", !.read = read]
<1>1. StoreOK' /\ UNCHANGED registryVars
  BY RecordFacts, WritesFrame DEF OpenRead, StoreOK, diskVars, vmVars
<1>2. CASE ok /\ read # Nil
  <2>1. req' = [req EXCEPT ![r] = q] /\ UNCHANGED chain
    BY <1>2 DEF OpenRead, TypeOK
  <2>2. read \in Contents
    BY <1>2, RecordFacts DEF OpenRead, At, Shaped, TypeOK
  <2>3. q \in RequestRecords
    BY <2>2, RecordFacts DEF RequestRecords, Steps
  <2>4. Shaped(q)
    BY <2>2, RecordFacts DEF Shaped, OpenRead, At, RequestRecords
  <2> QED BY <1>1, <2>1, <2>3, <2>4, RecordTypes
<1>3. CASE ~(ok /\ read # Nil)
  BY <1>1, <1>3, EndTypes DEF OpenRead
<1> QED BY <1>2, <1>3

LEMMA BindTypes ==
  ASSUME TypeOK, ShapeOK, NEW r \in Requests, Bind(r), UNCHANGED raced
  PROVE  TypeOK' /\ ShapeOK'
<1>1. CASE Lookup(req[r].path) # Nil
  <2>1. StoreOK'
    BY <1>1, RecordFacts, WritesFrame DEF Bind, StoreOK, vmVars
  <2> QED BY <1>1, <2>1, EndTypes DEF Bind
<1>2. CASE Lookup(req[r].path) = Nil
  <2>1. PICK s \in Sessions :
          /\ snapshot' = [snapshot EXCEPT ![s] = req[r].read.cells]
          /\ intruded' = intruded \ {s}
          /\ req' = [req EXCEPT ![r].step = "registering", ![r].session = s]
          /\ UNCHANGED chain
    BY <1>2 DEF Bind, Allocate
  <2> DEFINE q == [req[r] EXCEPT !.step = "registering", !.session = s]
  <2>2. req' = [req EXCEPT ![r] = q]
    BY <2>1 DEF TypeOK
  <2>3. q \in RequestRecords
    BY RecordFacts DEF RequestRecords, Steps
  <2>4. Shaped(q)
    BY RecordFacts DEF Shaped, Bind, At, RequestRecords
  <2>5. req[r].read \in Contents
    BY RecordFacts DEF Shaped, Bind, At
  <2>6. StoreOK'
    BY <2>1, <2>5, RecordFacts, WritesFrame DEF Bind, StoreOK, vmVars, Contents
  <2> QED BY <2>1, <2>2, <2>3, <2>4, <2>6, RecordTypes DEF Bind
<1> QED BY <1>1, <1>2

LEMMA LoadedFacts ==
  ASSUME TypeOK, NEW s \in Sessions
  PROVE  Loaded(s) \in SUBSET Cells
BY DEF TypeOK, Loaded

LEMMA RegisterTypes ==
  ASSUME TypeOK, ShapeOK, NEW r \in Requests, NEW ok \in BOOLEAN, Register(r, ok),
         UNCHANGED raced
  PROVE  TypeOK' /\ ShapeOK'
<1> DEFINE s == req[r].session
           p == req[r].path
<1>1. s \in Sessions /\ p \in Paths /\ req[r].read \in Contents
  BY RecordFacts DEF Shaped, Register, At
<1>2. CASE ok
  <2>1. /\ sessions' = sessions \union {s}
        /\ byPath' = [byPath EXCEPT ![p] = s]
        /\ path' = [path EXCEPT ![s] = p]
        /\ notebook' = [notebook EXCEPT ![s] = req[r].read.doc]
        /\ vm' = [vm EXCEPT ![s] = Loaded(s)]
        /\ UNCHANGED <<fileVars, snapshotVars, writeVars>>
        /\ End(r)
    BY <1>2 DEF Register
  <2>2. Loaded(s) \in SUBSET Cells
    BY <1>1, LoadedFacts
  <2>3. StoreOK'
    BY <1>1, <2>1, <2>2, RecordFacts, WritesFrame DEF StoreOK, Contents
  <2>4. /\ sessions' \subseteq Sessions
        /\ byPath' \in [Paths -> Sessions \union {Nil}]
        /\ path' \in [Sessions -> Paths \union {Nil}]
    BY <1>1, <2>1 DEF TypeOK
  <2>5. /\ chain' \in [Sessions -> Seq(Requests)]
        /\ req' \in [Requests -> RequestRecords]
        /\ \A x \in Requests : req'[x] = IF x = r THEN NoRequest ELSE req[x]
    BY <2>1, NoRequestFacts DEF TypeOK, End
  <2>6. \A x \in Sessions : path[x] \in Paths => path'[x] \in Paths
    BY <1>1, <2>1 DEF TypeOK
  <2>7. ASSUME NEW x \in Requests PROVE Shaped(req[x])'
    <3>1. CASE x = r
      BY <3>1, <2>5, NoRequestFacts DEF Shaped
    <3>2. CASE x # r
      <4>1. req'[x] = req[x] /\ Shaped(req[x]) /\ req[x] \in RequestRecords
        BY <3>2, <2>5, RecordFacts
      <4> QED BY <4>1, <2>6 DEF Shaped, RequestRecords
    <3> QED BY <3>1, <3>2
  <2>8. \A x \in sessions' : path'[x] \in Paths
    BY <1>1, <2>1 DEF TypeOK, ShapeOK
  <2> QED BY <2>3, <2>4, <2>5, <2>7, <2>8 DEF TypeOK, ShapeOK, StoreOK, WritesOK
<1>3. CASE ~ok
  <2>1. /\ snapshot' = [snapshot EXCEPT ![s] = Nil]
        /\ UNCHANGED <<registryVars, notebook, vm, fileVars, intruded, writeVars>>
        /\ End(r)
    BY <1>3 DEF Register
  <2>2. StoreOK'
    BY <1>1, <2>1, RecordFacts, WritesFrame DEF StoreOK
  <2> QED BY <2>1, <2>2, EndTypes
<1> QED BY <1>2, <1>3

LEMMA DeleteFileTypes ==
  ASSUME TypeOK, ShapeOK, NEW r \in Requests, NEW ok \in BOOLEAN, DeleteFile(r, ok),
         UNCHANGED raced
  PROVE  TypeOK' /\ ShapeOK'
<1> DEFINE s == req[r].session
           removed == ok /\ file[req[r].path] # Nil
<1>1. req[r].path \in Paths /\ At(r, {"delete"}, "deleting")
  BY RecordFacts DEF Shaped, DeleteFile, At
<1>2. UNCHANGED <<snapshotVars, vmVars>>
  BY DEF DeleteFile
<1>3. CASE ~removed
  <2>1. End(r) /\ UNCHANGED <<file, revived, registryVars>>
    BY <1>3 DEF DeleteFile
  <2>2. StoreOK'
    BY <1>2, <2>1, RecordFacts, WritesFrame DEF StoreOK, vmVars
  <2> QED BY <2>1, <2>2, EndTypes
<1>4. CASE removed
  <2>1. StoreOK'
    BY <1>1, <1>2, <1>4, RecordFacts, WritesFrame
    DEF DeleteFile, RemoveFile, StoreOK, vmVars
  <2>2. CASE s = Nil
    BY <1>4, <2>1, <2>2, EndTypes DEF DeleteFile
  <2>3. CASE s # Nil
    <3>1. /\ Proceed(r, "unlinking")
          /\ sessions' = sessions \ {s}
          /\ byPath' = [byPath EXCEPT ![path[s]] = Nil]
          /\ path' = path
      BY <1>4, <2>3 DEF DeleteFile
    <3>2. s \in Sessions /\ path[s] \in Paths
      BY <1>1, <2>3, RecordFacts DEF Shaped, At, RequestRecords
    <3> DEFINE q == [req[r] EXCEPT !.step = "unlinking"]
    <3>3. req' = [req EXCEPT ![r] = q] /\ q \in RequestRecords /\ chain' = chain
      BY <3>1, ProceedFacts DEF Steps
    <3>4. Shaped(q)
      BY <1>1, <3>2, RecordFacts DEF Shaped, At, RequestRecords
    <3>5. req' \in [Requests -> RequestRecords] /\ ShapeOK'
      BY <3>1, <3>3, <3>4, ReplaceRecord
    <3>6. byPath' \in [Paths -> Sessions \union {Nil}] /\ sessions' \subseteq Sessions
      BY <3>1, <3>2 DEF TypeOK
    <3> QED BY <2>1, <3>1, <3>3, <3>5, <3>6 DEF TypeOK, StoreOK, WritesOK
  <2> QED BY <2>2, <2>3
<1> QED BY <1>3, <1>4

LEMMA UnlinkTypes ==
  ASSUME TypeOK, ShapeOK, NEW r \in Requests, NEW ok \in BOOLEAN, Unlink(r, ok),
         UNCHANGED raced
  PROVE  TypeOK' /\ ShapeOK'
<1>1. req[r].session \in Sessions
  BY RecordFacts DEF Shaped, Unlink, At
<1>2. StoreOK'
  BY <1>1, RecordFacts, WritesFrame DEF Unlink, StoreOK, vmVars
<1> QED BY <1>2, EndTypes DEF Unlink

LEMMA MoveReadTypes ==
  ASSUME TypeOK, ShapeOK, NEW r \in Requests, NEW ok \in BOOLEAN, MoveRead(r, ok),
         UNCHANGED raced
  PROVE  TypeOK' /\ ShapeOK'
<1> DEFINE read == file[req[r].path]
           q == [req[r] EXCEPT !.step = "copying", !.read = read]
<1>1. StoreOK' /\ UNCHANGED registryVars
  BY RecordFacts, WritesFrame DEF MoveRead, StoreOK, diskVars, vmVars
<1>2. CASE ok /\ read # Nil
  <2>1. req' = [req EXCEPT ![r] = q] /\ UNCHANGED chain
    BY <1>2 DEF MoveRead, TypeOK
  <2>2. read \in Contents
    BY <1>2, RecordFacts DEF MoveRead, At, Shaped, TypeOK
  <2>3. q \in RequestRecords
    BY <2>2, RecordFacts DEF RequestRecords, Steps
  <2>4. Shaped(q)
    BY <2>2, RecordFacts DEF Shaped, MoveRead, At, RequestRecords
  <2> QED BY <1>1, <2>1, <2>3, <2>4, RecordTypes
<1>3. CASE ~(ok /\ read # Nil)
  BY <1>1, <1>3, EndTypes DEF MoveRead
<1> QED BY <1>2, <1>3

\* A handler of one of the operations ops goes on to a step at which it may have
\* no session of its own.
LEMMA ProceedTypes ==
  ASSUME TypeOK, ShapeOK, NEW r \in Requests,
         NEW step \in Steps \ {"registering", "unlinking", "rebinding"},
         Proceed(r, step), UNCHANGED registryVars, StoreOK',
         step \in {"binding", "copying", "removing", "undoing", "writing",
                   "hydrating", "swapping"} => req[r].read \in Contents
  PROVE  TypeOK' /\ ShapeOK'
<1> DEFINE q == [req[r] EXCEPT !.step = step]
<1>1. req' = [req EXCEPT ![r] = q] /\ q \in RequestRecords /\ chain' = chain
  BY ProceedFacts
<1>2. Shaped(q)
  BY RecordFacts DEF Shaped, RequestRecords
<1> QED BY <1>1, <1>2, RecordTypes

LEMMA MoveCopyTypes ==
  ASSUME TypeOK, ShapeOK, NEW r \in Requests, NEW ok \in BOOLEAN, MoveCopy(r, ok),
         UNCHANGED raced
  PROVE  TypeOK' /\ ShapeOK'
<1>1. req[r].target \in Paths /\ req[r].read \in Contents
  BY RecordFacts DEF Shaped, MoveCopy, At
<1>2. StoreOK' /\ UNCHANGED registryVars
  BY <1>1, RecordFacts, WritesFrame DEF MoveCopy, StoreOK, vmVars
<1>3. CASE ok
  BY <1>1, <1>2, <1>3, ProceedTypes DEF MoveCopy, Steps
<1>4. CASE ~ok
  BY <1>2, <1>4, EndTypes DEF MoveCopy
<1> QED BY <1>3, <1>4

LEMMA MoveRemoveTypes ==
  ASSUME TypeOK, ShapeOK, NEW r \in Requests, NEW ok \in BOOLEAN, MoveRemove(r, ok),
         UNCHANGED raced
  PROVE  TypeOK' /\ ShapeOK'
<1> DEFINE removed == ok /\ file[req[r].path] # Nil
<1>1. req[r].path \in Paths /\ req[r].read \in Contents
  BY RecordFacts DEF Shaped, MoveRemove, At
<1>2. StoreOK' /\ UNCHANGED registryVars
  BY <1>1, RecordFacts, WritesFrame DEF MoveRemove, RemoveFile, StoreOK, vmVars
<1>3. CASE removed /\ req[r].session = Nil
  BY <1>2, <1>3, EndTypes DEF MoveRemove
<1>4. CASE removed /\ req[r].session # Nil
  <2> DEFINE q == [req[r] EXCEPT !.step = "rebinding"]
  <2>1. Proceed(r, "rebinding")
    BY <1>4 DEF MoveRemove
  <2>2. req' = [req EXCEPT ![r] = q] /\ q \in RequestRecords /\ chain' = chain
    BY <2>1, ProceedFacts DEF Steps
  <2>3. Shaped(q)
    BY <1>1, <1>4, RecordFacts DEF Shaped, RequestRecords
  <2> QED BY <1>2, <2>2, <2>3, RecordTypes
<1>5. CASE ~removed
  BY <1>1, <1>2, <1>5, ProceedTypes DEF MoveRemove, Steps
<1> QED BY <1>3, <1>4, <1>5

LEMMA MoveUndoTypes ==
  ASSUME TypeOK, ShapeOK, NEW r \in Requests, NEW ok \in BOOLEAN, MoveUndo(r, ok),
         UNCHANGED raced
  PROVE  TypeOK' /\ ShapeOK'
<1>1. req[r].target \in Paths
  BY RecordFacts DEF Shaped, MoveUndo, At
<1>2. StoreOK'
  BY <1>1, RecordFacts, WritesFrame DEF MoveUndo, StoreOK, vmVars
<1> QED BY <1>2, EndTypes DEF MoveUndo

LEMMA RebindTypes ==
  ASSUME TypeOK, ShapeOK, NEW r \in Requests, Rebind(r),
         UNCHANGED raced
  PROVE  TypeOK' /\ ShapeOK'
<1> DEFINE s == req[r].session
           p == req[r].target
<1>1. s \in Sessions /\ p \in Paths /\ req[r].read \in Contents
  BY RecordFacts DEF Shaped, Rebind, At
<1>2. /\ byPath' = [byPath EXCEPT ![path[s]] = Nil, ![p] = s]
      /\ path' = [path EXCEPT ![s] = p]
      /\ notebook' = [notebook EXCEPT ![s] = req[r].read.doc]
      /\ UNCHANGED <<sessions, diskVars, vm, writeVars>>
      /\ End(r)
  BY DEF Rebind
<1>3. StoreOK'
  BY <1>1, <1>2, RecordFacts, WritesFrame DEF StoreOK, Contents, diskVars
<1>4. /\ byPath' \in [Paths -> Sessions \union {Nil}]
      /\ path' \in [Sessions -> Paths \union {Nil}]
  BY <1>1, <1>2 DEF TypeOK
<1>5. /\ chain' \in [Sessions -> Seq(Requests)]
      /\ req' \in [Requests -> RequestRecords]
      /\ \A x \in Requests : req'[x] = IF x = r THEN NoRequest ELSE req[x]
  BY <1>2, NoRequestFacts DEF TypeOK, End
<1>6. \A x \in Sessions : path[x] \in Paths => path'[x] \in Paths
  BY <1>1, <1>2 DEF TypeOK
<1>7. ASSUME NEW x \in Requests PROVE Shaped(req[x])'
  <2>1. CASE x = r
    BY <2>1, <1>5, NoRequestFacts DEF Shaped
  <2>2. CASE x # r
    <3>1. req'[x] = req[x] /\ Shaped(req[x]) /\ req[x] \in RequestRecords
      BY <2>2, <1>5, RecordFacts
    <3> QED BY <3>1, <1>6 DEF Shaped, RequestRecords
  <2> QED BY <2>1, <2>2
<1>8. \A x \in sessions' : path'[x] \in Paths
  BY <1>2, <1>6 DEF TypeOK, ShapeOK
<1> QED BY <1>2, <1>3, <1>4, <1>5, <1>7, <1>8 DEF TypeOK, ShapeOK, StoreOK, WritesOK

\* The session and its path, in the steps of the requests that work on it.
LEMMA WorkFacts ==
  ASSUME TypeOK, ShapeOK, NEW r \in Requests,
         req[r].op \in {"save", "eval", "edit", "restart", "reload"}
  PROVE  req[r].session \in Sessions /\ path[req[r].session] \in Paths
BY NilAssumption, RecordFacts DEF Shaped, RequestRecords

LEMMA QueueTypes ==
  ASSUME TypeOK, NEW s \in Sessions, NEW cells \in SUBSET Cells, Queue(s, cells)
  PROVE  /\ vm' \in [Sessions -> SUBSET Cells] /\ WritesOK'
<1>1. pending[s] \in [Vms -> Seq(SUBSET Cells)] /\ current[s] \in Vms
  BY DEF TypeOK
<1>2. Append(pending[s][current[s]], cells) \in Seq(SUBSET Cells)
  BY <1>1
<1>3. pending' \in [Sessions -> [Vms -> Seq(SUBSET Cells)]]
  BY <1>1, <1>2 DEF TypeOK, Queue
<1> QED BY <1>3 DEF TypeOK, Queue, WritesOK

LEMMA EvalRunTypes ==
  ASSUME TypeOK, ShapeOK, NEW r \in Requests, NEW ok \in BOOLEAN, EvalRun(r, ok),
         UNCHANGED raced
  PROVE  TypeOK' /\ ShapeOK'
<1> DEFINE s == req[r].session
<1>1. s \in Sessions /\ req[r].cell \in Cells
  BY RecordFacts DEF Shaped, EvalRun, At
<1>2. UNCHANGED <<registryVars, diskVars, notebook>>
  BY DEF EvalRun
<1>3. CASE ok
  <2>1. Queue(s, vm[s] \union {req[r].cell}) /\ Proceed(r, "saving")
    BY <1>3 DEF EvalRun
  <2>2. vm[s] \union {req[r].cell} \in SUBSET Cells
    BY <1>1 DEF TypeOK
  <2>3. StoreOK'
    BY <1>1, <1>2, <2>1, <2>2, QueueTypes, RecordFacts, WritesFrame
    DEF StoreOK, diskVars
  <2> QED BY <1>2, <2>1, <2>3, ProceedTypes DEF Steps
<1>4. CASE ~ok
  <2>1. StoreOK'
    BY <1>2, <1>4, RecordFacts, WritesFrame DEF EvalRun, StoreOK, diskVars
  <2> QED BY <1>2, <1>4, <2>1, EndTypes DEF EvalRun
<1> QED BY <1>3, <1>4

LEMMA EvalSavedTypes ==
  ASSUME TypeOK, ShapeOK, NEW r \in Requests, NEW ok \in BOOLEAN, EvalSaved(r, ok),
         UNCHANGED raced
  PROVE  TypeOK' /\ ShapeOK'
<1>1. StoreOK' /\ UNCHANGED registryVars
  BY RecordFacts, WritesFrame DEF EvalSaved, StoreOK, diskVars, vmVars
<1>2. CASE ok
  BY <1>1, <1>2, ProceedTypes DEF EvalSaved, Steps
<1>3. CASE ~ok
  BY <1>1, <1>3, EndTypes DEF EvalSaved
<1> QED BY <1>2, <1>3

LEMMA EditRunTypes ==
  ASSUME TypeOK, ShapeOK, NEW r \in Requests, NEW ok \in BOOLEAN, EditRun(r, ok),
         UNCHANGED raced
  PROVE  TypeOK' /\ ShapeOK'
<1> DEFINE s == req[r].session
<1>1. s \in Sessions /\ req[r].cell \in Cells
  BY RecordFacts DEF Shaped, EditRun, At
<1>2. /\ UNCHANGED <<registryVars, diskVars, notebook>>
      /\ \/ Queue(s, vm[s] \union {req[r].cell})
         \/ UNCHANGED <<vm, writeVars>>
      /\ Proceed(r, "persisting") \/ End(r)
  BY DEF EditRun
<1>3. vm[s] \union {req[r].cell} \in SUBSET Cells
  BY <1>1 DEF TypeOK
<1>4. StoreOK'
  BY <1>1, <1>2, <1>3, QueueTypes, RecordFacts, WritesFrame DEF StoreOK, diskVars
<1>5. CASE Proceed(r, "persisting")
  BY <1>2, <1>4, <1>5, ProceedTypes DEF Steps
<1>6. CASE End(r)
  BY <1>2, <1>4, <1>6, EndTypes
<1> QED BY <1>2, <1>5, <1>6

LEMMA PersistReadTypes ==
  ASSUME TypeOK, ShapeOK, NEW r \in Requests, PersistRead(r),
         UNCHANGED raced
  PROVE  TypeOK' /\ ShapeOK'
<1>1. StoreOK' /\ UNCHANGED registryVars
  BY RecordFacts, WritesFrame DEF PersistRead, StoreOK, diskVars, vmVars
<1>2. CASE file[path[req[r].session]] = Nil
  BY <1>1, <1>2, EndTypes DEF PersistRead
<1>3. CASE file[path[req[r].session]] # Nil
  BY <1>1, <1>3, ProceedTypes DEF PersistRead, Steps
<1> QED BY <1>2, <1>3

LEMMA PersistLoadTypes ==
  ASSUME TypeOK, ShapeOK, NEW r \in Requests, PersistLoad(r),
         UNCHANGED raced
  PROVE  TypeOK' /\ ShapeOK'
<1> DEFINE s == req[r].session
           doc == IF req[r].op = "save" THEN req[r].doc ELSE notebook[s]
           read == [doc |-> doc, cells |-> Loaded(s)]
           q == [req[r] EXCEPT !.step = "writing", !.read = read]
<1>1. /\ req' = [req EXCEPT ![r].step = "writing", ![r].read = read]
      /\ At(r, {"save", "eval", "edit"}, "loading")
      /\ UNCHANGED <<registryVars, chain>>
      /\ UNCHANGED <<diskVars, vmVars>>
  BY DEF PersistLoad
<1>2. s \in Sessions /\ doc \in Docs
  BY <1>1, WorkFacts, RecordFacts DEF Shaped, At, TypeOK
<1>3. read \in Contents
  BY <1>2, LoadedFacts DEF Contents
<1> HIDE DEF read
<1>4. req' = [req EXCEPT ![r] = q]
  BY <1>1 DEF TypeOK
<1>5. q \in RequestRecords
  BY <1>3, RecordFacts DEF RequestRecords, Steps
<1>6. Shaped(q)
  BY <1>1, <1>3, RecordFacts DEF Shaped, At, RequestRecords
<1>7. StoreOK'
  BY <1>1, RecordFacts, WritesFrame DEF StoreOK, diskVars, vmVars
<1> QED BY <1>1, <1>4, <1>5, <1>6, <1>7, RecordTypes

LEMMA PersistWriteTypes ==
  ASSUME TypeOK, ShapeOK, NEW r \in Requests, NEW ok \in BOOLEAN, PersistWrite(r, ok),
         UNCHANGED raced
  PROVE  TypeOK' /\ ShapeOK'
<1> DEFINE s == req[r].session
<1>1. s \in Sessions /\ path[s] \in Paths /\ req[r].read \in Contents
  BY WorkFacts, RecordFacts DEF Shaped, PersistWrite, At
<1>2. /\ End(r)
      /\ UNCHANGED <<registryVars, snapshotVars, vm, writeVars>>
      /\ \/ /\ Written(r, path[s], s)
            /\ notebook' = [notebook EXCEPT ![s] = req[r].read.doc]
         \/ UNCHANGED <<file, revived, notebook>>
  BY DEF PersistWrite
<1>3. StoreOK'
  BY <1>1, <1>2, RecordFacts, WritesFrame DEF Written, StoreOK, Contents
<1> QED BY <1>2, <1>3, EndTypes

LEMMA FlushTypes ==
  ASSUME TypeOK, ShapeOK, NEW s \in Sessions, NEW v \in Vms, NEW ok \in BOOLEAN,
         Flush(s, v, ok)
  PROVE  TypeOK' /\ ShapeOK'
<1>1. /\ pending[s] \in [Vms -> Seq(SUBSET Cells)]
      /\ pending[s][v] \in Seq(SUBSET Cells) /\ pending[s][v] # <<>>
  BY DEF TypeOK, Flush
<1>2. /\ Head(pending[s][v]) \in SUBSET Cells
      /\ Tail(pending[s][v]) \in Seq(SUBSET Cells)
  BY <1>1
<1>3. pending' \in [Sessions -> [Vms -> Seq(SUBSET Cells)]]
  BY <1>1, <1>2 DEF TypeOK, Flush
<1>4. /\ snapshot' \in [Sessions -> (SUBSET Cells) \union {Nil}]
      /\ intruded' \subseteq Sessions
      /\ saved' \in [Sessions -> BOOLEAN]
      /\ UNCHANGED <<sessions, byPath, path, file, revived, notebook, vm, current,
                     chain, req, raced>>
  BY <1>2 DEF TypeOK, Flush, registryVars
<1> QED BY <1>3, <1>4 DEF TypeOK, ShapeOK, Shaped

LEMMA RereadTypes ==
  ASSUME TypeOK, ShapeOK, NEW r \in Requests, Reread(r),
         UNCHANGED raced
  PROVE  TypeOK' /\ ShapeOK'
<1> DEFINE read == file[path[req[r].session]]
           q == [req[r] EXCEPT !.step = "hydrating", !.read = read]
<1>1. /\ StoreOK' /\ UNCHANGED registryVars
      /\ At(r, {"restart", "reload"}, "rereading")
  BY RecordFacts, WritesFrame DEF Reread, StoreOK, diskVars, vmVars
<1>2. CASE read = Nil
  BY <1>1, <1>2, EndTypes DEF Reread
<1>3. CASE read # Nil
  <2>1. req' = [req EXCEPT ![r] = q] /\ UNCHANGED chain
    BY <1>3 DEF Reread, TypeOK
  <2>2. read \in Contents
    BY <1>1, <1>3, WorkFacts DEF At, TypeOK
  <2>3. q \in RequestRecords
    BY <2>2, RecordFacts DEF RequestRecords, Steps
  <2>4. Shaped(q)
    BY <1>1, <2>2, RecordFacts DEF Shaped, At, RequestRecords
  <2> QED BY <1>1, <2>1, <2>3, <2>4, RecordTypes
<1> QED BY <1>2, <1>3

LEMMA HydrateTypes ==
  ASSUME TypeOK, ShapeOK, NEW r \in Requests, NEW ok \in BOOLEAN, Hydrate(r, ok),
         UNCHANGED raced
  PROVE  TypeOK' /\ ShapeOK'
<1>1. req[r].session \in Sessions /\ req[r].read \in Contents
  BY WorkFacts, RecordFacts DEF Shaped, Hydrate, At
<1>2. StoreOK' /\ UNCHANGED registryVars
  BY <1>1, RecordFacts, WritesFrame DEF Hydrate, StoreOK, vmVars, Contents
<1>3. CASE ok
  BY <1>1, <1>2, <1>3, ProceedTypes DEF Hydrate, Steps
<1>4. CASE ~ok
  BY <1>2, <1>4, EndTypes DEF Hydrate
<1> QED BY <1>3, <1>4

LEMMA SwapTypes ==
  ASSUME TypeOK, ShapeOK, NEW r \in Requests, NEW ok \in BOOLEAN, Swap(r, ok),
         UNCHANGED raced
  PROVE  TypeOK' /\ ShapeOK'
<1> DEFINE s == req[r].session
<1>1. s \in Sessions /\ req[r].read \in Contents
  BY WorkFacts, RecordFacts DEF Shaped, Swap, At
<1>2. Loaded(s) \in SUBSET Cells
  BY <1>1, LoadedFacts
<1>3. /\ vm' = vm \/ vm' = [vm EXCEPT ![s] = Loaded(s)]
      /\ \/ notebook' = notebook
         \/ notebook' = [notebook EXCEPT ![s] = req[r].read.doc]
      /\ \/ current' = current
         \/ \E v \in Vms : current' = [current EXCEPT ![s] = v]
      /\ UNCHANGED <<registryVars, diskVars, pending, saved>>
      /\ End(r)
  BY DEF Swap, NewVm
<1>4. current' \in [Sessions -> Vms]
  BY <1>3 DEF TypeOK
<1>5. WritesOK'
  BY <1>3, <1>4 DEF TypeOK, WritesOK
<1>6. StoreOK'
  BY <1>1, <1>2, <1>3, <1>5, RecordFacts DEF StoreOK, Contents, diskVars
<1> QED BY <1>3, <1>6, EndTypes

LEMMA CrashTypes ==
  ASSUME TypeOK, ShapeOK, Crash
  PROVE  TypeOK' /\ ShapeOK'
<1>1. TypeOK'
  BY NewDocAssumption, NoRequestFacts DEF Crash, TypeOK, diskVars
<1>2. ASSUME NEW x \in Requests PROVE Shaped(req[x])'
  BY NoRequestFacts DEF Crash, Shaped
<1> QED BY <1>1, <1>2 DEF Crash, ShapeOK

\* Each step keeps the types.
LEMMA NextTypes ==
  ASSUME TypeOK, ShapeOK, Next
  PROVE  TypeOK' /\ ShapeOK'
<1>1. ASSUME NEW r \in Clients, NEW p \in Paths,
             \/ Create(r, p) \/ Open(r, p) \/ Delete(r, p)
             \/ \E q \in Paths : Move(r, p, q)
      PROVE  TypeOK' /\ ShapeOK'
  BY <1>1, CreateTypes, OpenTypes, DeleteTypes, MoveTypes
<1>2. ASSUME NEW r \in Users, NEW s \in Sessions,
             \/ Restart(r, s) \/ Reload(r, s)
             \/ \E d \in Docs : Save(r, s, d)
             \/ \E c \in Cells : Evaluate(r, s, c) \/ Edit(r, s, c)
      PROVE  TypeOK' /\ ShapeOK'
  <2>1. CASE Restart(r, s)
    BY <2>1, AskTypes DEF Restart, Steps
  <2>2. CASE Reload(r, s)
    BY <2>2, AskTypes DEF Reload, Steps
  <2>3. ASSUME NEW d \in Docs, Save(r, s, d) PROVE TypeOK' /\ ShapeOK'
    BY <2>3, AskTypes DEF Save, Steps
  <2>4. ASSUME NEW c \in Cells, Evaluate(r, s, c) PROVE TypeOK' /\ ShapeOK'
    BY <2>4, AskTypes DEF Evaluate, Steps
  <2>5. ASSUME NEW c \in Cells, Edit(r, s, c) PROVE TypeOK' /\ ShapeOK'
    BY <2>5, AskTypes DEF Edit, Steps
  <2> QED BY <1>2, <2>1, <2>2, <2>3, <2>4, <2>5
<1>3. ASSUME NEW r \in Requests, NEW ok \in BOOLEAN, Ends(r, ok)
      PROVE  TypeOK' /\ ShapeOK'
  BY <1>3, CreateWriteTypes, OpenReadTypes, BindTypes, RegisterTypes,
     DeleteFileTypes, UnlinkTypes, MoveReadTypes, MoveCopyTypes, MoveRemoveTypes,
     MoveUndoTypes, RebindTypes, EvalSavedTypes, EditRunTypes, PersistReadTypes,
     PersistLoadTypes, PersistWriteTypes, RereadTypes, HydrateTypes
  DEF Ends
<1>4. ASSUME NEW r \in Requests, NEW ok \in BOOLEAN, UserCode(r, ok)
      PROVE  TypeOK' /\ ShapeOK'
  BY <1>4, EvalRunTypes, SwapTypes DEF UserCode
<1> QED BY <1>1, <1>2, <1>3, <1>4, FlushTypes, CrashTypes DEF Next

LEMMA InitTypes == Init => TypeOK /\ ShapeOK
<1> SUFFICES ASSUME Init PROVE TypeOK /\ ShapeOK
  OBVIOUS
<1>1. TypeOK
  BY NewDocAssumption, VmsAssumption, NoRequestFacts DEF Init, TypeOK, Contents
<1>2. ASSUME NEW x \in Requests PROVE Shaped(req[x])
  BY NoRequestFacts DEF Init
<1> QED BY <1>1, <1>2 DEF Init, ShapeOK

TypeInv == TypeOK /\ ShapeOK

LEMMA StutterTypes == TypeInv /\ UNCHANGED vars => TypeInv'
BY DEF TypeInv, TypeOK, ShapeOK, Shaped, vars, registryVars, diskVars, vmVars

LEMMA TypesInvariant == Spec => []TypeInv
<1>1. Init => TypeInv
  BY InitTypes DEF TypeInv
<1>2. TypeInv /\ [Next]_vars => TypeInv'
  BY NextTypes, StutterTypes DEF TypeInv
<1> QED BY <1>1, <1>2, PTL DEF Spec

\* Every variable of the registry keeps its type, whatever the requests and
\* however their handlers interleave.
THEOREM RegistryTypeCorrect == Spec => []TypeOK
<1>1. TypeInv => TypeOK
  BY DEF TypeInv
<1> QED BY <1>1, TypesInvariant, PTL

-----------------------------------------------------------------------------
(* The path index and the turns of the requests.  A session that is being
   registered is nobody else's (FreshOK); a code in the index is that of a
   session with this path, registered or not (IndexOK); a request past its turn
   heads the chain of its session (TurnOK). *)

FreshOK ==
  \A r \in Requests : req[r].step = "registering" =>
    /\ req[r].session \notin sessions
    /\ \A p \in Paths : byPath[p] # req[r].session
    /\ \A x \in Requests : req[x].session = req[r].session => x = r

IndexOK == \A p \in Paths : byPath[p] # Nil => path[byPath[p]] = p

TurnOK ==
  /\ \A r \in Requests : Inside(r) /\ req[r].step # "registering" =>
       chain[req[r].session] # <<>> /\ Head(chain[req[r].session]) = r
  /\ \A r \in Requests : req[r].op \in {"create", "open"} =>
       req[r].session = Nil \/ req[r].step = "registering"

SessionsInv == TypeInv /\ FreshOK /\ IndexOK /\ TurnOK

\* A step of the handler of r as the other requests see it: it may leave the head
\* of a chain, and it is past its turn only if it was or has its turn now.
StepOK(r) ==
  /\ \A x \in Requests \ {r} : req'[x] = req[x]
  /\ \A s \in Sessions : chain[s] # <<>> /\ Head(chain[s]) # r =>
       chain'[s] # <<>> /\ Head(chain'[s]) = Head(chain[s])
  /\ Inside(r)' =>
       \/ req'[r].step = "registering"
       \/ /\ chain' = chain
          /\ req'[r].session = req[r].session
          /\ MyTurn(r) \/ (Inside(r) /\ req[r].step # "registering")
  /\ req'[r].op \in {"create", "open"} =>
       req'[r].session = Nil \/ req'[r].step = "registering"

\* The step does not touch the registry nor take a session that is not in it.
LocalOK(r) ==
  /\ UNCHANGED registryVars
  /\ req'[r].step # "registering"
  /\ req'[r].session \in sessions \union {Nil, req[r].session}

LEMMA StepKeepsTurns ==
  ASSUME TypeInv, TypeInv', TurnOK, NEW r \in Requests, StepOK(r)
  PROVE  TurnOK'
<1>1. \A x \in Requests : req[x].op \in {"create", "open"} =>
        req[x].session = Nil \/ req[x].step = "registering"
  BY DEF TurnOK
<1>2. \A x \in Requests : req'[x].op \in {"create", "open"} =>
        req'[x].session = Nil \/ req'[x].step = "registering"
  BY <1>1 DEF StepOK
<1>3. ASSUME NEW x \in Requests, Inside(x)', req'[x].step # "registering"
      PROVE  /\ chain'[req'[x].session] # <<>>
             /\ Head(chain'[req'[x].session]) = x
  <2>1. CASE x = r
    <3>1. /\ chain' = chain
          /\ req'[r].session = req[r].session
          /\ req[r].session # Nil
          /\ MyTurn(r) \/ (Inside(r) /\ req[r].step # "registering")
      BY <1>3, <2>1 DEF StepOK, Inside
    <3> QED BY <2>1, <3>1 DEF TurnOK, MyTurn
  <2>2. CASE x # r
    <3>1. req'[x] = req[x]
      BY <2>2 DEF StepOK
    <3>2. Inside(x)
      BY <1>3, <3>1 DEF Inside, At
    <3>3. req[x].session \in Sessions
      BY <3>2 DEF Inside, TypeInv, TypeOK, RequestRecords
    <3>4. chain[req[x].session] # <<>> /\ Head(chain[req[x].session]) = x
      BY <1>3, <3>1, <3>2 DEF TurnOK
    <3> QED BY <2>2, <3>1, <3>3, <3>4 DEF StepOK
  <2> QED BY <2>1, <2>2
<1> QED BY <1>2, <1>3 DEF TurnOK

LEMMA StepKeepsRegistry ==
  ASSUME TypeInv, FreshOK, IndexOK, NEW r \in Requests, StepOK(r), LocalOK(r)
  PROVE  FreshOK' /\ IndexOK'
<1>1. IndexOK'
  BY DEF LocalOK, registryVars, IndexOK
<1>2. ASSUME NEW x \in Requests, req'[x].step = "registering"
      PROVE  /\ req'[x].session \notin sessions'
             /\ \A p \in Paths : byPath'[p] # req'[x].session
             /\ \A y \in Requests : req'[y].session = req'[x].session => y = x
  <2>1. x # r
    BY <1>2 DEF LocalOK
  <2>2. req'[x] = req[x] /\ req[x].step = "registering"
    BY <1>2, <2>1 DEF StepOK
  <2>3. req[x].session \in Sessions
    BY <2>2 DEF TypeInv, ShapeOK, Shaped
  <2>4. /\ req[x].session \notin sessions
        /\ \A p \in Paths : byPath[p] # req[x].session
        /\ \A y \in Requests : req[y].session = req[x].session => y = x
    BY <2>2 DEF FreshOK
  <2>5. ASSUME NEW y \in Requests, req'[y].session = req[x].session PROVE y = x
    <3>1. CASE y = r
      <4>1. req[x].session \in sessions \union {Nil, req[r].session}
        BY <2>5, <3>1 DEF LocalOK
      <4>2. req[r].session # req[x].session
        BY <2>1, <2>4
      <4> QED BY <2>3, <2>4, <4>1, <4>2, NilAssumption
    <3>2. CASE y # r
      BY <2>4, <2>5, <3>2 DEF StepOK
    <3> QED BY <3>1, <3>2
  <2> QED BY <2>2, <2>4, <2>5 DEF LocalOK, registryVars
<1> QED BY <1>1, <1>2 DEF FreshOK

LEMMA EndStep ==
  ASSUME TypeInv, NEW r \in Requests, End(r)
  PROVE  /\ StepOK(r)
         /\ req'[r].step # "registering"
         /\ req'[r].session \in sessions \union {Nil, req[r].session}
<1>1. /\ \A x \in Requests \ {r} : req'[x] = req[x]
      /\ req'[r] = NoRequest
      /\ \A s \in Sessions : chain'[s] =
           IF chain[s] # <<>> /\ Head(chain[s]) = r THEN Tail(chain[s]) ELSE chain[s]
  BY DEF TypeInv, TypeOK, End
<1> QED BY <1>1, NoRequestFacts DEF StepOK, Inside

\* Going on, within a turn, to another step or with something read.
LEMMA ProceedStep ==
  ASSUME TypeInv, TurnOK, NEW r \in Requests, NEW q \in RequestRecords,
         req' = [req EXCEPT ![r] = q], chain' = chain,
         q.op = req[r].op, q.session = req[r].session, q.step # "registering",
         req[r].step # "registering",
         MyTurn(r) \/ Inside(r) \/ req[r].op \in {"create", "open"}
  PROVE  /\ StepOK(r)
         /\ req'[r].step # "registering"
         /\ req'[r].session \in sessions \union {Nil, req[r].session}
<1>1. req'[r] = q /\ \A x \in Requests \ {r} : req'[x] = req[x]
  BY DEF TypeInv, TypeOK
<1>2. req[r].op \in {"create", "open"} =>
        req[r].session = Nil \/ req[r].step = "registering"
  BY DEF TurnOK
<1>3. CASE req[r].op \in {"create", "open"}
  BY <1>1, <1>2, <1>3 DEF StepOK, Inside
<1>4. CASE Inside(r)
  BY <1>1, <1>2, <1>4 DEF StepOK, Inside
<1>5. CASE MyTurn(r) /\ ~(req[r].op \in {"create", "open"})
  BY <1>1, <1>5 DEF StepOK
<1> QED BY <1>3, <1>4, <1>5

LEMMA BeginStep ==
  ASSUME TypeInv, NEW r \in Requests, NEW s \in Sessions \union {Nil},
         NEW q \in RequestRecords, Begin(r, s, q),
         q.step \in Waits \/ q.session = Nil \/ (q.op = "save" /\ q.step = "persisting"),
         q.step # "registering",
         q.session \in sessions \union {Nil},
         q.op \in {"create", "open"} => q.session = Nil
  PROVE  /\ StepOK(r)
         /\ req'[r].step # "registering"
         /\ req'[r].session \in sessions \union {Nil, req[r].session}
<1>1. req'[r] = q /\ \A x \in Requests \ {r} : req'[x] = req[x]
  BY DEF TypeInv, TypeOK, Begin
<1>2. ~Inside(r)'
  BY <1>1 DEF Inside, At
<1>3. ASSUME NEW t \in Sessions, chain[t] # <<>>, Head(chain[t]) # r
      PROVE  chain'[t] # <<>> /\ Head(chain'[t]) = Head(chain[t])
  <2>1. chain[t] \in Seq(Requests)
    BY DEF TypeInv, TypeOK
  <2>2. chain'[t] = chain[t] \/ chain'[t] = Append(chain[t], r)
    BY DEF TypeInv, TypeOK, Begin
  <2> QED BY <1>3, <2>1, <2>2
<1> QED BY <1>1, <1>2, <1>3 DEF StepOK

-----------------------------------------------------------------------------
(* Each step of a handler that stays within the registry it found. *)

\* A handler that is past its awaits for a turn, or needs none, may go on.
LEMMA GoOnStep ==
  ASSUME TypeInv, TurnOK, NEW r \in Requests,
         NEW step \in Steps \ {"registering"}, Proceed(r, step),
         req[r].step # "registering",
         \/ MyTurn(r)
         \/ req[r].step \notin Waits /\ ~At(r, {"save"}, "persisting")
  PROVE  /\ StepOK(r)
         /\ req'[r].step # "registering"
         /\ req'[r].session \in sessions \union {Nil, req[r].session}
<1> DEFINE q == [req[r] EXCEPT !.step = step]
<1>1. q \in RequestRecords /\ req' = [req EXCEPT ![r] = q] /\ chain' = chain
  BY ProceedFacts DEF TypeInv
<1>2. q.op = req[r].op /\ q.session = req[r].session /\ q.step # "registering"
  BY DEF TypeInv, TypeOK, RequestRecords
<1>3. MyTurn(r) \/ Inside(r)
  BY DEF MyTurn, Inside
<1> HIDE DEF q
<1> QED BY <1>1, <1>2, <1>3, ProceedStep

LEMMA ReadStep ==
  ASSUME TypeInv, TurnOK, NEW r \in Requests,
         NEW step \in Steps \ {"registering"}, NEW read \in Contents,
         req' = [req EXCEPT ![r].step = step, ![r].read = read], chain' = chain,
         req[r].step # "registering",
         \/ MyTurn(r)
         \/ req[r].step \notin Waits /\ ~At(r, {"save"}, "persisting")
  PROVE  /\ StepOK(r)
         /\ req'[r].step # "registering"
         /\ req'[r].session \in sessions \union {Nil, req[r].session}
<1> DEFINE q == [req[r] EXCEPT !.step = step, !.read = read]
<1>1. q \in RequestRecords /\ req' = [req EXCEPT ![r] = q]
  <2>1. req[r] \in RequestRecords
    BY DEF TypeInv, TypeOK
  <2>2. q \in RequestRecords
    BY <2>1 DEF RequestRecords
  <2> QED BY <2>2 DEF TypeInv, TypeOK
<1>2. q.op = req[r].op /\ q.session = req[r].session /\ q.step # "registering"
  BY DEF TypeInv, TypeOK, RequestRecords
<1>3. MyTurn(r) \/ Inside(r)
  BY DEF MyTurn, Inside
<1> HIDE DEF q
<1> QED BY <1>1, <1>2, <1>3, ProceedStep

LEMMA OpeningSteps ==
  ASSUME TypeInv, TurnOK, NEW r \in Requests, NEW ok \in BOOLEAN,
         CreateWrite(r, ok) \/ OpenRead(r, ok)
  PROVE  StepOK(r) /\ LocalOK(r)
<1>1. UNCHANGED registryVars /\ req[r].step # "registering" /\ req[r].step \notin Waits
  BY DEF CreateWrite, OpenRead, At, Waits
<1>2. CASE End(r)
  BY <1>1, <1>2, EndStep DEF LocalOK
<1>3. ASSUME NEW read \in Contents, chain' = chain,
             req' = [req EXCEPT ![r].step = "binding", ![r].read = read]
      PROVE  StepOK(r) /\ LocalOK(r)
  <2>1. ~At(r, {"save"}, "persisting")
    BY DEF CreateWrite, OpenRead, At
  <2> QED BY <1>1, <1>3, <2>1, ReadStep DEF LocalOK, Steps
<1>4. [doc |-> NewDoc, cells |-> {}] \in Contents
  BY NewDocAssumption DEF Contents
<1>5. CASE CreateWrite(r, ok)
  BY <1>2, <1>3, <1>4, <1>5 DEF CreateWrite
<1>6. CASE OpenRead(r, ok)
  <2>1. req[r].path \in Paths
    BY <1>6, RecordFacts DEF OpenRead, At, Shaped, TypeInv
  <2>2. file[req[r].path] \in Contents \union {Nil}
    BY <2>1 DEF TypeInv, TypeOK
  <2> QED BY <1>2, <1>3, <1>6, <2>2 DEF OpenRead
<1> QED BY <1>5, <1>6

LEMMA MovingSteps ==
  ASSUME TypeInv, TurnOK, NEW r \in Requests, NEW ok \in BOOLEAN,
         \/ MoveRead(r, ok) \/ MoveCopy(r, ok) \/ MoveRemove(r, ok)
         \/ MoveUndo(r, ok) \/ Unlink(r, ok)
  PROVE  StepOK(r) /\ LocalOK(r)
<1>1. UNCHANGED registryVars /\ req[r].step # "registering"
  BY DEF MoveRead, MoveCopy, MoveRemove, MoveUndo, Unlink, At
<1>2. CASE End(r)
  BY <1>1, <1>2, EndStep DEF LocalOK
<1>3. CASE MoveRead(r, ok) /\ ~End(r)
  <2>1. /\ req' = [req EXCEPT ![r].step = "copying",
                              ![r].read = file[req[r].path]]
        /\ UNCHANGED chain /\ MyTurn(r) /\ file[req[r].path] # Nil
    BY <1>3 DEF MoveRead
  <2>2. req[r].path \in Paths
    BY <1>3, RecordFacts DEF MoveRead, At, Shaped, TypeInv
  <2>3. file[req[r].path] \in Contents
    BY <2>1, <2>2 DEF TypeInv, TypeOK
  <2> QED BY <1>1, <2>1, <2>3, ReadStep DEF LocalOK, Steps
<1>4. CASE MoveCopy(r, ok) /\ ~End(r)
  <2>1. Proceed(r, "removing") /\ At(r, {"move"}, "copying")
    BY <1>4 DEF MoveCopy
  <2> QED BY <1>1, <2>1, GoOnStep DEF LocalOK, Steps, Waits, At
<1>5. CASE MoveRemove(r, ok) /\ ~End(r)
  <2>1. /\ Proceed(r, "rebinding") \/ Proceed(r, "undoing")
        /\ At(r, {"move"}, "removing")
    BY <1>5 DEF MoveRemove
  <2> QED BY <1>1, <2>1, GoOnStep DEF LocalOK, Steps, Waits, At
<1>6. CASE MoveUndo(r, ok) \/ Unlink(r, ok)
  BY <1>2, <1>6 DEF MoveUndo, Unlink
<1> QED BY <1>2, <1>3, <1>4, <1>5, <1>6

LEMMA CellSteps ==
  ASSUME TypeInv, TurnOK, NEW r \in Requests, NEW ok \in BOOLEAN,
         EvalRun(r, ok) \/ EvalSaved(r, ok) \/ EditRun(r, ok)
  PROVE  StepOK(r) /\ LocalOK(r)
<1>1. UNCHANGED registryVars /\ req[r].step # "registering"
  BY DEF EvalRun, EvalSaved, EditRun, At
<1>2. CASE End(r)
  BY <1>1, <1>2, EndStep DEF LocalOK
<1>3. CASE EvalRun(r, ok) /\ ~End(r)
  <2>1. Proceed(r, "saving") /\ MyTurn(r)
    BY <1>3 DEF EvalRun
  <2> QED BY <1>1, <2>1, GoOnStep DEF LocalOK, Steps
<1>4. CASE EvalSaved(r, ok) /\ ~End(r)
  <2>1. Proceed(r, "persisting") /\ At(r, {"eval"}, "saving")
    BY <1>4 DEF EvalSaved
  <2> QED BY <1>1, <2>1, GoOnStep DEF LocalOK, Steps, Waits, At
<1>5. CASE EditRun(r, ok) /\ ~End(r)
  <2>1. Proceed(r, "persisting") /\ MyTurn(r)
    BY <1>5 DEF EditRun
  <2> QED BY <1>1, <2>1, GoOnStep DEF LocalOK, Steps
<1> QED BY <1>2, <1>3, <1>4, <1>5

LEMMA PersistSteps ==
  ASSUME TypeInv, TurnOK, NEW r \in Requests, NEW ok \in BOOLEAN,
         PersistRead(r) \/ PersistLoad(r) \/ PersistWrite(r, ok)
  PROVE  StepOK(r) /\ LocalOK(r)
<1>1. UNCHANGED registryVars /\ req[r].step # "registering"
  BY DEF PersistRead, PersistLoad, PersistWrite, At
<1>2. CASE End(r)
  BY <1>1, <1>2, EndStep DEF LocalOK
<1>3. CASE PersistRead(r) /\ ~End(r)
  <2>1. Proceed(r, "loading") /\ MyTurn(r)
    BY <1>3 DEF PersistRead
  <2> QED BY <1>1, <2>1, GoOnStep DEF LocalOK, Steps
<1>4. CASE PersistLoad(r)
  <2> DEFINE s == req[r].session
             doc == IF req[r].op = "save" THEN req[r].doc ELSE notebook[s]
             read == [doc |-> doc, cells |-> Loaded(s)]
  <2>1. /\ req' = [req EXCEPT ![r].step = "writing", ![r].read = read]
        /\ At(r, {"save", "eval", "edit"}, "loading")
        /\ UNCHANGED chain
    BY <1>4 DEF PersistLoad
  <2>2. s \in Sessions /\ doc \in Docs
    BY <2>1, WorkFacts, RecordFacts DEF Shaped, At, TypeOK, TypeInv
  <2>3. read \in Contents
    BY <2>2, LoadedFacts DEF Contents, TypeInv
  <2> HIDE DEF read
  <2> QED BY <1>1, <2>1, <2>3, ReadStep DEF LocalOK, Steps, Waits, At
<1>5. CASE PersistWrite(r, ok)
  BY <1>2, <1>5 DEF PersistWrite
<1> QED BY <1>2, <1>3, <1>4, <1>5

LEMMA RestartSteps ==
  ASSUME TypeInv, TurnOK, NEW r \in Requests, NEW ok \in BOOLEAN,
         Reread(r) \/ Hydrate(r, ok) \/ Swap(r, ok)
  PROVE  StepOK(r) /\ LocalOK(r)
<1>1. UNCHANGED registryVars /\ req[r].step # "registering"
  BY DEF Reread, Hydrate, Swap, At
<1>2. CASE End(r)
  BY <1>1, <1>2, EndStep DEF LocalOK
<1>3. CASE Reread(r) /\ ~End(r)
  <2> DEFINE read == file[path[req[r].session]]
  <2>1. /\ req' = [req EXCEPT ![r].step = "hydrating", ![r].read = read]
        /\ UNCHANGED chain /\ MyTurn(r) /\ read # Nil
        /\ At(r, {"restart", "reload"}, "rereading")
    BY <1>3 DEF Reread
  <2>2. read \in Contents
    BY <2>1, WorkFacts DEF At, TypeOK, TypeInv
  <2> HIDE DEF read
  <2> QED BY <1>1, <2>1, <2>2, ReadStep DEF LocalOK, Steps
<1>4. CASE Hydrate(r, ok) /\ ~End(r)
  <2>1. Proceed(r, "swapping") /\ At(r, {"restart", "reload"}, "hydrating")
    BY <1>4 DEF Hydrate
  <2> QED BY <1>1, <2>1, GoOnStep DEF LocalOK, Steps, Waits, At
<1>5. CASE Swap(r, ok)
  BY <1>2, <1>5 DEF Swap
<1> QED BY <1>2, <1>3, <1>4, <1>5

-----------------------------------------------------------------------------
(* The steps that change the registry or take a new session. *)

\* What the record of one request says of the sessions being registered.
LEMMA FreshFacts ==
  ASSUME TypeInv, FreshOK, NEW x \in Requests, req[x].step = "registering"
  PROVE  /\ req[x].session \in Sessions
         /\ req[x].session # Nil
         /\ req[x].session \notin sessions
         /\ \A p \in Paths : byPath[p] # req[x].session
         /\ \A y \in Requests : req[y].session = req[x].session => y = x
BY NilAssumption DEF FreshOK, TypeInv, ShapeOK, Shaped

LEMMA BindStep ==
  ASSUME TypeInv, FreshOK, IndexOK, TurnOK, NEW r \in Requests, Bind(r)
  PROVE  StepOK(r) /\ FreshOK' /\ IndexOK'
<1>1. UNCHANGED registryVars /\ req[r].step = "binding"
  BY DEF Bind, At
<1>2. CASE End(r)
  BY <1>1, <1>2, EndStep, StepKeepsRegistry DEF LocalOK
<1>3. CASE Allocate(r)
  <2>1. PICK s \in Sessions :
          /\ Unused(s)
          /\ req' = [req EXCEPT ![r].step = "registering", ![r].session = s]
          /\ UNCHANGED chain
    BY <1>3 DEF Allocate
  <2>2. /\ \A x \in Requests \ {r} : req'[x] = req[x]
        /\ req'[r].step = "registering" /\ req'[r].session = s
    BY <2>1 DEF TypeInv, TypeOK, RequestRecords
  <2>3. StepOK(r)
    BY <2>1, <2>2 DEF StepOK
  <2>4. ASSUME NEW x \in Requests, req'[x].step = "registering"
        PROVE  /\ req'[x].session \notin sessions
               /\ \A p \in Paths : byPath[p] # req'[x].session
               /\ \A y \in Requests : req'[y].session = req'[x].session => y = x
    <3>1. CASE x = r
      BY <2>1, <2>2, <3>1 DEF Unused
    <3>2. CASE x # r
      <4>1. req'[x] = req[x] /\ req[x].session # s
        BY <2>1, <2>2, <3>2 DEF Unused
      <4> QED BY <2>2, <2>4, <4>1, FreshFacts
    <3> QED BY <3>1, <3>2
  <2>5. FreshOK' /\ IndexOK'
    BY <1>1, <2>4 DEF FreshOK, IndexOK, registryVars
  <2> QED BY <2>3, <2>5
<1> QED BY <1>2, <1>3 DEF Bind

LEMMA RegisterStep ==
  ASSUME TypeInv, FreshOK, IndexOK, NEW r \in Requests, NEW ok \in BOOLEAN,
         Register(r, ok)
  PROVE  StepOK(r) /\ FreshOK' /\ IndexOK'
<1> DEFINE s == req[r].session
           p == req[r].path
<1>1. End(r) /\ req[r].step = "registering" /\ p \in Paths
  BY RecordFacts DEF Register, At, Shaped, TypeInv
<1>2. StepOK(r)
  BY <1>1, EndStep
<1>3. CASE ~ok
  BY <1>1, <1>2, <1>3, EndStep, StepKeepsRegistry DEF LocalOK, Register
<1>4. CASE ok
  <2>1. /\ sessions' = sessions \union {s}
        /\ byPath' = [byPath EXCEPT ![p] = s]
        /\ path' = [path EXCEPT ![s] = p]
    BY <1>4 DEF Register
  <2>2. /\ s \in Sessions
        /\ \A p2 \in Paths : byPath[p2] # s
        /\ \A y \in Requests : req[y].session = s => y = r
    BY <1>1, FreshFacts
  <2>3. req'[r] = NoRequest /\ \A x \in Requests \ {r} : req'[x] = req[x]
    BY <1>1 DEF TypeInv, TypeOK, End
  <2>4. IndexOK'
    BY <1>1, <2>1, <2>2 DEF IndexOK, TypeInv, TypeOK
  <2>5. ASSUME NEW x \in Requests, req'[x].step = "registering"
        PROVE  /\ req'[x].session \notin sessions'
               /\ \A p2 \in Paths : byPath'[p2] # req'[x].session
               /\ \A y \in Requests : req'[y].session = req'[x].session => y = x
    <3>1. x # r /\ req'[x] = req[x]
      BY <2>3, <2>5, NoRequestFacts
    <3>2. req[x].session # s
      BY <2>2, <3>1
    <3>3. /\ req[x].session # Nil
          /\ req[x].session \notin sessions
          /\ \A p2 \in Paths : byPath[p2] # req[x].session
          /\ \A y \in Requests : req[y].session = req[x].session => y = x
      BY <2>5, <3>1, FreshFacts
    <3>4. \A p2 \in Paths : byPath'[p2] # req[x].session
      BY <2>1, <3>2, <3>3 DEF TypeInv, TypeOK
    <3> QED BY <2>1, <2>3, <3>1, <3>2, <3>3, <3>4, NoRequestFacts
  <2> QED BY <1>2, <2>4, <2>5 DEF FreshOK
<1> QED BY <1>3, <1>4

LEMMA DeleteFileStep ==
  ASSUME TypeInv, FreshOK, IndexOK, TurnOK, NEW r \in Requests, NEW ok \in BOOLEAN,
         DeleteFile(r, ok)
  PROVE  StepOK(r) /\ FreshOK' /\ IndexOK'
<1> DEFINE s == req[r].session
<1>1. At(r, {"delete"}, "deleting") /\ MyTurn(r)
  BY DEF DeleteFile
<1>2. CASE End(r) /\ UNCHANGED registryVars
  BY <1>2, EndStep, StepKeepsRegistry DEF LocalOK
<1>3. CASE ~(End(r) /\ UNCHANGED registryVars)
  <2>1. /\ s # Nil
        /\ Proceed(r, "unlinking")
        /\ sessions' = sessions \ {s}
        /\ byPath' = [byPath EXCEPT ![path[s]] = Nil]
        /\ UNCHANGED path
    BY <1>3 DEF DeleteFile
  <2>2. StepOK(r) /\ req'[r].step # "registering"
    BY <1>1, <2>1, GoOnStep DEF At, Steps
  <2>3. IndexOK'
    BY <2>1 DEF IndexOK, TypeInv, TypeOK
  <2>4. \A x \in Requests : req'[x].session = req[x].session
    BY <2>1 DEF Proceed, TypeInv, TypeOK, RequestRecords
  <2>5. ASSUME NEW x \in Requests, req'[x].step = "registering"
        PROVE  /\ req'[x].session \notin sessions'
               /\ \A p \in Paths : byPath'[p] # req'[x].session
               /\ \A y \in Requests : req'[y].session = req'[x].session => y = x
    <3>1. req[x].step = "registering"
      BY <2>2, <2>5 DEF StepOK
    <3>2. /\ req[x].session # Nil
          /\ req[x].session \notin sessions
          /\ \A p \in Paths : byPath[p] # req[x].session
          /\ \A y \in Requests : req[y].session = req[x].session => y = x
      BY <3>1, FreshFacts
    <3>3. \A p \in Paths : byPath'[p] # req[x].session
      BY <2>1, <3>2 DEF TypeInv, TypeOK
    <3> QED BY <2>1, <2>4, <3>2, <3>3
  <2> QED BY <2>2, <2>3, <2>5 DEF FreshOK
<1> QED BY <1>2, <1>3

LEMMA RebindStep ==
  ASSUME TypeInv, FreshOK, IndexOK, NEW r \in Requests, Rebind(r)
  PROVE  StepOK(r) /\ FreshOK' /\ IndexOK'
<1> DEFINE s == req[r].session
           t == req[r].target
<1>1. s \in Sessions /\ t \in Paths /\ req[r].step = "rebinding"
  BY RecordFacts DEF Shaped, Rebind, At, TypeInv
<1>2. /\ byPath' = [byPath EXCEPT ![path[s]] = Nil, ![t] = s]
      /\ path' = [path EXCEPT ![s] = t]
      /\ UNCHANGED sessions
      /\ End(r)
  BY DEF Rebind
<1>3. StepOK(r)
  BY <1>2, EndStep
<1>4. req'[r] = NoRequest /\ \A x \in Requests \ {r} : req'[x] = req[x]
  BY <1>2 DEF TypeInv, TypeOK, End
<1>5. \A p \in Paths :
        \/ p = t /\ byPath'[p] = s
        \/ byPath'[p] = Nil
        \/ p # t /\ p # path[s] /\ byPath'[p] = byPath[p]
  BY <1>1, <1>2 DEF TypeInv, TypeOK
<1>6. ASSUME NEW p \in Paths, byPath'[p] # Nil PROVE path'[byPath'[p]] = p
  <2>1. CASE p = t /\ byPath'[p] = s
    BY <1>1, <1>2, <2>1 DEF TypeInv, TypeOK
  <2>2. CASE p # path[s] /\ byPath'[p] = byPath[p]
    <3>1. path[byPath[p]] = p /\ byPath[p] \in Sessions
      BY <1>6, <2>2 DEF IndexOK, TypeInv, TypeOK
    <3> QED BY <1>2, <2>2, <3>1 DEF TypeInv, TypeOK
  <2> QED BY <1>5, <1>6, <2>1, <2>2
<1>7. ASSUME NEW x \in Requests, req'[x].step = "registering"
      PROVE  /\ req'[x].session \notin sessions'
             /\ \A p \in Paths : byPath'[p] # req'[x].session
             /\ \A y \in Requests : req'[y].session = req'[x].session => y = x
  <2>1. x # r /\ req'[x] = req[x] /\ req[x].step = "registering"
    BY <1>4, <1>7, NoRequestFacts
  <2>2. /\ req[x].session # Nil
        /\ req[x].session \notin sessions
        /\ \A p \in Paths : byPath[p] # req[x].session
        /\ \A y \in Requests : req[y].session = req[x].session => y = x
    BY <2>1, FreshFacts
  <2>3. req[x].session # s
    BY <2>1, <2>2
  <2> QED BY <1>2, <1>4, <1>5, <2>1, <2>2, <2>3, NoRequestFacts
<1> QED BY <1>3, <1>6, <1>7 DEF FreshOK, IndexOK

LEMMA FlushStep ==
  ASSUME FreshOK, IndexOK, TurnOK, NEW s \in Sessions, NEW v \in Vms, NEW ok \in BOOLEAN,
         Flush(s, v, ok)
  PROVE  FreshOK' /\ IndexOK' /\ TurnOK'
BY DEF FreshOK, IndexOK, TurnOK, Inside, At, Flush, registryVars

LEMMA CrashStep == Crash => FreshOK' /\ IndexOK' /\ TurnOK'
<1> SUFFICES ASSUME Crash PROVE FreshOK' /\ IndexOK' /\ TurnOK'
  OBVIOUS
<1>1. \A x \in Requests : req'[x] = NoRequest
  BY DEF Crash
<1>2. \A p \in Paths : byPath'[p] = Nil
  BY DEF Crash
<1> QED BY <1>1, <1>2, NoRequestFacts DEF FreshOK, IndexOK, TurnOK, Inside

\* The handlers that begin: they wait for their turn or have no session.
LEMMA ClientStep ==
  ASSUME TypeInv, NEW r \in Clients, NEW p \in Paths,
         \/ Create(r, p) \/ Open(r, p) \/ Delete(r, p)
         \/ \E q \in Paths : Move(r, p, q)
  PROVE  r \in Requests /\ StepOK(r) /\ LocalOK(r)
<1>1. r \in Requests /\ UNCHANGED registryVars
  BY DEF Create, Open, Delete, Move, Requests
<1>2. Lookup(p) \in sessions \union {Nil} /\ Lookup(p) \in Sessions \union {Nil}
  BY DEF Lookup, TypeInv, TypeOK
<1>3. CASE Create(r, p)
  <2> DEFINE q == [NoRequest EXCEPT !.op = "create", !.step = "creating", !.path = p]
  <2>1. Begin(r, Nil, q) /\ q \in RequestRecords /\ q.session = Nil
        /\ q.step = "creating"
    BY <1>3 DEF Create, NoRequest, RequestRecords, Steps
  <2> HIDE DEF q
  <2> QED BY <1>1, <2>1, BeginStep DEF LocalOK
<1>4. CASE Open(r, p)
  <2> DEFINE q == [NoRequest EXCEPT !.op = "open", !.step = "opening", !.path = p]
  <2>1. Begin(r, Nil, q) /\ q \in RequestRecords /\ q.session = Nil
        /\ q.step = "opening"
    BY <1>4 DEF Open, NoRequest, RequestRecords, Steps
  <2> HIDE DEF q
  <2> QED BY <1>1, <2>1, BeginStep DEF LocalOK
<1>5. CASE Delete(r, p)
  <2> DEFINE q == [NoRequest EXCEPT !.op = "delete", !.path = p,
                            !.step = "deleting", !.session = Lookup(p)]
  <2>1. Begin(r, Lookup(p), q) /\ q \in RequestRecords /\ q.op = "delete"
        /\ q.session = Lookup(p) /\ q.step = "deleting"
    BY <1>2, <1>5 DEF Delete, NoRequest, RequestRecords, Steps
  <2> HIDE DEF q
  <2> QED BY <1>1, <1>2, <2>1, BeginStep DEF LocalOK, Waits
<1>6. ASSUME NEW t \in Paths, Move(r, p, t) PROVE StepOK(r) /\ LocalOK(r)
  <2> DEFINE q == [NoRequest EXCEPT !.op = "move", !.step = "moving",
                            !.path = p, !.target = t, !.session = Lookup(p)]
  <2>1. Begin(r, Lookup(p), q) /\ q \in RequestRecords /\ q.op = "move"
        /\ q.session = Lookup(p) /\ q.step = "moving"
    BY <1>2, <1>6 DEF Move, NoRequest, RequestRecords, Steps
  <2> HIDE DEF q
  <2> QED BY <1>1, <1>2, <2>1, BeginStep DEF LocalOK, Waits
<1> QED BY <1>1, <1>3, <1>4, <1>5, <1>6

LEMMA AskStep ==
  ASSUME TypeInv, NEW r \in Users, NEW s \in Sessions,
         NEW op \in {"save", "eval", "edit", "restart", "reload"},
         NEW step \in Steps, NEW doc \in Docs \union {Nil},
         NEW cell \in Cells \union {Nil},
         step \in Waits \/ (op = "save" /\ step = "persisting"),
         Ask(r, s, op, step, doc, cell)
  PROVE  r \in Requests /\ StepOK(r) /\ LocalOK(r)
<1> DEFINE q == [NoRequest EXCEPT !.op = op, !.step = step, !.session = s,
                    !.path = path[s], !.doc = doc, !.cell = cell]
<1>1. r \in Requests /\ UNCHANGED registryVars /\ s \in sessions /\ Begin(r, s, q)
  BY DEF Ask, Requests
<1>2. path[s] \in Paths
  BY <1>1 DEF TypeInv, ShapeOK
<1>3. /\ q \in RequestRecords
      /\ q.op = op /\ q.step = step /\ q.session = s /\ step # "registering"
  BY <1>2 DEF NoRequest, RequestRecords, Waits
<1> HIDE DEF q
<1> QED BY <1>1, <1>3, BeginStep DEF LocalOK

LEMMA UserStep ==
  ASSUME TypeInv, NEW r \in Users, NEW s \in Sessions,
         \/ Restart(r, s) \/ Reload(r, s)
         \/ \E d \in Docs : Save(r, s, d)
         \/ \E c \in Cells : Evaluate(r, s, c) \/ Edit(r, s, c)
  PROVE  r \in Requests /\ StepOK(r) /\ LocalOK(r)
<1>1. CASE Restart(r, s)
  BY <1>1, AskStep DEF Restart, Steps, Waits
<1>2. CASE Reload(r, s)
  BY <1>2, AskStep DEF Reload, Steps, Waits
<1>3. ASSUME NEW d \in Docs, Save(r, s, d)
      PROVE  r \in Requests /\ StepOK(r) /\ LocalOK(r)
  BY <1>3, AskStep DEF Save, Steps
<1>4. ASSUME NEW c \in Cells, Evaluate(r, s, c)
      PROVE  r \in Requests /\ StepOK(r) /\ LocalOK(r)
  BY <1>4, AskStep DEF Evaluate, Steps, Waits
<1>5. ASSUME NEW c \in Cells, Edit(r, s, c)
      PROVE  r \in Requests /\ StepOK(r) /\ LocalOK(r)
  BY <1>5, AskStep DEF Edit, Steps, Waits
<1> QED BY <1>1, <1>2, <1>3, <1>4, <1>5

\* A handler that goes on or ends is of no concern to the others.
LEMMA EndsStep ==
  ASSUME SessionsInv, NEW r \in Requests, NEW ok \in BOOLEAN,
         Ends(r, ok) \/ UserCode(r, ok)
  PROVE  StepOK(r)
BY OpeningSteps, BindStep, RegisterStep, DeleteFileStep, RebindStep, MovingSteps,
   CellSteps, PersistSteps, RestartSteps
DEF SessionsInv, Ends, UserCode

\* Each step keeps the registry and the turns.
LEMMA NextSessions ==
  ASSUME SessionsInv, Next
  PROVE  SessionsInv'
<1>1. TypeInv' /\ TypeInv /\ FreshOK /\ IndexOK /\ TurnOK
  BY NextTypes DEF SessionsInv, TypeInv
<1>2. ASSUME NEW r \in Requests, StepOK(r), FreshOK', IndexOK' PROVE SessionsInv'
  BY <1>1, <1>2, StepKeepsTurns DEF SessionsInv
<1>3. ASSUME NEW r \in Requests, StepOK(r), LocalOK(r) PROVE SessionsInv'
  BY <1>1, <1>2, <1>3, StepKeepsRegistry
<1>4. ASSUME NEW r \in Requests, NEW ok \in BOOLEAN, Ends(r, ok) PROVE SessionsInv'
  <2>1. CASE CreateWrite(r, ok) \/ OpenRead(r, ok)
    BY <1>1, <1>3, <2>1, OpeningSteps
  <2>2. CASE Bind(r) \/ Register(r, ok) \/ DeleteFile(r, ok) \/ Rebind(r)
    BY <1>1, <1>2, <2>2, BindStep, RegisterStep, DeleteFileStep, RebindStep
  <2>3. CASE \/ MoveRead(r, ok) \/ MoveCopy(r, ok) \/ MoveRemove(r, ok)
             \/ MoveUndo(r, ok) \/ Unlink(r, ok)
    BY <1>1, <1>3, <2>3, MovingSteps
  <2>4. CASE EvalSaved(r, ok) \/ EditRun(r, ok)
    BY <1>1, <1>3, <2>4, CellSteps
  <2>5. CASE PersistRead(r) \/ PersistLoad(r) \/ PersistWrite(r, ok)
    BY <1>1, <1>3, <2>5, PersistSteps
  <2>6. CASE Reread(r) \/ Hydrate(r, ok)
    BY <1>1, <1>3, <2>6, RestartSteps
  <2> QED BY <1>4, <2>1, <2>2, <2>3, <2>4, <2>5, <2>6 DEF Ends
<1>5. ASSUME NEW r \in Requests, NEW ok \in BOOLEAN, UserCode(r, ok)
      PROVE  SessionsInv'
  BY <1>1, <1>3, <1>5, CellSteps, RestartSteps DEF UserCode
<1>6. ASSUME NEW s \in Sessions, NEW v \in Vms, NEW ok \in BOOLEAN,
         Flush(s, v, ok) PROVE SessionsInv'
  BY <1>1, <1>6, FlushStep DEF SessionsInv
<1>7. CASE Crash
  BY <1>1, <1>7, CrashStep DEF SessionsInv
<1>8. CASE \E r \in Clients, p \in Paths :
             \/ Create(r, p) \/ Open(r, p) \/ Delete(r, p)
             \/ \E q \in Paths : Move(r, p, q)
  BY <1>1, <1>3, <1>8, ClientStep
<1>9. CASE \E r \in Users, s \in Sessions :
             \/ Restart(r, s) \/ Reload(r, s)
             \/ \E d \in Docs : Save(r, s, d)
             \/ \E c \in Cells : Evaluate(r, s, c) \/ Edit(r, s, c)
  BY <1>1, <1>3, <1>9, UserStep
<1> QED BY <1>4, <1>5, <1>6, <1>7, <1>8, <1>9 DEF Next

LEMMA InitSessions == Init => SessionsInv
<1> SUFFICES ASSUME Init PROVE SessionsInv
  OBVIOUS
<1>1. TypeInv
  BY InitTypes DEF TypeInv
<1>2. \A x \in Requests : req[x] = NoRequest
  BY DEF Init
<1>3. \A p \in Paths : byPath[p] = Nil
  BY DEF Init
<1> QED BY <1>1, <1>2, <1>3, NoRequestFacts
        DEF SessionsInv, FreshOK, IndexOK, TurnOK, Inside

LEMMA StutterSessions == SessionsInv /\ UNCHANGED vars => SessionsInv'
BY StutterTypes DEF SessionsInv, FreshOK, IndexOK, TurnOK, Inside, At, vars,
                    registryVars

LEMMA SessionsInvariant == Spec => []SessionsInv
BY InitSessions, StutterSessions, NextSessions, PTL DEF Spec

\* The path index never leads to a session of another notebook, for any number
\* of clients that create, open, move and delete notebooks at once.
THEOREM IndexIsSound == Spec => []IndexSound
<1>1. SessionsInv => IndexSound
  <2> SUFFICES ASSUME SessionsInv, NEW p \in Paths, Lookup(p) # Nil
               PROVE  path[Lookup(p)] = p
    BY DEF IndexSound
  <2>1. Lookup(p) = byPath[p]
    BY DEF Lookup
  <2> QED BY <2>1 DEF SessionsInv, IndexOK
<1> QED BY <1>1, SessionsInvariant, PTL

\* runExclusive works: of all the requests of a session, at most one is past its
\* turn, although handlers suspend, fail and end in any order.
THEOREM ExclusiveSessions == Spec => []SessionIsExclusive
<1>1. SessionsInv => SessionIsExclusive
  <2> SUFFICES ASSUME SessionsInv, NEW r1 \in Requests, NEW r2 \in Requests,
                      Inside(r1), Inside(r2), req[r1].session = req[r2].session
               PROVE  r1 = r2
    BY DEF SessionIsExclusive
  <2>1. CASE req[r1].step = "registering" \/ req[r2].step = "registering"
    BY <2>1 DEF SessionsInv, FreshOK
  <2>2. CASE req[r1].step # "registering" /\ req[r2].step # "registering"
    BY <2>2 DEF SessionsInv, TurnOK
  <2> QED BY <2>1, <2>2
<1> QED BY <1>1, SessionsInvariant, PTL

-----------------------------------------------------------------------------
(* The cell of an evaluation, on its way from the VM through the snapshot file to
   the notebook file.  The request holds its turn meanwhile: only VMs that were
   replaced may write the snapshot of its session, and then the file is known to be
   intruded until the next evaluation. *)

\* The write chain of the VM in use.
Own(s) == pending[s][current[s]]

InSnapshot(cell, s) == s \in intruded \/ (snapshot[s] # Nil /\ cell \in snapshot[s])

CellOK(r) ==
  LET s == req[r].session
  IN req[r].op = "eval" =>
       /\ req[r].step = "saving" =>
            /\ Own(s) # <<>> => req[r].cell \in Own(s)[Len(Own(s))]
            /\ Own(s) = <<>> /\ saved[s] => InSnapshot(req[r].cell, s)
       /\ req[r].step \in {"persisting", "loading"} =>
            Own(s) = <<>> /\ InSnapshot(req[r].cell, s)
       /\ req[r].step = "writing" =>
            Own(s) = <<>> /\ (s \in intruded \/ req[r].cell \in req[r].read.cells)

CellsInv == SessionsInv /\ \A r \in Requests : CellOK(r)

\* Whose turn it is works on another session than anyone past his turn.
LEMMA TurnsApart ==
  ASSUME TurnOK, NEW r \in Requests, NEW x \in Requests, x # r,
         Inside(x), req[x].step # "registering", req[r].session # Nil,
         MyTurn(r) \/ (Inside(r) /\ req[r].step # "registering")
  PROVE  req[r].session # req[x].session
<1>1. chain[req[x].session] # <<>> /\ Head(chain[req[x].session]) = x
  BY DEF TurnOK
<1>2. chain[req[r].session] # <<>> /\ Head(chain[req[r].session]) = r
  BY DEF TurnOK, MyTurn
<1> QED BY <1>1, <1>2

\* Nothing but what session t remembers and has on disk changes.
OnlyOf(t) ==
  \A s \in Sessions \ {t} :
    /\ current'[s] = current[s] /\ pending'[s] = pending[s] /\ saved'[s] = saved[s]
    /\ snapshot'[s] = snapshot[s] /\ (s \in intruded' <=> s \in intruded)

LEMMA CellFrame ==
  ASSUME TypeInv, NEW x \in Requests, CellOK(x), req'[x] = req[x], NEW t, OnlyOf(t),
         Inside(x) /\ req[x].step # "registering" => req[x].session # t
  PROVE  CellOK(x)'
<1> SUFFICES ASSUME req[x].op = "eval",
                    req[x].step \in {"saving", "persisting", "loading", "writing"}
             PROVE  CellOK(x)'
  BY DEF CellOK
<1>1. req[x].session \in Sessions
  BY WorkFacts DEF TypeInv
<1>2. Inside(x) /\ req[x].step # "registering"
  BY <1>1, NilAssumption DEF Inside, At, Waits
<1> PICK s \in Sessions : s = req[x].session
  BY <1>1
<1>3. /\ current'[s] = current[s] /\ pending'[s] = pending[s] /\ saved'[s] = saved[s]
      /\ snapshot'[s] = snapshot[s] /\ (s \in intruded' <=> s \in intruded)
  BY <1>2 DEF OnlyOf
<1>4. req'[x].session = s /\ CellOK(x)
  OBVIOUS
<1> QED BY <1>3, <1>4 DEF CellOK, Own, InSnapshot

\* A step of the handler of r that touches its own session, a fresh one or none.
LEMMA StepKeepsCells ==
  ASSUME CellsInv, NEW r \in Requests, StepOK(r), NEW t, OnlyOf(t), CellOK(r)',
         \/ t = Nil
         \/ \A x \in Requests : req[x].session = t => x = r
         \/ /\ req[r].session = t
            /\ MyTurn(r) \/ (Inside(r) /\ req[r].step # "registering")
  PROVE  \A x \in Requests : CellOK(x)'
<1> SUFFICES ASSUME NEW x \in Requests, x # r PROVE CellOK(x)'
  OBVIOUS
<1>1. req'[x] = req[x] /\ CellOK(x)
  BY DEF StepOK, CellsInv
<1>2. Inside(x) /\ req[x].step # "registering" => req[x].session # t
  BY TurnsApart DEF CellsInv, SessionsInv, Inside
<1> QED BY <1>1, <1>2, CellFrame DEF CellsInv, SessionsInv

\* A handler that suspends again works on the same paths, and on the same session
\* unless it has just taken one.
SameWork(r) ==
  /\ req'[r].op = req[r].op
  /\ req'[r].path = req[r].path /\ req'[r].target = req[r].target
  /\ req'[r].session = req[r].session \/ req[r].op \in {"create", "open"}

LEMMA StepKeepsWork ==
  ASSUME TypeInv, NEW r \in Requests, NEW ok \in BOOLEAN,
         Ends(r, ok) \/ UserCode(r, ok)
  PROVE  req'[r] = NoRequest \/ SameWork(r)
<1>1. End(r) => req'[r] = NoRequest
  BY DEF TypeInv, TypeOK, End
<1>2. ASSUME NEW step, Proceed(r, step) PROVE SameWork(r)
  BY <1>2 DEF TypeInv, TypeOK, RequestRecords, Proceed, SameWork
<1>3. ASSUME NEW step, NEW read,
             req' = [req EXCEPT ![r].step = step, ![r].read = read]
      PROVE  SameWork(r)
  BY <1>3 DEF TypeInv, TypeOK, RequestRecords, SameWork
<1>4. ASSUME NEW step, NEW s, req[r].op \in {"create", "open"},
             req' = [req EXCEPT ![r].step = step, ![r].session = s]
      PROVE  SameWork(r)
  BY <1>4 DEF TypeInv, TypeOK, RequestRecords, SameWork
<1>5. CASE CreateWrite(r, ok)
  BY <1>1, <1>3, <1>5 DEF CreateWrite
<1>6. CASE OpenRead(r, ok)
  BY <1>1, <1>3, <1>6 DEF OpenRead
<1>7. CASE Bind(r)
  BY <1>1, <1>4, <1>7 DEF Bind, Allocate, At
<1>8. CASE DeleteFile(r, ok)
  BY <1>1, <1>2, <1>8 DEF DeleteFile
<1>9. CASE MoveRead(r, ok)
  BY <1>1, <1>3, <1>9 DEF MoveRead
<1>10. CASE MoveCopy(r, ok) \/ MoveRemove(r, ok)
  BY <1>1, <1>2, <1>10 DEF MoveCopy, MoveRemove
<1>11. CASE \/ Register(r, ok) \/ Unlink(r, ok) \/ MoveUndo(r, ok) \/ Rebind(r)
            \/ PersistWrite(r, ok) \/ Swap(r, ok)
  BY <1>1, <1>11 DEF Register, Unlink, MoveUndo, Rebind, PersistWrite, Swap
<1>12. CASE EvalRun(r, ok) \/ EvalSaved(r, ok) \/ EditRun(r, ok)
  BY <1>1, <1>2, <1>12 DEF EvalRun, EvalSaved, EditRun
<1>13. CASE PersistRead(r) \/ Hydrate(r, ok)
  BY <1>1, <1>2, <1>13 DEF PersistRead, Hydrate
<1>14. CASE PersistLoad(r)
  BY <1>3, <1>14 DEF PersistLoad
<1>15. CASE Reread(r)
  BY <1>1, <1>3, <1>15 DEF Reread
<1> QED BY <1>5, <1>6, <1>7, <1>8, <1>9, <1>10, <1>11, <1>12, <1>13, <1>14, <1>15
        DEF Ends, UserCode

LEMMA StepKeepsOp ==
  ASSUME TypeInv, NEW r \in Requests, NEW ok \in BOOLEAN,
         Ends(r, ok) \/ UserCode(r, ok)
  PROVE  req'[r].op \in {req[r].op, "none"}
BY StepKeepsWork, NoRequestFacts DEF SameWork

\* Whatever is done for another operation, or in the end, no cell is on its way.
LEMMA OtherCells ==
  ASSUME NEW r \in Requests, req'[r].op # "eval"
  PROVE  CellOK(r)'
BY DEF CellOK

\* The steps that leave the VMs and their snapshots alone.
LEMMA QuietCells ==
  ASSUME CellsInv, NEW r \in Requests, StepOK(r), CellOK(r)',
         UNCHANGED <<snapshotVars, writeVars>>
  PROVE  \A x \in Requests : CellOK(x)'
<1>1. OnlyOf(Nil)
  BY DEF OnlyOf
<1> QED BY <1>1, StepKeepsCells

\* The VM in use queues a snapshot: it is the last of its chain.
LEMMA QueueCells ==
  ASSUME TypeOK, NEW s \in Sessions, NEW cells \in SUBSET Cells, Queue(s, cells),
         UNCHANGED snapshotVars
  PROVE  OnlyOf(s) /\ Own(s)' # <<>> /\ Own(s)'[Len(Own(s)')] = cells
<1>1. /\ current[s] \in Vms /\ pending[s] \in [Vms -> Seq(SUBSET Cells)]
      /\ pending[s][current[s]] \in Seq(SUBSET Cells)
  BY DEF TypeOK
<1>2. Own(s)' = Append(pending[s][current[s]], cells)
  BY <1>1 DEF TypeOK, Queue, Own
<1>3. Own(s)' # <<>> /\ Own(s)'[Len(Own(s)')] = cells
  BY <1>1, <1>2
<1>4. OnlyOf(s)
  BY DEF TypeOK, Queue, OnlyOf
<1> QED BY <1>3, <1>4

LEMMA EvalRunCells ==
  ASSUME CellsInv, NEW r \in Requests, NEW ok \in BOOLEAN, EvalRun(r, ok)
  PROVE  \A x \in Requests : CellOK(x)'
<1>1. TypeInv /\ TypeOK /\ StepOK(r)
  BY CellSteps DEF CellsInv, SessionsInv, TypeInv
<1> PICK s \in Sessions : s = req[r].session
  BY <1>1, WorkFacts DEF EvalRun, At, TypeInv
<1>2. MyTurn(r) /\ req[r].cell \in Cells
  BY <1>1, RecordFacts DEF EvalRun, At, TypeInv, Shaped
<1>3. CASE ~ok
  <2>1. End(r) /\ UNCHANGED <<snapshotVars, writeVars>>
    BY <1>3 DEF EvalRun, diskVars
  <2>2. req'[r].op # "eval"
    BY <1>1, <2>1, NoRequestFacts DEF TypeOK, End
  <2> QED BY <1>1, <2>1, <2>2, OtherCells, QuietCells
<1>4. CASE ok
  <2>1. PICK cells \in SUBSET Cells : Queue(s, cells) /\ req[r].cell \in cells
    <3>1. Queue(s, vm[s] \union {req[r].cell})
      BY <1>4 DEF EvalRun
    <3>2. vm[s] \union {req[r].cell} \in SUBSET Cells
      BY <1>1, <1>2 DEF TypeOK
    <3> QED BY <3>1, <3>2
  <2>2. UNCHANGED snapshotVars /\ Proceed(r, "saving")
    BY <1>4 DEF EvalRun, diskVars
  <2>3. OnlyOf(s) /\ Own(s)' # <<>> /\ Own(s)'[Len(Own(s)')] = cells
    BY <1>1, <2>1, <2>2, QueueCells
  <2>4. /\ req'[r].step = "saving"
        /\ req'[r].session = s /\ req'[r].cell = req[r].cell
    BY <1>1, <2>2 DEF Proceed, TypeOK, RequestRecords
  <2>5. CellOK(r)'
    BY <2>1, <2>3, <2>4 DEF CellOK, Own
  <2> QED BY <1>1, <1>2, <2>3, <2>5, StepKeepsCells
<1> QED BY <1>3, <1>4

\* A snapshot that was written holds what the VM holds.
LEMMA EvalSavedCells ==
  ASSUME CellsInv, NEW r \in Requests, NEW ok \in BOOLEAN, EvalSaved(r, ok)
  PROVE  \A x \in Requests : CellOK(x)'
<1> DEFINE s == req[r].session
<1>1. TypeInv /\ TypeOK /\ StepOK(r)
  BY CellSteps DEF CellsInv, SessionsInv, TypeInv
<1>2. req[r].op = "eval" /\ req[r].step = "saving"
  BY DEF EvalSaved, At
<1>3. UNCHANGED <<snapshotVars, writeVars>>
  BY DEF EvalSaved, diskVars, vmVars
<1>4. CASE ~ok
  <2>1. req'[r].op # "eval"
    BY <1>1, <1>4, NoRequestFacts DEF TypeOK, EvalSaved, End
  <2> QED BY <1>1, <1>3, <2>1, OtherCells, QuietCells
<1>5. CASE ok
  <2>1. Own(s) = <<>> /\ saved[s] /\ Proceed(r, "persisting")
    BY <1>5 DEF EvalSaved, Own
  <2>2. InSnapshot(req[r].cell, s)
    BY <1>2, <2>1 DEF CellsInv, CellOK
  <2>3. /\ req'[r].step = "persisting"
        /\ req'[r].session = s /\ req'[r].cell = req[r].cell
    BY <1>1, <2>1 DEF Proceed, TypeOK, RequestRecords
  <2>4. CellOK(r)'
    BY <1>3, <2>1, <2>2, <2>3 DEF CellOK, Own, InSnapshot
  <2> QED BY <1>1, <1>3, <2>4, QuietCells
<1> QED BY <1>4, <1>5

LEMMA EditRunCells ==
  ASSUME CellsInv, NEW r \in Requests, NEW ok \in BOOLEAN, EditRun(r, ok),
         UNCHANGED raced
  PROVE  \A x \in Requests : CellOK(x)'
<1> DEFINE s == req[r].session
           cells == vm[s] \union {req[r].cell}
<1>1. TypeInv /\ TypeOK /\ StepOK(r)
  BY CellSteps DEF CellsInv, SessionsInv, TypeInv
<1>2. req[r].op = "edit" /\ MyTurn(r)
  BY DEF EditRun, At
<1>3. s \in Sessions /\ req[r].cell \in Cells /\ cells \in SUBSET Cells
  BY <1>1, <1>2, WorkFacts, RecordFacts DEF TypeInv, TypeOK, Shaped
<1>4. req'[r].op # "eval"
  <2>1. Ends(r, ok)
    BY DEF Ends
  <2> QED BY <1>1, <1>2, <2>1, StepKeepsOp
<1>5. CASE Queue(s, cells)
  <2>1. OnlyOf(s)
    BY <1>1, <1>3, <1>5, QueueCells DEF EditRun, diskVars
  <2> QED BY <1>1, <1>2, <1>4, <2>1, OtherCells, StepKeepsCells
<1>6. CASE ~Queue(s, cells)
  BY <1>1, <1>4, <1>6, OtherCells, QuietCells DEF EditRun, diskVars
<1> QED BY <1>5, <1>6

LEMMA PersistCells ==
  ASSUME CellsInv, NEW r \in Requests, NEW ok \in BOOLEAN,
         PersistRead(r) \/ PersistLoad(r) \/ PersistWrite(r, ok)
  PROVE  \A x \in Requests : CellOK(x)'
<1> DEFINE s == req[r].session
<1>1. TypeInv /\ TypeOK /\ StepOK(r) /\ UNCHANGED <<snapshotVars, writeVars>>
  BY PersistSteps
  DEF CellsInv, SessionsInv, TypeInv, PersistRead, PersistLoad, PersistWrite,
      diskVars, vmVars
<1>2. CellOK(r)
  BY DEF CellsInv
<1>3. CASE End(r)
  <2>1. req'[r].op # "eval"
    BY <1>1, <1>3, NoRequestFacts DEF TypeOK, End
  <2> QED BY <1>1, <2>1, OtherCells, QuietCells
<1>4. CASE PersistRead(r) /\ ~End(r)
  <2>1. Proceed(r, "loading") /\ req[r].step = "persisting"
    BY <1>4 DEF PersistRead, At
  <2>2. /\ req'[r].op = req[r].op /\ req'[r].step = "loading"
        /\ req'[r].session = s /\ req'[r].cell = req[r].cell
    BY <1>1, <2>1 DEF Proceed, TypeOK, RequestRecords
  <2>3. CellOK(r)'
    BY <1>1, <1>2, <2>1, <2>2 DEF CellOK, Own, InSnapshot
  <2> QED BY <1>1, <2>3, QuietCells
<1>5. CASE PersistLoad(r)
  <2>1. PICK doc :
          /\ req' = [req EXCEPT ![r].step = "writing",
                                ![r].read = [doc |-> doc, cells |-> Loaded(s)]]
          /\ req[r].step = "loading"
    BY <1>5 DEF PersistLoad, At
  <2>2. /\ req'[r].op = req[r].op /\ req'[r].step = "writing"
        /\ req'[r].session = s
        /\ req'[r].cell = req[r].cell /\ req'[r].read.cells = Loaded(s)
    BY <1>1, <2>1 DEF TypeOK, RequestRecords
  <2>3. CellOK(r)'
    BY <1>1, <1>2, <2>1, <2>2 DEF CellOK, Loaded, Own, InSnapshot
  <2> QED BY <1>1, <2>3, QuietCells
<1> QED BY <1>3, <1>4, <1>5 DEF PersistWrite

\* The steps of other operations that write a snapshot or replace a VM.
LEMMA OtherSnapshots ==
  ASSUME CellsInv, NEW r \in Requests, NEW ok \in BOOLEAN,
         Unlink(r, ok) \/ Hydrate(r, ok) \/ Swap(r, ok), UNCHANGED raced
  PROVE  \A x \in Requests : CellOK(x)'
<1>1. TypeInv /\ TypeOK /\ TurnOK /\ StepOK(r)
  BY MovingSteps, RestartSteps DEF CellsInv, SessionsInv, TypeInv
<1>2. req'[r].op \in {"delete", "restart", "reload", "none"}
  <2>1. Ends(r, ok) \/ UserCode(r, ok)
    BY DEF Ends, UserCode
  <2>2. req'[r].op \in {req[r].op, "none"}
    BY <1>1, <2>1, StepKeepsOp
  <2> QED BY <2>2 DEF Unlink, Hydrate, Swap, At
<1>3. OnlyOf(req[r].session)
  <2>1. CASE Unlink(r, ok) \/ Hydrate(r, ok)
    BY <1>1, <2>1 DEF OnlyOf, TypeOK, Unlink, Hydrate, vmVars
  <2>2. CASE Swap(r, ok)
    BY <1>1, <2>2 DEF OnlyOf, TypeOK, Swap, NewVm, diskVars
  <2> QED BY <2>1, <2>2
<1>4. req[r].session \in Sessions
  <2>1. Shaped(req[r])
    BY <1>1 DEF TypeInv, ShapeOK
  <2> QED BY <2>1 DEF Shaped, Unlink, Hydrate, Swap, At
<1>5. Inside(r) /\ req[r].step # "registering"
  BY <1>4, NilAssumption DEF Inside, Waits, Unlink, Hydrate, Swap, At
<1> QED BY <1>1, <1>2, <1>3, <1>5, OtherCells, StepKeepsCells

LEMMA OpeningCells ==
  ASSUME CellsInv, NEW r \in Requests, NEW ok \in BOOLEAN,
         Bind(r) \/ Register(r, ok), UNCHANGED raced
  PROVE  \A x \in Requests : CellOK(x)'
<1>1. TypeInv /\ TypeOK /\ FreshOK /\ StepOK(r)
  BY BindStep, RegisterStep DEF CellsInv, SessionsInv, TypeInv
<1>2. req'[r].op # "eval"
  <2>1. Ends(r, ok)
    BY DEF Ends
  <2>2. req'[r].op \in {req[r].op, "none"}
    BY <1>1, <2>1, StepKeepsOp
  <2> QED BY <2>2 DEF Bind, Register, At
<1>3. CASE Register(r, ok)
  <2>1. OnlyOf(req[r].session)
    BY <1>1, <1>3 DEF OnlyOf, TypeOK, Register
  <2>2. \A x \in Requests : req[x].session = req[r].session => x = r
    BY <1>1, <1>3, FreshFacts DEF Register, At
  <2> QED BY <1>1, <1>2, <2>1, <2>2, OtherCells, StepKeepsCells
<1>4. CASE Bind(r) /\ Allocate(r)
  <2>1. PICK s \in Sessions :
          /\ Unused(s) /\ intruded' = intruded \ {s}
          /\ snapshot' = [snapshot EXCEPT ![s] = req[r].read.cells]
    BY <1>4 DEF Bind, Allocate
  <2>2. OnlyOf(s)
    BY <1>1, <1>4, <2>1 DEF OnlyOf, TypeOK, Bind, vmVars
  <2>3. \A x \in Requests : req[x].session # s
    BY <2>1 DEF Unused
  <2> QED BY <1>1, <1>2, <2>2, <2>3, OtherCells, StepKeepsCells
<1>5. CASE Bind(r) /\ UNCHANGED snapshotVars
  BY <1>1, <1>2, <1>5, OtherCells, QuietCells DEF Bind, vmVars
<1> QED BY <1>3, <1>4, <1>5 DEF Bind

\* A write of the VM in use, or one of a VM that was replaced.
LEMMA FlushCells ==
  ASSUME CellsInv, NEW s \in Sessions, NEW v \in Vms, NEW ok \in BOOLEAN,
         Flush(s, v, ok)
  PROVE  \A x \in Requests : CellOK(x)'
<1> SUFFICES ASSUME NEW x \in Requests, req[x].op = "eval" PROVE CellOK(x)'
  BY DEF Flush, CellOK
<1>1. TypeInv /\ TypeOK /\ CellOK(x) /\ req' = req /\ current' = current
  BY DEF CellsInv, SessionsInv, TypeInv, Flush
<1> PICK t \in Sessions : t = req[x].session
  BY <1>1, WorkFacts DEF TypeInv
<1>2. /\ current[s] \in Vms /\ current[t] \in Vms
      /\ pending[s] \in [Vms -> Seq(SUBSET Cells)]
      /\ pending[s][v] \in Seq(SUBSET Cells) /\ pending[s][v] # <<>>
  BY <1>1 DEF TypeOK, Flush
<1>3. CASE t # s
  <2>1. /\ pending'[t] = pending[t] /\ saved'[t] = saved[t]
        /\ snapshot'[t] = snapshot[t] /\ (t \in intruded' <=> t \in intruded)
    BY <1>1, <1>3 DEF Flush, TypeOK
  <2> QED BY <1>1, <2>1 DEF CellOK, Own, InSnapshot
<1>4. CASE t = s /\ v # current[s]
  <2>1. Own(s)' = Own(s)
    BY <1>1, <1>2, <1>4 DEF Flush, TypeOK, Own
  <2>2. saved'[s] = saved[s]
    BY <1>1, <1>4 DEF Flush
  <2>3. s \in intruded' \/ (snapshot'[s] = snapshot[s] /\ s \notin intruded)
    BY <1>1, <1>4 DEF Flush
  <2>4. s \in intruded => s \in intruded'
    BY <1>1, <1>4 DEF Flush
  <2> QED BY <1>1, <1>4, <2>1, <2>2, <2>3, <2>4 DEF CellOK, InSnapshot
<1>5. CASE t = s /\ v = current[s]
  <2>1. Own(s) = pending[s][v] /\ Own(s) # <<>> /\ Own(s) \in Seq(SUBSET Cells)
    BY <1>2, <1>5 DEF Own
  <2>2. req[x].step \notin {"persisting", "loading", "writing"}
    BY <1>1, <1>5, <2>1 DEF CellOK
  <2>3. Own(s)' = Tail(Own(s)) /\ saved'[s] = ok
    BY <1>1, <1>2, <1>5 DEF Flush, TypeOK, Own
  <2>4. ok => snapshot'[s] = Head(Own(s))
    BY <1>1, <1>5 DEF Flush, TypeOK, Own
  <2>5. req[x].step = "saving" => req[x].cell \in Own(s)[Len(Own(s))]
    BY <1>1, <1>5, <2>1 DEF CellOK
  <2> DEFINE own == Own(s)
             rest == Own(s)'
  <2>6. /\ own \in Seq(SUBSET Cells) /\ own # <<>> /\ rest = Tail(own)
        /\ req[x].step = "saving" => req[x].cell \in own[Len(own)]
    BY <2>1, <2>3, <2>5
  <2> HIDE DEF own, rest
  <2>7. rest # <<>> => rest[Len(rest)] = own[Len(own)]
    BY <2>6
  <2>8. rest = <<>> => Head(own) = own[Len(own)] /\ Head(own) \in SUBSET Cells
    <3>1. Head(own) = own[1] /\ Head(own) \in SUBSET Cells
      BY <2>6
    <3>2. Len(own) \in Nat /\ Len(rest) = Len(own) - 1
      BY <2>6
    <3>3. rest = <<>> => Len(rest) = 0
      OBVIOUS
    <3>4. rest = <<>> => Len(own) = 1
      BY <3>2, <3>3
    <3> QED BY <3>1, <3>4
  <2>9. rest # <<>> /\ req[x].step = "saving" => req[x].cell \in rest[Len(rest)]
    BY <2>6, <2>7
  <2>10. rest = <<>> /\ saved'[s] /\ req[x].step = "saving" =>
           snapshot'[s] # Nil /\ req[x].cell \in snapshot'[s]
    BY <2>3, <2>4, <2>6, <2>8, NilAssumption DEF own
  <2> QED BY <1>1, <1>5, <2>2, <2>9, <2>10 DEF CellOK, InSnapshot, rest
<1> QED BY <1>3, <1>4, <1>5

\* Each step keeps the cells that are on their way.
LEMMA NextCells ==
  ASSUME CellsInv, Next
  PROVE  CellsInv'
<1>1. SessionsInv' /\ TypeInv /\ TypeOK /\ SessionsInv /\ TurnOK
  BY NextSessions DEF CellsInv, SessionsInv, TypeInv
<1> SUFFICES \A x \in Requests : CellOK(x)'
  BY <1>1 DEF CellsInv
<1>2. ASSUME NEW r \in Requests, StepOK(r), req'[r].op # "eval",
             UNCHANGED <<snapshotVars, writeVars>>
      PROVE  \A x \in Requests : CellOK(x)'
  BY <1>2, OtherCells, QuietCells
<1>3. ASSUME NEW r \in Requests, NEW ok \in BOOLEAN, Ends(r, ok)
      PROVE  \A x \in Requests : CellOK(x)'
  <2>1. CASE CreateWrite(r, ok) \/ OpenRead(r, ok)
    <3>1. StepOK(r) /\ UNCHANGED <<snapshotVars, writeVars>>
      BY <1>1, <2>1, OpeningSteps DEF CreateWrite, OpenRead, diskVars, vmVars
    <3>2. req'[r].op # "eval"
      BY <1>1, <1>3, <2>1, StepKeepsOp DEF CreateWrite, OpenRead, At
    <3> QED BY <1>2, <3>1, <3>2
  <2>2. CASE Bind(r) \/ Register(r, ok)
    BY <1>3, <2>2, OpeningCells DEF Ends
  <2>3. CASE DeleteFile(r, ok) \/ Rebind(r)
    <3>1. StepOK(r) /\ UNCHANGED <<snapshotVars, writeVars>>
      BY <1>1, <2>3, DeleteFileStep, RebindStep
      DEF SessionsInv, DeleteFile, Rebind, diskVars, vmVars
    <3>2. req'[r].op # "eval"
      BY <1>1, <1>3, <2>3, StepKeepsOp DEF DeleteFile, Rebind, At
    <3> QED BY <1>2, <3>1, <3>2
  <2>4. CASE \/ MoveRead(r, ok) \/ MoveCopy(r, ok) \/ MoveRemove(r, ok)
             \/ MoveUndo(r, ok)
    <3>1. StepOK(r) /\ UNCHANGED <<snapshotVars, writeVars>>
      BY <1>1, <2>4, MovingSteps
      DEF MoveRead, MoveCopy, MoveRemove, MoveUndo, diskVars, vmVars
    <3>2. req'[r].op # "eval"
      BY <1>1, <1>3, <2>4, StepKeepsOp
      DEF MoveRead, MoveCopy, MoveRemove, MoveUndo, At
    <3> QED BY <1>2, <3>1, <3>2
  <2>5. CASE Unlink(r, ok) \/ Hydrate(r, ok)
    BY <1>3, <2>5, OtherSnapshots DEF Ends
  <2>6. CASE EvalSaved(r, ok)
    BY <2>6, EvalSavedCells
  <2>7. CASE EditRun(r, ok)
    BY <1>3, <2>7, EditRunCells DEF Ends
  <2>8. CASE PersistRead(r) \/ PersistLoad(r) \/ PersistWrite(r, ok)
    BY <2>8, PersistCells
  <2>9. CASE Reread(r)
    <3>1. StepOK(r) /\ UNCHANGED <<snapshotVars, writeVars>>
      BY <1>1, <2>9, RestartSteps DEF Reread, diskVars, vmVars
    <3>2. req'[r].op # "eval"
      BY <1>1, <1>3, <2>9, StepKeepsOp DEF Reread, At
    <3> QED BY <1>2, <3>1, <3>2
  <2> QED BY <1>3, <2>1, <2>2, <2>3, <2>4, <2>5, <2>6, <2>7, <2>8, <2>9 DEF Ends
<1>4. ASSUME NEW r \in Requests, NEW ok \in BOOLEAN, UserCode(r, ok)
      PROVE  \A x \in Requests : CellOK(x)'
  BY <1>4, EvalRunCells, OtherSnapshots DEF UserCode
<1>5. CASE Crash
  <2>1. \A x \in Requests : req'[x].op = "none"
    BY <1>5, NoRequestFacts DEF Crash
  <2> QED BY <2>1, OtherCells
<1>6. ASSUME NEW r \in Requests, NEW s, NEW q, StepOK(r), Begin(r, s, q),
             q.op # "eval" \/ q.step = "evaluating",
             UNCHANGED <<registryVars, diskVars, vmVars>>
      PROVE  \A x \in Requests : CellOK(x)'
  <2>1. req'[r] = q
    BY <1>1, <1>6 DEF TypeOK, Begin
  <2>2. CellOK(r)'
    BY <1>6, <2>1 DEF CellOK
  <2> QED BY <1>6, <2>2, QuietCells DEF diskVars, vmVars
<1>7. ASSUME NEW r \in Clients, NEW p \in Paths,
             \/ Create(r, p) \/ Open(r, p) \/ Delete(r, p)
             \/ \E q \in Paths : Move(r, p, q)
      PROVE  \A x \in Requests : CellOK(x)'
  <2>1. r \in Requests /\ StepOK(r)
    BY <1>1, <1>7, ClientStep
  <2> QED BY <1>6, <1>7, <2>1 DEF Create, Open, Delete, Move, NoRequest
<1>8. ASSUME NEW r \in Users, NEW s \in Sessions,
             \/ Restart(r, s) \/ Reload(r, s)
             \/ \E d \in Docs : Save(r, s, d)
             \/ \E c \in Cells : Evaluate(r, s, c) \/ Edit(r, s, c)
      PROVE  \A x \in Requests : CellOK(x)'
  <2>1. r \in Requests /\ StepOK(r)
    BY <1>1, <1>8, UserStep
  <2> QED BY <1>6, <1>8, <2>1
          DEF Restart, Reload, Save, Evaluate, Edit, Ask, NoRequest
<1> QED BY <1>3, <1>4, <1>5, <1>7, <1>8, FlushCells DEF Next

LEMMA CellsInvariant == Spec => []CellsInv
<1>1. Init => CellsInv
  <2> SUFFICES ASSUME Init PROVE CellsInv
    OBVIOUS
  <2>1. \A x \in Requests : req[x] = NoRequest
    BY DEF Init
  <2>2. SessionsInv
    BY InitSessions
  <2> QED BY <2>1, <2>2, NoRequestFacts DEF CellsInv, CellOK
<1>2. CellsInv /\ [Next]_vars => CellsInv'
  <2>1. CellsInv /\ UNCHANGED vars => CellsInv'
    <3> SUFFICES ASSUME CellsInv, UNCHANGED vars PROVE CellsInv'
      OBVIOUS
    <3>1. SessionsInv'
      BY StutterSessions DEF CellsInv
    <3> QED BY <3>1 DEF CellsInv, CellOK, Own, InSnapshot, vars, diskVars, vmVars
  <2> QED BY <2>1, NextCells
<1> QED BY <1>1, <1>2, PTL DEF Spec

\* A cell whose evaluation is answered with success is in the notebook file, for
\* any number of requests that save, evaluate, restart, move and delete meanwhile,
\* and although snapshots and files may fail to be written: only an unfinished write
\* of a VM that a restart has replaced can make it miss.
THEOREM AnsweredCellsAreSaved == Spec => AnsweredCellIsSaved
<1>1. CellsInv /\ [Next]_vars =>
        [\A r \in Users :
           At(r, {"eval"}, "writing") /\ file' # file /\ req'[r].step = "idle" =>
             \/ req[r].cell \in file'[path[req[r].session]].cells
             \/ req[r].session \in intruded]_vars
  <2> SUFFICES ASSUME CellsInv, Next, NEW r \in Users,
                      At(r, {"eval"}, "writing"), file' # file, req'[r].step = "idle",
                      req[r].session \notin intruded
               PROVE  req[r].cell \in file'[path[req[r].session]].cells
    BY DEF vars, diskVars
  <2>1. TypeInv /\ TypeOK /\ ShapeOK /\ SessionsInv /\ TurnOK /\ r \in Requests
    BY DEF CellsInv, SessionsInv, TypeInv, Requests
  <2>2. req[r].cell \in req[r].read.cells /\ path[req[r].session] \in Paths
    BY <2>1, WorkFacts DEF At, CellsInv, CellOK
  <2>3. \E ok \in BOOLEAN : PersistWrite(r, ok)
    <3>1. ASSUME NEW x \in Requests, StepOK(x) PROVE x = r
      BY <2>1, <3>1 DEF StepOK, At
    <3>2. ASSUME NEW x \in Requests, NEW ok \in BOOLEAN, Ends(x, ok)
          PROVE  PersistWrite(r, ok)
      <4>1. StepOK(x)
        BY <2>1, <3>2, EndsStep
      <4>2. x = r
        BY <3>1, <4>1
      <4> QED BY <3>2, <4>2 DEF Ends, At, CreateWrite, OpenRead, Bind, Register,
              DeleteFile, Unlink, MoveRead, MoveCopy, MoveRemove, MoveUndo, Rebind,
              EvalSaved, EditRun, PersistRead, PersistLoad, Reread, Hydrate
    <3>3. ASSUME NEW x \in Requests, NEW ok \in BOOLEAN, UserCode(x, ok)
          PROVE  FALSE
      BY <3>3 DEF UserCode, EvalRun, Swap, diskVars
    <3>4. ASSUME NEW s \in Sessions, NEW v \in Vms, NEW ok \in BOOLEAN,
         Flush(s, v, ok) PROVE FALSE
      BY <3>4 DEF Flush
    <3>5. ~Crash
      BY DEF Crash, diskVars
    <3>6. ASSUME NEW x \in Clients, NEW p \in Paths,
                 \/ Create(x, p) \/ Open(x, p) \/ Delete(x, p)
                 \/ \E q \in Paths : Move(x, p, q)
          PROVE  FALSE
      BY <3>6 DEF Create, Open, Delete, Move, diskVars
    <3>7. ASSUME NEW x \in Users, NEW s \in Sessions,
                 \/ Restart(x, s) \/ Reload(x, s)
                 \/ \E d \in Docs : Save(x, s, d)
                 \/ \E c \in Cells : Evaluate(x, s, c) \/ Edit(x, s, c)
          PROVE  FALSE
      BY <3>7 DEF Restart, Reload, Save, Evaluate, Edit, Ask, diskVars
    <3> QED BY <3>2, <3>3, <3>4, <3>5, <3>6, <3>7 DEF Next
  <2>4. file' = [file EXCEPT ![path[req[r].session]] = req[r].read]
    BY <2>3 DEF PersistWrite, Written
  <2> QED BY <2>1, <2>2, <2>4 DEF TypeOK
<1> QED BY <1>1, CellsInvariant, PTL DEF Spec, AnsweredCellIsSaved

-----------------------------------------------------------------------------
(* Sessions and files, for any number of clients that create, open, move and delete
   notebooks.  Where the paths of their requests do not meet, the handler of each
   knows what is in the files it is about to copy, replace or open, unless a session
   that was disposed of has written there.  What is done on raced paths stays on
   raced paths. *)

\* Requests of two clients that meet are raced, on all their paths.
RacesOK ==
  /\ \A r \in Clients : Touches(r) \intersect raced = {} \/ Touches(r) \subseteq raced
  /\ \A r, x \in Clients :
       r # x /\ Touches(r) \intersect Touches(x) # {} => Touches(r) \subseteq raced

ClientOps == {"create", "open", "delete", "move"}
Clean(r) == Touches(r) \intersect raced = {}

\* There is no file at p, and there is one with these contents, but for what
\* disposed sessions write.
Vacant(p) == file[p] # Nil => p \in revived
Holds(p, contents) == file[p] # Nil /\ (p \in revived \/ file[p] = contents)

\* What a client's handler relies on at each of its steps.
OpenOK(q) ==
  q.op \in {"create", "open"} =>
    /\ Lookup(q.path) = Nil
    /\ q.step = "creating" => Vacant(q.path)
    /\ q.step \in {"binding", "registering"} => Holds(q.path, q.read)
DeleteOK(q) ==
  q.op = "delete" /\ q.step = "deleting" => q.session = Lookup(q.path)
MoveOK(q) ==
  q.op = "move" =>
    /\ q.session = Lookup(q.path) /\ Lookup(q.target) = Nil /\ q.path # q.target
    /\ q.step \in {"moving", "copying"} => Vacant(q.target)
    /\ q.step \in {"copying", "removing", "undoing"} => Holds(q.path, q.read)
    /\ q.step \in {"removing", "undoing", "rebinding"} => Holds(q.target, q.read)
CleanOK(q) == OpenOK(q) /\ DeleteOK(q) /\ MoveOK(q)

\* What a raced request disposes of or rebinds has a raced path.
BoundOK(q) ==
  q.session # Nil /\ (q.op = "move" \/ (q.op = "delete" /\ q.step = "deleting")) =>
    path[q.session] \in raced

ClientOK(r) ==
  req[r].op \in ClientOps =>
    /\ r \in Clients
    /\ Clean(r) => CleanOK(req[r])
    /\ ~Clean(r) => BoundOK(req[r])

\* A reload puts the document of the file into the session.
Reloads(r) == req[r].op = "reload" /\ req[r].step \in {"hydrating", "swapping"}
ReloadOK(r) ==
  LET s == req[r].session
      p == path[s]
  IN Reloads(r) /\ s \in sessions /\ p \notin revived \union raced /\ file[p] # Nil =>
       file[p].doc = req[r].read.doc

FilesInv ==
  /\ SessionsInv
  /\ RacesOK
  /\ SessionOwnsItsFile
  /\ DocumentAgrees
  /\ \A r \in Requests : ClientOK(r) /\ ReloadOK(r)

LEMMA Exclusive == SessionsInv => SessionIsExclusive
<1> SUFFICES ASSUME SessionsInv, NEW r1 \in Requests, NEW r2 \in Requests,
                    Inside(r1), Inside(r2), req[r1].session = req[r2].session
             PROVE  r1 = r2
  BY DEF SessionIsExclusive
<1>1. CASE req[r1].step = "registering" \/ req[r2].step = "registering"
  BY <1>1 DEF SessionsInv, FreshOK
<1>2. CASE req[r1].step # "registering" /\ req[r2].step # "registering"
  BY <1>2 DEF SessionsInv, TurnOK
<1> QED BY <1>1, <1>2

\* A session of a path that is not raced is where the index leads from the path.
LEMMA OwnerFacts ==
  ASSUME FilesInv, NEW s \in sessions
  PROVE  /\ s \in Sessions /\ s # Nil /\ path[s] \in Paths
         /\ path[s] \notin raced => byPath[path[s]] = s /\ Lookup(path[s]) = s
BY NilAssumption
DEF FilesInv, SessionsInv, TypeInv, TypeOK, ShapeOK, SessionOwnsItsFile, Lookup

LEMMA FoundFacts ==
  ASSUME FilesInv, NEW p \in Paths, Lookup(p) # Nil
  PROVE  /\ Lookup(p) \in sessions /\ Lookup(p) \in Sessions
         /\ byPath[p] = Lookup(p) /\ path[Lookup(p)] = p
BY DEF FilesInv, SessionsInv, TypeInv, TypeOK, IndexOK, Lookup

\* The paths of a client's request.
LEMMA TouchesFacts ==
  ASSUME FilesInv, NEW x \in Requests, req[x].op \in ClientOps
  PROVE  /\ TypeInv /\ TypeOK /\ x \in Clients
         /\ req[x].path \in Paths /\ req[x].path \in Touches(x)
         /\ req[x].op = "move" => req[x].target \in Paths \intersect Touches(x)
         /\ Clean(x) => CleanOK(req[x])
         /\ ~Clean(x) => BoundOK(req[x]) /\ Touches(x) \subseteq raced
<1>1. TypeInv /\ TypeOK /\ ShapeOK /\ x \in Clients /\ ClientOK(x)
  BY DEF FilesInv, SessionsInv, TypeInv, ClientOK
<1>2. /\ req[x].path \in Paths
      /\ req[x].op = "move" => req[x].target \in Paths
  BY <1>1 DEF ShapeOK, Shaped, ClientOps
<1>3. ~Clean(x) => Touches(x) \subseteq raced
  BY <1>1 DEF FilesInv, RacesOK, Clean
<1> QED BY <1>1, <1>2, <1>3, NilAssumption DEF Touches, ClientOK

\* The paths of a request that is not raced are nobody else's.
LEMMA ApartFacts ==
  ASSUME FilesInv, NEW r \in Clients, NEW x \in Requests, x # r,
         req[x].op \in ClientOps, Clean(x)
  PROVE  /\ req[x].path \notin Touches(r) \union raced
         /\ req[x].op = "move" => req[x].target \notin Touches(r) \union raced
<1>1. x \in Clients /\ req[x].path \in Touches(x)
      /\ (req[x].op = "move" => req[x].target \in Touches(x))
  BY TouchesFacts
<1>2. Touches(r) \intersect Touches(x) = {}
  BY <1>1 DEF FilesInv, RacesOK, Clean
<1> QED BY <1>1, <1>2 DEF Clean

\* Only one reload of a session is past its turn, and nobody else then.
LEMMA ReloadAlone ==
  ASSUME FilesInv, NEW r \in Requests, NEW x \in Requests, x # r,
         req[r].session \in Sessions, req[r].session = req[x].session,
         req[r].step \notin Waits, ~At(r, {"save"}, "persisting")
  PROVE  ~Reloads(x)
<1> SUFFICES ASSUME Reloads(x) PROVE FALSE
  OBVIOUS
<1>1. Inside(r)
  BY NilAssumption DEF Inside
<1>2. Inside(x)
  BY NilAssumption DEF Inside, Reloads, At, Waits
<1> QED BY <1>1, <1>2, Exclusive DEF FilesInv, SessionIsExclusive

-----------------------------------------------------------------------------
(* Which paths are raced. *)

\* The handlers go on with the paths they have.
LEMMA RacesFrame ==
  ASSUME RacesOK, UNCHANGED raced,
         \A r \in Clients : Touches(r)' = Touches(r) \/ Touches(r)' = {}
  PROVE  RacesOK'
BY DEF RacesOK

\* A client's request on the paths ps: what meets it is raced from now on, and what
\* meets that was raced before.
LEMMA RacesBegin ==
  ASSUME RacesOK, NEW r \in Clients, NEW ps, Races(ps), Touches(r)' = ps,
         \A x \in Clients \ {r} : Touches(x)' = Touches(x)
  PROVE  RacesOK' /\ raced \subseteq raced'
<1> DEFINE U == UNION {Touches(x) : x \in Meeting(ps)}
<1>1. /\ raced \subseteq raced'
      /\ raced' = raced \/ raced' = raced \union ps \union U
  BY DEF Races
<1>2. ASSUME NEW x \in Clients \ {r}
      PROVE  Touches(x) \intersect raced' = {} \/ Touches(x) \subseteq raced'
  <2>1. Touches(x) \intersect raced = {} \/ Touches(x) \subseteq raced
    BY DEF RacesOK
  <2>2. CASE raced' = raced \/ Touches(x) \subseteq raced
    BY <1>1, <2>1, <2>2
  <2>3. CASE /\ raced' = raced \union ps \union U
             /\ Touches(x) \intersect raced = {} /\ ~(Touches(x) \subseteq raced)
    <3>1. CASE Touches(x) \intersect ps # {}
      <4>1. x \in Meeting(ps)
        BY <3>1 DEF Meeting
      <4> QED BY <2>3, <4>1
    <3>2. CASE Touches(x) \intersect ps = {}
      <4>1. ASSUME NEW y \in Meeting(ps) PROVE Touches(x) \intersect Touches(y) = {}
        <5>1. y \in Clients /\ y # x
          BY <3>2 DEF Meeting
        <5> QED BY <2>3, <5>1 DEF RacesOK
      <4> QED BY <2>3, <3>2, <4>1
    <3> QED BY <3>1, <3>2
  <2> QED BY <1>1, <2>1, <2>2, <2>3
<1>3. ps \intersect raced' = {} \/ ps \subseteq raced'
  BY DEF Races
<1>4. ASSUME NEW x \in Clients \ {r}, Touches(x) \intersect ps # {}
      PROVE  Touches(x) \subseteq raced' /\ ps \subseteq raced'
  <2>1. x \in Meeting(ps)
    BY <1>4 DEF Meeting
  <2> QED BY <2>1 DEF Races
<1>5. ASSUME NEW x \in Clients \ {r}, NEW y \in Clients \ {r}, x # y,
             Touches(x) \intersect Touches(y) # {}
      PROVE  Touches(x) \subseteq raced'
  BY <1>1, <1>5 DEF RacesOK
<1>6. ASSUME NEW x \in Clients
      PROVE  (Touches(x) \intersect raced = {} \/ Touches(x) \subseteq raced)'
  BY <1>2, <1>3
<1>7. ASSUME NEW x \in Clients, NEW y \in Clients,
             x # y, Touches(x)' \intersect Touches(y)' # {}
      PROVE  Touches(x)' \subseteq raced'
  <2>1. CASE x = r
    BY <1>4, <1>7, <2>1
  <2>2. CASE x # r /\ y = r
    BY <1>4, <1>7, <2>2
  <2>3. CASE x # r /\ y # r
    BY <1>5, <1>7, <2>3
  <2> QED BY <2>1, <2>2, <2>3
<1> QED BY <1>1, <1>6, <1>7 DEF RacesOK

LEMMA NoTouches ==
  ASSUME NEW x \in Requests, req[x] = NoRequest
  PROVE  Touches(x) = {}
BY DEF Touches, NoRequest

\* The steps of the handlers.
LEMMA StepRaces ==
  ASSUME FilesInv, NEW r \in Requests, NEW ok \in BOOLEAN,
         Ends(r, ok) \/ UserCode(r, ok)
  PROVE  RacesOK'
<1>1. TypeInv /\ UNCHANGED raced
  BY DEF FilesInv, SessionsInv, Ends, UserCode
<1>2. StepOK(r)
  BY EndsStep DEF FilesInv
<1>3. ASSUME NEW x \in Clients PROVE Touches(x)' = Touches(x) \/ Touches(x)' = {}
  <2>1. CASE x # r
    BY <1>2, <2>1 DEF StepOK, Touches, Requests
  <2>2. CASE x = r /\ req'[r] = NoRequest
    BY <2>2 DEF Touches, NoRequest
  <2>3. CASE x = r /\ SameWork(r)
    BY <2>3 DEF Touches, SameWork
  <2> QED BY <1>1, <2>1, <2>2, <2>3, StepKeepsWork
<1> QED BY <1>1, <1>3, RacesFrame DEF FilesInv

-----------------------------------------------------------------------------
(* Steps that keep the registry. *)

\* What happens to the file at a path: nothing, or a disposed session writes it.
Kept(p) == file'[p] = file[p] /\ (p \in revived' <=> p \in revived)
Spoilt(p) == file'[p] # Nil /\ p \in revived'

LEMMA StepFacts ==
  ASSUME FilesInv, NEW r \in Requests, NEW ok \in BOOLEAN,
         Ends(r, ok) \/ UserCode(r, ok)
  PROVE  /\ TypeInv /\ TypeOK /\ StepOK(r) /\ UNCHANGED raced /\ RacesOK'
         /\ req'[r] = NoRequest \/ SameWork(r)
         /\ req'[r].op \in {req[r].op, "none"}
BY EndsStep, StepRaces, StepKeepsWork, StepKeepsOp
DEF FilesInv, SessionsInv, TypeInv, Ends, UserCode

\* A request whose paths are left alone, or spoilt.
LEMMA CleanFrame ==
  ASSUME NEW x \in Requests, CleanOK(req[x]), req'[x] = req[x],
         NEW p, p = req[x].path, Lookup(p)' = Lookup(p), Kept(p) \/ Spoilt(p),
         NEW q, q = req[x].target,
         req[x].op = "move" =>
           Lookup(q)' = Lookup(q) /\ (Kept(q) \/ Spoilt(q))
  PROVE  CleanOK(req[x])'
<1>1. /\ req'[x].path = p /\ req'[x].target = q /\ req'[x].op = req[x].op
      /\ req'[x].step = req[x].step /\ req'[x].session = req[x].session
      /\ req'[x].read = req[x].read
  OBVIOUS
<1>2. OpenOK(req[x])'
  <2>1. OpenOK(req[x])
    BY DEF CleanOK
  <2> QED BY <1>1, <2>1 DEF OpenOK, Lookup, Vacant, Holds, Kept, Spoilt
<1>3. DeleteOK(req[x])'
  <2>1. DeleteOK(req[x])
    BY DEF CleanOK
  <2> QED BY <1>1, <2>1 DEF DeleteOK, Lookup
<1>4. MoveOK(req[x])'
  <2>1. MoveOK(req[x])
    BY DEF CleanOK
  <2> QED BY <1>1, <2>1 DEF MoveOK, Lookup, Vacant, Holds, Kept, Spoilt
<1> QED BY <1>2, <1>3, <1>4 DEF CleanOK

\* A step of r that leaves what is neither raced nor on the paths of r's request.
LEMMA OthersFrame ==
  ASSUME FilesInv, NEW r \in Requests, StepOK(r), UNCHANGED raced, NEW ps,
         ps = {} \/ (r \in Clients /\ ps = Touches(r)),
         \A p \in Paths \ (ps \union raced) :
           (Kept(p) \/ Spoilt(p)) /\ Lookup(p)' = Lookup(p),
         \A x \in Requests \ {r} :
           req[x].session # Nil /\ path[req[x].session] \in raced =>
             path'[req[x].session] \in raced
  PROVE  \A x \in Requests \ {r} : ClientOK(x)'
<1> SUFFICES ASSUME NEW x \in Requests, x # r, req'[x].op \in ClientOps
             PROVE  ClientOK(x)'
  BY DEF ClientOK
<1>1. req'[x] = req[x]
  BY DEF StepOK
<1>2. x \in Clients /\ Touches(x)' = Touches(x) /\ (Clean(x)' <=> Clean(x))
  BY <1>1, TouchesFacts DEF Touches, Clean
<1>3. ASSUME Clean(x) PROVE CleanOK(req[x])'
  <2>1. CleanOK(req[x])
    BY <1>1, <1>3, TouchesFacts
  <2>2. /\ req[x].path \in Paths
        /\ req[x].op = "move" => req[x].target \in Paths
    BY <1>1, TouchesFacts
  <2>3. /\ req[x].path \notin ps \union raced
        /\ req[x].op = "move" => req[x].target \notin ps \union raced
    <3>1. CASE ps = {}
      BY <1>1, <1>3, <3>1, TouchesFacts DEF Clean
    <3>2. CASE r \in Clients /\ ps = Touches(r)
      BY <1>1, <1>3, <3>2, ApartFacts
    <3> QED BY <3>1, <3>2
  <2> QED BY <1>1, <2>1, <2>2, <2>3, CleanFrame
<1>4. ASSUME ~Clean(x) PROVE BoundOK(req[x])'
  <2>1. BoundOK(req[x])
    BY <1>1, <1>4, TouchesFacts
  <2> QED BY <1>1, <2>1 DEF BoundOK
<1> QED BY <1>2, <1>3, <1>4 DEF ClientOK

\* A step that keeps the registry: it may end with the file of a session as the
\* session has it, if no reload of the session is on its way.
LEMMA FilesFrame ==
  ASSUME FilesInv, SessionsInv', RacesOK', NEW r \in Requests, StepOK(r),
         UNCHANGED <<registryVars, raced>>, req[r].step # "rebinding",
         \A x \in Requests : ClientOK(x)', ReloadOK(r)',
         \A s \in sessions :
           \/ path[s] \in raced
           \/ Kept(path[s]) /\ notebook'[s] = notebook[s]
           \/ Spoilt(path[s])
           \/ /\ file'[path[s]] # Nil /\ file'[path[s]].doc = notebook'[s]
              /\ \A x \in Requests \ {r} : req[x].session = s => ~Reloads(x)
           \/ /\ file'[path[s]] = Nil
              /\ r \in Clients /\ At(r, {"move"}, "rebinding")' /\ req'[r].session = s
  PROVE  FilesInv'
<1>1. TypeInv
  BY DEF FilesInv, SessionsInv
<1>2. \A x \in Requests \ {r} : req'[x] = req[x]
  BY DEF StepOK
<1>3. sessions' = sessions /\ byPath' = byPath /\ path' = path /\ raced' = raced
  BY DEF registryVars
<1>4. SessionOwnsItsFile'
  <2> SUFFICES ASSUME NEW s \in sessions, path[s] \notin raced
               PROVE  /\ byPath[path[s]] = s
                      /\ \/ file'[path[s]] # Nil
                         \/ \E c \in Clients : /\ At(c, {"move"}, "rebinding")'
                                               /\ req'[c].session = s
    BY <1>3 DEF SessionOwnsItsFile
  <2>1. byPath[path[s]] = s
    BY OwnerFacts
  <2>2. CASE file[path[s]] # Nil
    BY <2>1, <2>2 DEF Kept, Spoilt
  <2>3. CASE file[path[s]] = Nil
    <3>1. PICK c \in Clients : At(c, {"move"}, "rebinding") /\ req[c].session = s
      BY <2>3 DEF FilesInv, SessionOwnsItsFile
    <3>2. c \in Requests /\ c # r
      BY <3>1 DEF At, Requests
    <3>3. req'[c] = req[c]
      BY <1>2, <3>2
    <3> QED BY <2>1, <3>1, <3>3 DEF At
  <2> QED BY <2>2, <2>3
<1>5. DocumentAgrees'
  BY <1>3 DEF DocumentAgrees, FilesInv, Kept, Spoilt
<1>6. ASSUME NEW x \in Requests, x # r PROVE ReloadOK(x)'
  <2>1. req'[x] = req[x] /\ ReloadOK(x)
    BY <1>2, <1>6 DEF FilesInv
  <2> QED BY <1>3, <1>6, <2>1 DEF ReloadOK, Reloads, Kept, Spoilt
<1> QED BY <1>4, <1>5, <1>6 DEF FilesInv

\* The steps that neither write a notebook file nor a document.
LEMMA QuietFiles ==
  ASSUME FilesInv, SessionsInv', RacesOK', NEW r \in Requests, StepOK(r),
         UNCHANGED <<sessions, byPath, path, file, revived, notebook, raced>>,
         req[r].step # "rebinding", ClientOK(r)', ReloadOK(r)'
  PROVE  FilesInv'
<1>1. \A p : Kept(p) /\ Lookup(p)' = Lookup(p)
  BY DEF Kept, Lookup
<1>2. UNCHANGED <<registryVars, raced>>
  BY DEF registryVars
<1>3. \A x \in Requests \ {r} : ClientOK(x)'
  <2>1. \A x \in Requests \ {r} :
          path[req[x].session] \in raced => path'[req[x].session] \in raced
    OBVIOUS
  <2> QED BY <1>1, <2>1, OthersFrame
<1> QED BY <1>1, <1>2, <1>3, FilesFrame

LEMMA EndedOK ==
  ASSUME FilesInv, NEW r \in Requests, End(r)
  PROVE  ClientOK(r)' /\ ReloadOK(r)'
<1>1. req'[r] = NoRequest
  BY DEF FilesInv, SessionsInv, TypeInv, TypeOK, End
<1> QED BY <1>1, NoRequestFacts DEF ClientOK, ReloadOK, Reloads, ClientOps

\* A request that is none of a client's, nor a reload.
LEMMA PlainOK ==
  ASSUME NEW r \in Requests, req'[r].op \notin ClientOps, req'[r].op # "reload"
  PROVE  ClientOK(r)' /\ ReloadOK(r)'
BY DEF ClientOK, ReloadOK, Reloads

\* What a handler that goes on remembers.
LEMMA ProceedRecord ==
  ASSUME TypeInv, NEW r \in Requests, NEW step, Proceed(r, step)
  PROVE  /\ req'[r].op = req[r].op /\ req'[r].path = req[r].path
         /\ req'[r].target = req[r].target /\ req'[r].session = req[r].session
         /\ req'[r].read = req[r].read /\ req'[r].step = step
BY DEF TypeInv, TypeOK, RequestRecords, Proceed

LEMMA ReadRecord ==
  ASSUME TypeInv, NEW r \in Requests, NEW step, NEW read,
         req' = [req EXCEPT ![r].step = step, ![r].read = read]
  PROVE  /\ req'[r].op = req[r].op /\ req'[r].path = req[r].path
         /\ req'[r].target = req[r].target /\ req'[r].session = req[r].session
         /\ req'[r].read = read /\ req'[r].step = step
BY DEF TypeInv, TypeOK, RequestRecords

LEMMA WorkFiles ==
  ASSUME FilesInv, SessionsInv', NEW r \in Requests, NEW ok \in BOOLEAN,
         Ends(r, ok) \/ UserCode(r, ok),
         \/ EvalRun(r, ok) \/ EvalSaved(r, ok) \/ EditRun(r, ok)
         \/ PersistRead(r) \/ PersistLoad(r)
  PROVE  FilesInv'
<1>1. /\ TypeInv /\ StepOK(r) /\ req'[r].op \in {req[r].op, "none"}
      /\ UNCHANGED raced /\ RacesOK'
  BY StepFacts
<1>2. UNCHANGED <<sessions, byPath, path, file, revived, notebook>>
  BY DEF EvalRun, EvalSaved, EditRun, PersistRead, PersistLoad, registryVars,
         diskVars, vmVars
<1>3. req[r].op \in {"save", "eval", "edit"} /\ req[r].step # "rebinding"
  BY DEF EvalRun, EvalSaved, EditRun, PersistRead, PersistLoad, At
<1> QED BY <1>1, <1>2, <1>3, PlainOK, QuietFiles DEF ClientOps

LEMMA RereadFiles ==
  ASSUME FilesInv, SessionsInv', NEW r \in Requests, NEW ok \in BOOLEAN,
         Ends(r, ok), Reread(r) \/ Hydrate(r, ok)
  PROVE  FilesInv'
<1>1. /\ TypeInv /\ StepOK(r) /\ req'[r].op \in {req[r].op, "none"}
      /\ UNCHANGED raced /\ RacesOK'
  BY StepFacts
<1>2. UNCHANGED <<sessions, byPath, path, file, revived, notebook>>
  BY DEF Reread, Hydrate, registryVars, diskVars, vmVars
<1>3. req[r].op \in {"restart", "reload"} /\ req[r].step # "rebinding"
  BY DEF Reread, Hydrate, At
<1>4. ClientOK(r)'
  BY <1>1, <1>3 DEF ClientOK, ClientOps
<1>5. CASE End(r)
  BY <1>1, <1>2, <1>3, <1>5, EndedOK, QuietFiles
<1>6. CASE Reread(r) /\ ~End(r)
  <2>1. req' = [req EXCEPT ![r].step = "hydrating",
                           ![r].read = file[path[req[r].session]]]
    BY <1>6 DEF Reread
  <2>2. /\ req'[r].session = req[r].session
        /\ req'[r].read = file[path[req[r].session]]
    BY <1>1, <2>1, ReadRecord
  <2>3. ReloadOK(r)'
    BY <1>2, <2>2 DEF ReloadOK
  <2> QED BY <1>1, <1>2, <1>3, <1>4, <2>3, QuietFiles
<1>7. CASE Hydrate(r, ok) /\ ~End(r)
  <2>1. Proceed(r, "swapping") /\ req[r].step = "hydrating"
    BY <1>7 DEF Hydrate, At
  <2>2. /\ req'[r].op = req[r].op /\ req'[r].session = req[r].session
        /\ req'[r].read = req[r].read
    BY <1>1, <2>1, ProceedRecord
  <2>3. ReloadOK(r)
    BY DEF FilesInv
  <2>4. ReloadOK(r)'
    BY <1>1, <1>2, <2>1, <2>2, <2>3 DEF ReloadOK, Reloads
  <2> QED BY <1>1, <1>2, <1>3, <1>4, <2>4, QuietFiles
<1> QED BY <1>5, <1>6, <1>7

\* A session that works has its file: nobody moves it meanwhile.
LEMMA WorkHasFile ==
  ASSUME FilesInv, NEW r \in Requests, NEW s \in sessions, req[r].session = s,
         path[s] \notin raced, req[r].step \notin Waits, ~At(r, {"save"}, "persisting"),
         req[r].step # "rebinding"
  PROVE  file[path[s]] # Nil
<1> SUFFICES ASSUME file[path[s]] = Nil PROVE FALSE
  OBVIOUS
<1>1. PICK c \in Clients : At(c, {"move"}, "rebinding") /\ req[c].session = s
  BY DEF FilesInv, SessionOwnsItsFile
<1>2. c \in Requests /\ s # Nil /\ c # r
  BY <1>1, OwnerFacts DEF Requests, At
<1>3. Inside(c) /\ Inside(r)
  BY <1>1, <1>2 DEF Inside, At, Waits
<1> QED BY <1>1, <1>2, <1>3, Exclusive DEF FilesInv, SessionIsExclusive

\* A reload takes the document that is in the file.
LEMMA SwapFiles ==
  ASSUME FilesInv, SessionsInv', NEW r \in Requests, NEW ok \in BOOLEAN,
         UserCode(r, ok), Swap(r, ok)
  PROVE  FilesInv'
<1> DEFINE t == req[r].session
<1>1. /\ TypeInv /\ TypeOK /\ StepOK(r) /\ End(r)
      /\ UNCHANGED raced /\ RacesOK'
  BY StepFacts DEF Swap
<1>2. UNCHANGED <<registryVars, file, revived>>
  BY DEF Swap, diskVars
<1>3. req[r].op \in {"restart", "reload"} /\ req[r].step = "swapping"
  BY DEF Swap, At
<1>4. t \in Sessions
  BY <1>1, <1>3, WorkFacts DEF TypeInv
<1>5. \/ notebook' = notebook
      \/ req[r].op = "reload" /\ notebook' = [notebook EXCEPT ![t] = req[r].read.doc]
  BY <1>3 DEF Swap
<1>6. \A p : Kept(p) /\ Lookup(p)' = Lookup(p)
  BY <1>2 DEF Kept, Lookup, registryVars
<1>7. ASSUME NEW s \in sessions, path[s] \notin raced
      PROVE  \/ Kept(path[s]) /\ notebook'[s] = notebook[s]
             \/ Spoilt(path[s])
             \/ /\ file'[path[s]] # Nil /\ file'[path[s]].doc = notebook'[s]
                /\ \A x \in Requests \ {r} : req[x].session = s => ~Reloads(x)
  <2>1. CASE notebook' = notebook \/ s # t
    <3>1. notebook'[s] = notebook[s]
      BY <1>1, <1>5, <2>1, OwnerFacts DEF TypeOK
    <3> QED BY <1>6, <3>1
  <2>2. CASE /\ s = t /\ req[r].op = "reload"
             /\ notebook' = [notebook EXCEPT ![t] = req[r].read.doc]
    <3>1. notebook'[s] = req[r].read.doc
      BY <1>1, <1>4, <2>2 DEF TypeOK
    <3>2. file[path[s]] # Nil
      BY <1>3, <1>7, <2>2, WorkHasFile DEF Waits, At
    <3>3. \A x \in Requests \ {r} : req[x].session = s => ~Reloads(x)
      BY <1>3, <1>4, <2>2, ReloadAlone DEF Waits, At
    <3>4. CASE path[s] \in revived
      BY <1>2, <3>2, <3>4 DEF Spoilt
    <3>5. CASE path[s] \notin revived
      <4>1. file[path[s]].doc = req[r].read.doc
        BY <1>3, <1>7, <2>2, <3>2, <3>5 DEF FilesInv, ReloadOK, Reloads
      <4> QED BY <1>2, <3>1, <3>2, <3>3, <4>1
    <3> QED BY <3>4, <3>5
  <2> QED BY <1>5, <2>1, <2>2
<1>8. ClientOK(r)' /\ ReloadOK(r)' /\ req[r].step # "rebinding"
  BY <1>1, <1>3, EndedOK
<1>9. \A x \in Requests \ {r} : ClientOK(x)'
  <2>1. \A x \in Requests \ {r} :
          path[req[x].session] \in raced => path'[req[x].session] \in raced
    BY <1>2 DEF registryVars
  <2> QED BY <1>1, <1>6, <2>1, OthersFrame
<1>10. UNCHANGED <<registryVars, raced>>
  BY <1>1, <1>2
<1> QED BY <1>1, <1>7, <1>8, <1>9, <1>10, FilesFrame

\* A session saves: it is the only one of its path, unless it was disposed of or the
\* path is raced.
LEMMA PersistWriteFiles ==
  ASSUME FilesInv, SessionsInv', NEW r \in Requests, NEW ok \in BOOLEAN,
         Ends(r, ok), PersistWrite(r, ok)
  PROVE  FilesInv'
<1>1. /\ TypeInv /\ TypeOK /\ StepOK(r) /\ UNCHANGED raced /\ RacesOK'
      /\ End(r) /\ UNCHANGED registryVars
  BY StepFacts DEF PersistWrite
<1>2. req[r].op \in {"save", "eval", "edit"} /\ req[r].step = "writing"
  BY DEF PersistWrite, At
<1> PICK t \in Sessions, p \in Paths : t = req[r].session /\ p = path[t]
  BY <1>1, <1>2, WorkFacts DEF TypeInv
<1>3. ClientOK(r)' /\ ReloadOK(r)' /\ req[r].step # "rebinding"
  BY <1>1, <1>2, EndedOK
<1>4. CASE UNCHANGED <<file, revived, notebook>>
  BY <1>1, <1>3, <1>4, QuietFiles DEF registryVars
<1>5. CASE Written(r, p, t) /\ notebook' = [notebook EXCEPT ![t] = req[r].read.doc]
  <2>1. /\ file'[p] = req[r].read /\ req[r].read \in Contents
        /\ \A q \in Paths \ {p} : Kept(q)
    <3>1. Shaped(req[r])
      BY <1>1 DEF TypeInv, ShapeOK
    <3> QED BY <1>1, <1>2, <1>5, <3>1 DEF Written, TypeOK, Shaped, Kept
  <2>2. file'[p] # Nil
    BY <2>1, NilAssumption
  <2>3. notebook'[t] = req[r].read.doc
        /\ \A s \in Sessions \ {t} : notebook'[s] = notebook[s]
    BY <1>1, <1>5 DEF TypeOK
  <2>4. \A q : Lookup(q)' = Lookup(q)
    BY <1>1 DEF Lookup, registryVars
  <2>5. \A x \in Requests \ {r} :
          path[req[x].session] \in raced => path'[req[x].session] \in raced
    BY <1>1 DEF registryVars
  <2>6. ASSUME NEW s \in sessions, path[s] \notin raced, s # t, p # path[s]
        PROVE  Kept(path[s]) /\ notebook'[s] = notebook[s]
    BY <2>1, <2>3, <2>6, OwnerFacts
  <2>7. CASE t \notin sessions \/ p \in raced
    <3>1. Spoilt(p) \/ p \in raced
      BY <1>5, <2>2, <2>7 DEF Written, Spoilt
    <3>2. ASSUME NEW s \in sessions, path[s] \notin raced
          PROVE  (Kept(path[s]) /\ notebook'[s] = notebook[s]) \/ Spoilt(path[s])
      BY <2>6, <2>7, <3>1, <3>2
    <3>3. \A x \in Requests \ {r} : ClientOK(x)'
      BY <1>1, <2>1, <2>4, <2>5, <3>1, OthersFrame
    <3> QED BY <1>1, <1>3, <3>2, <3>3, FilesFrame
  <2>8. CASE t \in sessions /\ p \notin raced
    <3>1. byPath[p] = t /\ Lookup(p) = t /\ t # Nil
      BY <2>8, OwnerFacts
    <3>2. \A x \in Requests \ {r} : req[x].session = t => ~Reloads(x)
      BY <1>2, ReloadAlone DEF Waits, At
    <3>3. ASSUME NEW s \in sessions, path[s] \notin raced
          PROVE  \/ Kept(path[s]) /\ notebook'[s] = notebook[s]
                 \/ /\ file'[path[s]] # Nil /\ file'[path[s]].doc = notebook'[s]
                    /\ \A x \in Requests \ {r} : req[x].session = s => ~Reloads(x)
      <4>1. CASE s = t
        BY <2>1, <2>2, <2>3, <3>2, <4>1
      <4>2. CASE s # t
        <5>1. path[s] # p
          BY <3>1, <3>3, <4>2, OwnerFacts
        <5> QED BY <2>6, <3>3, <4>2, <5>1
      <4> QED BY <4>1, <4>2
    <3>4. ASSUME NEW x \in Requests \ {r} PROVE ClientOK(x)'
      <4> SUFFICES ASSUME req[x].op \in ClientOps PROVE ClientOK(x)'
        BY <1>1 DEF StepOK, ClientOK
      <4>1. req'[x] = req[x] /\ x \in Clients /\ (Clean(x)' <=> Clean(x))
        BY <1>1, TouchesFacts DEF StepOK, Clean, Touches
      <4>2. CASE ~Clean(x)
        <5>1. BoundOK(req[x])'
          BY <1>1, <4>1, <4>2, TouchesFacts DEF BoundOK, registryVars
        <5> QED BY <4>1, <4>2, <5>1 DEF ClientOK
      <4>3. CASE Clean(x)
        <5>1. CleanOK(req[x]) /\ req[x].path \in Paths
              /\ (req[x].op = "move" => req[x].target \in Paths)
          BY <4>3, TouchesFacts
        <5>2. req[x].op = "move" => req[x].target # p
          BY <3>1, <5>1 DEF CleanOK, MoveOK
        <5>3. CASE req[x].path # p
          <6>1. CleanOK(req[x])'
            BY <2>1, <2>4, <4>1, <5>1, <5>2, <5>3, CleanFrame
          <6> QED BY <4>1, <4>3, <6>1 DEF ClientOK
        <5>4. CASE req[x].path = p
          <6>1. req[x].op \notin {"create", "open"}
            BY <3>1, <5>1, <5>4 DEF CleanOK, OpenOK
          <6>2. DeleteOK(req[x])'
            BY <2>4, <4>1, <5>1, <5>4 DEF CleanOK, DeleteOK, Lookup
          <6>3. MoveOK(req[x])'
            <7> SUFFICES ASSUME req[x].op = "move" PROVE MoveOK(req[x])'
              BY <4>1 DEF MoveOK
            <7>1. req[x].session = t
              BY <3>1, <5>1, <5>4 DEF CleanOK, MoveOK
            <7>2. ~Inside(x)
              <8>1. Inside(r)
                BY <1>2, <3>1 DEF Inside, Waits, At
              <8> QED BY <7>1, <8>1, Exclusive DEF FilesInv, SessionIsExclusive
            <7>3. req[x].step \in Waits
              BY <3>1, <7>1, <7>2 DEF Inside, At
            <7>4. Kept(req[x].target)
              BY <2>1, <5>1, <5>2
            <7>5. MoveOK(req[x])
              BY <5>1 DEF CleanOK
            <7> QED BY <2>4, <4>1, <7>3, <7>4, <7>5
                    DEF MoveOK, Lookup, Waits, Vacant, Kept
          <6> QED BY <4>1, <4>3, <6>1, <6>2, <6>3 DEF ClientOK, CleanOK, OpenOK
        <5> QED BY <5>3, <5>4
      <4> QED BY <4>2, <4>3
    <3> QED BY <1>1, <1>3, <3>3, <3>4, FilesFrame
  <2> QED BY <2>7, <2>8
<1> QED BY <1>4, <1>5 DEF PersistWrite

-----------------------------------------------------------------------------
(* The steps of a client that keep the registry. *)

\* While a client works on a path without a session, no session has it.
LEMMA NobodyThere ==
  ASSUME FilesInv, NEW p \in Paths, Lookup(p) = Nil, NEW s \in sessions
  PROVE  path[s] \in raced \/ path[s] # p
BY OwnerFacts

\* The client writes or removes a file that is no session's, or raced.
LEMMA ClientFiles ==
  ASSUME FilesInv, SessionsInv', RacesOK', NEW r \in Requests, StepOK(r),
         req[r].op \in ClientOps, req[r].step # "rebinding",
         UNCHANGED <<sessions, byPath, path, notebook, raced>>,
         NEW p \in Paths, p \in Touches(r), Lookup(p) = Nil \/ p \in raced,
         \A q \in Paths \ {p} : Kept(q),
         ClientOK(r)', ReloadOK(r)'
  PROVE  FilesInv'
<1>1. \A q : Lookup(q)' = Lookup(q)
  BY DEF Lookup
<1>2. \A x \in Requests \ {r} :
        path[req[x].session] \in raced => path'[req[x].session] \in raced
  OBVIOUS
<1>3. r \in Clients
  BY TouchesFacts
<1>4. \A x \in Requests \ {r} : ClientOK(x)'
  BY <1>1, <1>2, <1>3, OthersFrame
<1>5. \A s \in sessions :
        path[s] \in raced \/ (Kept(path[s]) /\ notebook'[s] = notebook[s])
  BY OwnerFacts, NobodyThere
<1>6. UNCHANGED <<registryVars, raced>>
  BY DEF registryVars
<1> QED BY <1>4, <1>5, <1>6, FilesFrame

LEMMA EndedClientOK ==
  ASSUME NEW r \in Requests, req'[r] = NoRequest
  PROVE  ClientOK(r)' /\ ReloadOK(r)'
BY NoRequestFacts DEF ClientOK, ReloadOK, Reloads, ClientOps

\* The handler of a raced request works on raced paths.
LEMMA RacedFiles ==
  ASSUME FilesInv, SessionsInv', NEW r \in Requests, NEW ok \in BOOLEAN,
         Ends(r, ok), ~Clean(r),
         \/ CreateWrite(r, ok) \/ OpenRead(r, ok) \/ Bind(r) \/ MoveRead(r, ok)
         \/ MoveCopy(r, ok) \/ MoveRemove(r, ok) \/ MoveUndo(r, ok)
  PROVE  FilesInv'
<1>1. /\ TypeInv /\ TypeOK /\ StepOK(r) /\ UNCHANGED raced /\ RacesOK'
      /\ req'[r] = NoRequest \/ SameWork(r)
  BY StepFacts
<1>2. /\ req[r].op \in ClientOps /\ req[r].op # "delete" /\ req[r].step # "rebinding"
      /\ UNCHANGED <<sessions, byPath, path, notebook>>
  BY DEF CreateWrite, OpenRead, Bind, MoveRead, MoveCopy, MoveRemove, MoveUndo, At,
         ClientOps, registryVars, vmVars
<1>3. /\ r \in Clients /\ BoundOK(req[r]) /\ Touches(r) \subseteq raced
      /\ req[r].path \in Paths /\ req[r].path \in Touches(r)
      /\ req[r].op = "move" => req[r].target \in Paths \intersect Touches(r)
  BY <1>2, TouchesFacts
<1>4. ClientOK(r)' /\ ReloadOK(r)'
  <2>1. CASE req'[r] = NoRequest
    BY <2>1, EndedClientOK
  <2>2. CASE SameWork(r)
    <3>1. Touches(r)' = Touches(r) /\ ~Clean(r)'
      BY <1>1, <2>2 DEF SameWork, Touches, Clean
    <3>2. BoundOK(req[r])'
      BY <1>1, <1>2, <1>3, <2>2 DEF SameWork, BoundOK
    <3> QED BY <1>2, <1>3, <2>2, <3>1, <3>2
            DEF SameWork, ClientOK, ReloadOK, Reloads, ClientOps
  <2> QED BY <1>1, <2>1, <2>2
<1>5. CASE UNCHANGED <<file, revived>>
  BY <1>1, <1>2, <1>4, <1>5, QuietFiles
<1>6. CASE \/ CreateWrite(r, ok) /\ ~UNCHANGED <<file, revived>>
           \/ MoveRemove(r, ok) /\ ~UNCHANGED <<file, revived>>
  <2>1. \A q \in Paths \ {req[r].path} : Kept(q)
    BY <1>1, <1>6 DEF CreateWrite, MoveRemove, RemoveFile, TypeOK, Kept
  <2> QED BY <1>1, <1>2, <1>3, <1>4, <2>1, ClientFiles
<1>7. CASE MoveCopy(r, ok) \/ MoveUndo(r, ok)
  <2>1. req[r].op = "move"
    BY <1>7 DEF MoveCopy, MoveUndo, At
  <2>2. \A q \in Paths \ {req[r].target} : Kept(q)
    BY <1>1, <1>7 DEF MoveCopy, MoveUndo, TypeOK, Kept
  <2> QED BY <1>1, <1>2, <1>3, <1>4, <2>1, <2>2, ClientFiles
<1>8. OpenRead(r, ok) \/ Bind(r) \/ MoveRead(r, ok) => UNCHANGED <<file, revived>>
  BY DEF OpenRead, Bind, MoveRead, diskVars
<1> QED BY <1>5, <1>6, <1>7, <1>8

\* What is known of a client's request at each step.
LEMMA ClientRecord ==
  ASSUME FilesInv, NEW r \in Requests, req[r].op \in ClientOps, Clean(r)
  PROVE  /\ TypeInv /\ TypeOK
         /\ r \in Clients /\ OpenOK(req[r]) /\ DeleteOK(req[r]) /\ MoveOK(req[r])
         /\ req[r].path \in Paths /\ req[r].path \in Touches(r)
         /\ req[r].op = "move" => req[r].target \in Paths \intersect Touches(r)
BY TouchesFacts DEF CleanOK

\* The handler of a request that starts.  If the paths of other clients' requests
\* become raced by that, what these dispose of or rebind has one of them.
LEMMA BeginFiles ==
  ASSUME FilesInv, SessionsInv', RacesOK', raced \subseteq raced',
         NEW r \in Requests, NEW s, NEW q, StepOK(r),
         Begin(r, s, q), UNCHANGED <<registryVars, diskVars, vmVars>>,
         q.step \notin {"hydrating", "swapping"},
         q.op \in ClientOps =>
           /\ r \in Clients /\ OpenOK(q) /\ DeleteOK(q) /\ MoveOK(q)
           /\ q.session # Nil => path[q.session] \in Touches(r)'
  PROVE  FilesInv'
<1>1. req'[r] = q /\ req[r].step = "idle"
  BY DEF Begin, FilesInv, SessionsInv, TypeInv, TypeOK
<1>2. UNCHANGED <<sessions, byPath, path, file, revived, notebook>>
  BY DEF registryVars, diskVars, vmVars
<1>3. \A p : Kept(p) /\ Lookup(p)' = Lookup(p)
  BY <1>2 DEF Kept, Lookup
<1>4. ClientOK(r)' /\ ReloadOK(r)'
  <2>1. /\ OpenOK(q) => OpenOK(req[r])'
        /\ DeleteOK(q) => DeleteOK(req[r])'
        /\ MoveOK(q) => MoveOK(req[r])'
    BY <1>1, <1>2 DEF OpenOK, DeleteOK, MoveOK, Lookup, Vacant, Holds
  <2>2. q.op \in ClientOps /\ ~Clean(r)' => BoundOK(req[r])'
    <3> SUFFICES ASSUME q.op \in ClientOps, ~Clean(r)', q.session # Nil
                 PROVE  path[q.session] \in raced'
      BY <1>1, <1>2 DEF BoundOK
    <3>1. Touches(r)' \subseteq raced'
      BY DEF RacesOK, Clean
    <3> QED BY <3>1
  <2> QED BY <1>1, <2>1, <2>2 DEF ClientOK, CleanOK, ReloadOK, Reloads
<1>5. ASSUME NEW x \in Requests \ {r} PROVE ClientOK(x)' /\ ReloadOK(x)'
  <2>1. req'[x] = req[x] /\ ClientOK(x) /\ ReloadOK(x)
    BY DEF StepOK, FilesInv
  <2>2. ReloadOK(x)'
    BY <1>2, <2>1 DEF ReloadOK, Reloads
  <2>3. CASE req[x].op \notin ClientOps
    BY <2>1, <2>2, <2>3 DEF ClientOK
  <2>4. CASE req[x].op \in ClientOps
    <3>1. /\ x \in Clients /\ Touches(x)' = Touches(x)
          /\ req[x].path \in Touches(x) /\ req[x].path \in Paths
          /\ req[x].op = "move" => req[x].target \in Paths
      BY <2>1, <2>4, TouchesFacts DEF Touches
    <3>2. CASE Clean(x)'
      <4>1. CleanOK(req[x])
        BY <2>1, <2>4, <3>1, <3>2 DEF ClientOK, Clean
      <4>2. CleanOK(req[x])'
        BY <1>3, <2>1, <4>1, CleanFrame
      <4> QED BY <2>2, <3>1, <3>2, <4>2, <2>1 DEF ClientOK
    <3>3. CASE ~Clean(x)'
      <4>1. Touches(x) \subseteq raced'
        BY <3>1, <3>3 DEF RacesOK, Clean
      <4>2. CASE Clean(x)
        <5>1. /\ req[x].op = "move" => req[x].session = Lookup(req[x].path)
              /\ req[x].op = "delete" /\ req[x].step = "deleting" =>
                   req[x].session = Lookup(req[x].path)
          BY <2>4, <4>2, ClientRecord DEF MoveOK, DeleteOK
        <5>2. req[x].session = Lookup(req[x].path) /\ req[x].session # Nil =>
                path[req[x].session] \in raced'
          BY <3>1, <4>1, FoundFacts
        <5>3. BoundOK(req[x])'
          BY <1>2, <2>1, <5>1, <5>2 DEF BoundOK
        <5> QED BY <2>1, <2>2, <3>1, <3>3, <5>3 DEF ClientOK
      <4>3. CASE ~Clean(x)
        <5>1. BoundOK(req[x])'
          BY <1>2, <2>1, <2>4, <4>3 DEF BoundOK, ClientOK
        <5> QED BY <2>1, <2>2, <3>1, <3>3, <5>1 DEF ClientOK
      <4> QED BY <4>2, <4>3
    <3> QED BY <3>2, <3>3
  <2> QED BY <2>3, <2>4
<1>6. SessionOwnsItsFile'
  <2> SUFFICES ASSUME NEW s1 \in sessions, path[s1] \notin raced'
               PROVE  /\ byPath[path[s1]] = s1
                      /\ \/ file[path[s1]] # Nil
                         \/ \E c \in Clients : /\ At(c, {"move"}, "rebinding")'
                                               /\ req'[c].session = s1
    BY <1>2 DEF SessionOwnsItsFile
  <2>1. /\ byPath[path[s1]] = s1
        /\ \/ file[path[s1]] # Nil
           \/ \E c \in Clients : At(c, {"move"}, "rebinding") /\ req[c].session = s1
    BY DEF FilesInv, SessionOwnsItsFile
  <2>2. ASSUME NEW c \in Clients, At(c, {"move"}, "rebinding") PROVE req'[c] = req[c]
    BY <1>1, <2>2 DEF At, StepOK, Requests
  <2> QED BY <2>1, <2>2 DEF At
<1>7. DocumentAgrees'
  BY <1>2 DEF FilesInv, DocumentAgrees
<1> QED BY <1>4, <1>5, <1>6, <1>7 DEF FilesInv

LEMMA ClientBegins ==
  ASSUME FilesInv, SessionsInv', NEW r \in Clients, NEW p \in Paths,
         \/ Create(r, p) \/ Open(r, p) \/ Delete(r, p)
         \/ \E q \in Paths : Move(r, p, q)
  PROVE  FilesInv'
<1>1. r \in Requests /\ StepOK(r) /\ \A x \in Clients \ {r} : req'[x] = req[x]
  BY ClientStep DEF FilesInv, SessionsInv, StepOK, Requests
<1> DEFINE Begins(s, q) ==
             Begin(r, s, q) /\ UNCHANGED <<registryVars, diskVars, vmVars>>
<1>2. ASSUME NEW s, NEW q, NEW ps, Begins(s, q), Races(ps),
             ps = {q.path, q.target} \ {Nil},
             q.step \notin {"hydrating", "swapping"},
             OpenOK(q) /\ DeleteOK(q) /\ MoveOK(q),
             q.session # Nil => path[q.session] \in ps
      PROVE  FilesInv'
  <2>1. req'[r] = q
    BY <1>1, <1>2 DEF Begin, FilesInv, SessionsInv, TypeInv, TypeOK
  <2>2. Touches(r)' = ps /\ \A x \in Clients \ {r} : Touches(x)' = Touches(x)
    BY <1>1, <1>2, <2>1 DEF Touches
  <2>3. RacesOK' /\ raced \subseteq raced'
    BY <1>2, <2>2, RacesBegin DEF FilesInv
  <2> QED BY <1>1, <1>2, <2>2, <2>3, BeginFiles
<1>3. CASE Create(r, p)
  <2> DEFINE q == [NoRequest EXCEPT !.op = "create", !.step = "creating", !.path = p]
  <2>1. Begins(Nil, q) /\ Races({p})
    BY <1>3 DEF Create
  <2>2. /\ q.op = "create" /\ q.step = "creating" /\ q.path = p /\ q.target = Nil
        /\ q.session = Nil
    BY DEF NoRequest
  <2>3. OpenOK(q) /\ DeleteOK(q) /\ MoveOK(q)
    BY <1>3, <2>2 DEF Create, OpenOK, DeleteOK, MoveOK, Vacant
  <2>4. (q.session # Nil => path[q.session] = p) /\ {p} = {q.path, q.target} \ {Nil}
    BY <2>2, FoundFacts, NilAssumption
  <2> HIDE DEF q
  <2> QED BY <1>2, <2>1, <2>2, <2>3, <2>4
<1>4. CASE Open(r, p)
  <2> DEFINE q == [NoRequest EXCEPT !.op = "open", !.step = "opening", !.path = p]
  <2>1. Begins(Nil, q) /\ Races({p})
    BY <1>4 DEF Open
  <2>2. /\ q.op = "open" /\ q.step = "opening" /\ q.path = p /\ q.target = Nil
        /\ q.session = Nil
    BY DEF NoRequest
  <2>3. OpenOK(q) /\ DeleteOK(q) /\ MoveOK(q)
    BY <1>4, <2>2 DEF Open, OpenOK, DeleteOK, MoveOK
  <2>4. (q.session # Nil => path[q.session] = p) /\ {p} = {q.path, q.target} \ {Nil}
    BY <2>2, FoundFacts, NilAssumption
  <2> HIDE DEF q
  <2> QED BY <1>2, <2>1, <2>2, <2>3, <2>4
<1>5. CASE Delete(r, p)
  <2> DEFINE q == [NoRequest EXCEPT !.op = "delete", !.path = p,
                            !.step = "deleting", !.session = Lookup(p)]
  <2>1. Begins(Lookup(p), q) /\ Races({p})
    BY <1>5 DEF Delete
  <2>2. /\ q.op = "delete" /\ q.step = "deleting" /\ q.path = p /\ q.target = Nil
        /\ q.session = Lookup(p)
    BY DEF NoRequest
  <2>3. OpenOK(q) /\ DeleteOK(q) /\ MoveOK(q)
    BY <2>2 DEF OpenOK, DeleteOK, MoveOK
  <2>4. (q.session # Nil => path[q.session] = p) /\ {p} = {q.path, q.target} \ {Nil}
    BY <2>2, FoundFacts, NilAssumption
  <2> HIDE DEF q
  <2> QED BY <1>2, <2>1, <2>2, <2>3, <2>4
<1>6. ASSUME NEW t \in Paths, Move(r, p, t) PROVE FilesInv'
  <2> DEFINE q == [NoRequest EXCEPT !.op = "move", !.step = "moving",
                            !.path = p, !.target = t, !.session = Lookup(p)]
  <2>1. /\ Begins(Lookup(p), q) /\ Races({p, t})
        /\ p # t /\ file[t] = Nil /\ Lookup(t) = Nil
    BY <1>6 DEF Move
  <2>2. /\ q.op = "move" /\ q.step = "moving" /\ q.path = p /\ q.target = t
        /\ q.session = Lookup(p)
    BY DEF NoRequest
  <2>3. OpenOK(q) /\ DeleteOK(q) /\ MoveOK(q)
    BY <2>1, <2>2 DEF OpenOK, DeleteOK, MoveOK, Vacant
  <2>4. (q.session # Nil => path[q.session] = p) /\ {p, t} = {q.path, q.target} \ {Nil}
    BY <2>2, FoundFacts, NilAssumption
  <2> HIDE DEF q
  <2> QED BY <1>2, <2>1, <2>2, <2>3, <2>4
<1> QED BY <1>3, <1>4, <1>5, <1>6

LEMMA UserBegins ==
  ASSUME FilesInv, SessionsInv', NEW r \in Users, NEW s \in Sessions,
         \/ Restart(r, s) \/ Reload(r, s)
         \/ \E d \in Docs : Save(r, s, d)
         \/ \E c \in Cells : Evaluate(r, s, c) \/ Edit(r, s, c)
  PROVE  FilesInv'
<1>1. r \in Requests /\ StepOK(r) /\ UNCHANGED raced
  BY UserStep DEF FilesInv, SessionsInv, Restart, Reload, Save, Evaluate, Edit, Ask
<1>2. RacesOK'
  <2>1. \A x \in Clients : Touches(x)' = Touches(x)
    BY <1>1, RequestsAssumption DEF StepOK, Touches, Requests
  <2> QED BY <1>1, <2>1, RacesFrame DEF FilesInv
<1>3. ASSUME NEW op \in {"save", "eval", "edit", "restart", "reload"},
             NEW step, NEW doc, NEW cell, step \notin {"hydrating", "swapping"},
             Ask(r, s, op, step, doc, cell)
      PROVE  FilesInv'
  <2> DEFINE q == [NoRequest EXCEPT !.op = op, !.step = step, !.session = s,
                    !.path = path[s], !.doc = doc, !.cell = cell]
  <2>1. Begin(r, s, q) /\ UNCHANGED <<registryVars, diskVars, vmVars>>
    BY <1>3 DEF Ask
  <2>2. q.op = op /\ q.step = step
    BY DEF NoRequest
  <2> HIDE DEF q
  <2> QED BY <1>1, <1>2, <1>3, <2>1, <2>2, BeginFiles DEF ClientOps
<1> QED BY <1>3 DEF Restart, Reload, Save, Evaluate, Edit

LEMMA OpeningFiles ==
  ASSUME FilesInv, SessionsInv', NEW r \in Requests, NEW ok \in BOOLEAN,
         Ends(r, ok), CreateWrite(r, ok) \/ OpenRead(r, ok) \/ Bind(r)
  PROVE  FilesInv'
<1> SUFFICES ASSUME Clean(r) PROVE FilesInv'
  BY RacedFiles
<1>1. /\ TypeInv /\ TypeOK /\ StepOK(r) /\ req'[r].op \in {req[r].op, "none"}
      /\ UNCHANGED raced /\ RacesOK'
  BY StepFacts
<1>2. req[r].op \in {"create", "open"} /\ req[r].op \in ClientOps
      /\ req[r].step # "rebinding"
  BY DEF CreateWrite, OpenRead, Bind, At, ClientOps
<1> PICK p \in Paths : p = req[r].path
  BY <1>2, ClientRecord
<1>3. /\ r \in Clients /\ OpenOK(req[r]) /\ p = req[r].path /\ Lookup(p) = Nil
      /\ p \in Touches(r) /\ p \notin raced
  BY <1>2, ClientRecord DEF OpenOK, Clean
<1>4. UNCHANGED registryVars /\ UNCHANGED <<sessions, byPath, path, notebook>>
  BY DEF CreateWrite, OpenRead, Bind, registryVars, vmVars
<1>5. ReloadOK(r)'
  BY <1>1, <1>2 DEF ReloadOK, Reloads
<1>6. ASSUME NEW contents, req'[r].op = req[r].op, req'[r].path = p,
             req'[r].step \in {"binding", "registering"},
             req'[r].read = contents, Holds(p, contents)'
      PROVE  ClientOK(r)'
  <2>1. CleanOK(req[r])'
    BY <1>2, <1>3, <1>4, <1>6 DEF CleanOK, OpenOK, DeleteOK, MoveOK, Lookup, Holds
  <2>2. BoundOK(req[r])'
    BY <1>2, <1>6 DEF BoundOK
  <2> QED BY <1>3, <2>1, <2>2 DEF ClientOK
<1>7. ASSUME NEW step, NEW read,
             req' = [req EXCEPT ![r].step = step, ![r].read = read]
      PROVE  /\ req'[r].op = req[r].op /\ req'[r].path = p
             /\ req'[r].step = step /\ req'[r].read = read
  <2>1. /\ req'[r].op = req[r].op /\ req'[r].path = req[r].path
        /\ req'[r].step = step /\ req'[r].read = read
    BY <1>1, <1>7 DEF TypeOK, RequestRecords
  <2> QED BY <1>3, <2>1
<1>8. CASE End(r) /\ UNCHANGED <<file, revived>>
  BY <1>1, <1>2, <1>4, <1>8, EndedOK, QuietFiles
<1>9. CASE CreateWrite(r, ok) /\ ok
  <2> SUFFICES ASSUME NEW empty \in Contents,
                      file' = [file EXCEPT ![p] = empty], revived' = revived \ {p},
                      req' = [req EXCEPT ![r].step = "binding", ![r].read = empty]
               PROVE  FilesInv'
    BY <1>3, <1>9, NewDocAssumption DEF CreateWrite, Contents
  <2>2. file'[p] = empty /\ \A q \in Paths \ {p} : Kept(q)
    BY <1>1, <1>3 DEF TypeOK, Kept
  <2>3. empty # Nil
    BY NilAssumption
  <2>4. /\ req'[r].op = req[r].op /\ req'[r].path = p /\ req'[r].step = "binding"
        /\ req'[r].read = empty
    BY <1>7
  <2>5. ClientOK(r)'
    BY <1>6, <2>2, <2>3, <2>4 DEF Holds
  <2> QED BY <1>1, <1>2, <1>3, <1>4, <1>5, <2>2, <2>5, ClientFiles
<1>10. CASE OpenRead(r, ok) /\ ~End(r)
  <2>1. /\ req' = [req EXCEPT ![r].step = "binding", ![r].read = file[p]]
        /\ file[p] # Nil /\ UNCHANGED <<file, revived>>
    BY <1>3, <1>10 DEF OpenRead, diskVars
  <2>2. /\ req'[r].op = req[r].op /\ req'[r].path = p /\ req'[r].step = "binding"
        /\ req'[r].read = file[p]
    BY <1>7, <2>1
  <2>3. ClientOK(r)'
    <3>1. Holds(p, file[p])'
      BY <2>1 DEF Holds
    <3> QED BY <1>6, <2>1, <2>2, <3>1
  <2> QED BY <1>1, <1>2, <1>4, <1>5, <2>1, <2>3, QuietFiles
<1>11. CASE Bind(r) /\ ~End(r)
  <2>1. PICK s \in Sessions :
          req' = [req EXCEPT ![r].step = "registering", ![r].session = s]
    BY <1>11 DEF Bind, Allocate
  <2>2. /\ req'[r].op = req[r].op /\ req'[r].path = p
        /\ req'[r].step = "registering" /\ req'[r].read = req[r].read
    BY <1>1, <1>3, <2>1 DEF TypeOK, RequestRecords
  <2>3. UNCHANGED <<file, revived>> /\ req[r].step = "binding"
    BY <1>11 DEF Bind, At
  <2>4. ClientOK(r)'
    BY <1>2, <1>3, <1>6, <2>2, <2>3 DEF Holds, OpenOK
  <2> QED BY <1>1, <1>2, <1>4, <1>5, <2>3, <2>4, QuietFiles
<1> QED BY <1>8, <1>9, <1>10, <1>11
        DEF CreateWrite, OpenRead, Bind, diskVars

\* A move that goes on with its paths.
LEMMA MoveStaysClean ==
  ASSUME NEW r \in Requests, r \in Clients, Clean(r), UNCHANGED raced,
         req'[r].path = req[r].path, req'[r].target = req[r].target, CleanOK(req[r])'
  PROVE  ClientOK(r)'
BY DEF ClientOK, Clean, Touches

LEMMA MoveReadFiles ==
  ASSUME FilesInv, SessionsInv', NEW r \in Requests, NEW ok \in BOOLEAN,
         Ends(r, ok), MoveRead(r, ok)
  PROVE  FilesInv'
<1> SUFFICES ASSUME Clean(r) PROVE FilesInv'
  BY RacedFiles
<1> DEFINE p == req[r].path
<1>1. TypeInv /\ StepOK(r) /\ UNCHANGED raced /\ RacesOK'
  BY StepFacts
<1>2. req[r].op = "move" /\ req[r].step = "moving"
  BY DEF MoveRead, At
<1>3. UNCHANGED <<sessions, byPath, path, file, revived, notebook>>
  BY DEF MoveRead, registryVars, diskVars, vmVars
<1>4. CASE End(r)
  BY <1>1, <1>2, <1>3, <1>4, EndedOK, QuietFiles
<1>5. CASE ~End(r)
  <2>1. /\ req' = [req EXCEPT ![r].step = "copying", ![r].read = file[p]]
        /\ file[p] # Nil
    BY <1>5 DEF MoveRead
  <2>2. /\ req'[r].op = "move" /\ req'[r].path = p
        /\ req'[r].target = req[r].target /\ req'[r].session = req[r].session
        /\ req'[r].read = file[p] /\ req'[r].step = "copying"
    BY <1>1, <1>2, <2>1, ReadRecord
  <2>3. MoveOK(req[r]) /\ r \in Clients
    BY <1>2, ClientRecord DEF ClientOps
  <2>4. ClientOK(r)'
    <3>1. CleanOK(req[r])'
      BY <1>2, <1>3, <2>1, <2>2, <2>3
      DEF CleanOK, OpenOK, DeleteOK, MoveOK, Lookup, Vacant, Holds
    <3> QED BY <1>1, <2>2, <2>3, <3>1, MoveStaysClean
  <2>5. ReloadOK(r)'
    BY <2>2 DEF ReloadOK, Reloads
  <2> QED BY <1>1, <1>2, <1>3, <2>4, <2>5, QuietFiles
<1> QED BY <1>4, <1>5

\* The copy is at the target, and what it was taken from is still there.
LEMMA MoveCopyFiles ==
  ASSUME FilesInv, SessionsInv', NEW r \in Requests, NEW ok \in BOOLEAN,
         Ends(r, ok), MoveCopy(r, ok)
  PROVE  FilesInv'
<1> SUFFICES ASSUME Clean(r) PROVE FilesInv'
  BY RacedFiles
<1> DEFINE t == req[r].target
<1>1. TypeInv /\ TypeOK /\ StepOK(r) /\ UNCHANGED raced /\ RacesOK'
  BY StepFacts
<1>2. req[r].op = "move" /\ req[r].step = "copying" /\ req[r].op \in ClientOps
  BY DEF MoveCopy, At, ClientOps
<1>3. /\ r \in Clients /\ t \in Paths /\ Lookup(t) = Nil /\ req[r].path \in Paths
      /\ req[r].path # t /\ req[r].session = Lookup(req[r].path)
      /\ Holds(req[r].path, req[r].read) /\ Vacant(t) /\ t \in Touches(r)
  BY <1>2, ClientRecord DEF MoveOK
<1>4. UNCHANGED registryVars /\ UNCHANGED <<sessions, byPath, path, notebook>>
  BY DEF MoveCopy, registryVars, vmVars
<1>5. CASE ~ok
  BY <1>1, <1>2, <1>4, <1>5, EndedOK, QuietFiles DEF MoveCopy
<1>6. CASE ok
  <2>1. /\ file' = [file EXCEPT ![t] = req[r].read]
        /\ revived' = revived \ {t}
        /\ Proceed(r, "removing")
    BY <1>6 DEF MoveCopy
  <2>2. file'[t] = req[r].read /\ \A q \in Paths \ {t} : Kept(q)
    BY <1>1, <1>3, <2>1 DEF TypeOK, Kept
  <2>3. req[r].read # Nil
    <3>1. Shaped(req[r])
      BY <1>1 DEF TypeInv, ShapeOK
    <3> QED BY <1>2, <3>1, NilAssumption DEF Shaped
  <2>4. /\ req'[r].op = "move" /\ req'[r].path = req[r].path
        /\ req'[r].target = t /\ req'[r].session = req[r].session
        /\ req'[r].read = req[r].read /\ req'[r].step = "removing"
    BY <1>1, <1>2, <2>1, ProceedRecord
  <2>5. Holds(req[r].path, req[r].read)' /\ Holds(t, req[r].read)'
    BY <1>3, <2>2, <2>3, <2>4 DEF Holds, Kept
  <2>6. ClientOK(r)'
    <3>1. CleanOK(req[r])'
      BY <1>3, <1>4, <2>4, <2>5
      DEF CleanOK, OpenOK, DeleteOK, MoveOK, Lookup, Holds
    <3> QED BY <1>1, <1>3, <2>4, <3>1, MoveStaysClean
  <2>7. ReloadOK(r)'
    BY <2>4 DEF ReloadOK, Reloads
  <2> QED BY <1>1, <1>2, <1>3, <1>4, <2>2, <2>6, <2>7, ClientFiles
<1> QED BY <1>5, <1>6

LEMMA MoveRemoveFiles ==
  ASSUME FilesInv, SessionsInv', NEW r \in Requests, NEW ok \in BOOLEAN,
         Ends(r, ok), MoveRemove(r, ok)
  PROVE  FilesInv'
<1> SUFFICES ASSUME Clean(r) PROVE FilesInv'
  BY RacedFiles
<1>1. TypeInv /\ TypeOK /\ StepOK(r) /\ UNCHANGED raced /\ RacesOK'
  BY StepFacts
<1>2. req[r].op = "move" /\ req[r].step = "removing" /\ req[r].op \in ClientOps
  BY DEF MoveRemove, At, ClientOps
<1> PICK p \in Paths, t \in Paths : p = req[r].path /\ t = req[r].target
  BY <1>2, ClientRecord
<1>3. /\ r \in Clients /\ p = req[r].path /\ t = req[r].target
      /\ req[r].session = Lookup(p) /\ Lookup(t) = Nil /\ p # t
      /\ Holds(p, req[r].read) /\ Holds(t, req[r].read)
      /\ p \in Touches(r) /\ p \notin raced /\ t \notin raced
  BY <1>2, ClientRecord DEF MoveOK, Clean
<1>4. UNCHANGED registryVars /\ UNCHANGED <<sessions, byPath, path, notebook>>
  BY DEF MoveRemove, registryVars, vmVars
<1>5. ASSUME NEW step \in {"rebinding", "undoing"}, Proceed(r, step), Kept(t),
             step = "undoing" => Kept(p)
      PROVE  ClientOK(r)' /\ ReloadOK(r)'
  <2>1. /\ req'[r].op = "move" /\ req'[r].path = p
        /\ req'[r].target = t /\ req'[r].session = Lookup(p)
        /\ req'[r].read = req[r].read /\ req'[r].step = step
    BY <1>1, <1>2, <1>3, <1>5, ProceedRecord
  <2>2. ClientOK(r)'
    <3>1. CleanOK(req[r])'
      BY <1>3, <1>4, <1>5, <2>1
      DEF CleanOK, OpenOK, DeleteOK, MoveOK, Lookup, Holds, Kept
    <3> QED BY <1>1, <1>3, <2>1, <3>1, MoveStaysClean
  <2> QED BY <2>1, <2>2 DEF ReloadOK, Reloads
<1>6. CASE ok /\ file[p] # Nil
  <2>1. file'[p] = Nil /\ \A q \in Paths \ {p} : Kept(q)
    BY <1>1, <1>3, <1>6 DEF MoveRemove, RemoveFile, TypeOK, Kept
  <2>2. CASE Lookup(p) = Nil
    <3>1. End(r)
      BY <1>3, <1>6, <2>2 DEF MoveRemove
    <3> QED BY <1>1, <1>2, <1>3, <1>4, <2>1, <2>2, <3>1, EndedOK, ClientFiles
  <2>3. CASE Lookup(p) # Nil
    <3>1. Proceed(r, "rebinding")
      BY <1>3, <1>6, <2>3 DEF MoveRemove
    <3>2. ClientOK(r)' /\ ReloadOK(r)'
      BY <1>3, <1>5, <2>1, <3>1
    <3>3. \A x \in Requests \ {r} : ClientOK(x)'
      <4>1. \A q : Lookup(q)' = Lookup(q)
        BY <1>4 DEF Lookup
      <4>2. \A x \in Requests \ {r} :
              path[req[x].session] \in raced => path'[req[x].session] \in raced
        BY <1>4
      <4> QED BY <1>1, <1>3, <2>1, <4>1, <4>2, OthersFrame
    <3>4. ASSUME NEW s \in sessions, path[s] \notin raced
          PROVE  \/ Kept(path[s]) /\ notebook'[s] = notebook[s]
                 \/ /\ file'[path[s]] = Nil
                    /\ r \in Clients /\ At(r, {"move"}, "rebinding")'
                    /\ req'[r].session = s
      <4>1. CASE path[s] # p
        BY <1>4, <2>1, <4>1, OwnerFacts
      <4>2. CASE path[s] = p
        <5>1. Lookup(p) = s
          BY <1>3, <4>2, OwnerFacts
        <5>2. /\ req'[r].op = "move" /\ req'[r].step = "rebinding"
              /\ req'[r].session = s
          BY <1>1, <1>2, <1>3, <3>1, <5>1, ProceedRecord
        <5> QED BY <1>3, <2>1, <4>2, <5>2 DEF At
      <4> QED BY <4>1, <4>2
    <3> QED BY <1>1, <1>2, <1>4, <3>2, <3>3, <3>4, FilesFrame DEF registryVars
  <2> QED BY <2>2, <2>3
<1>7. CASE ~(ok /\ file[p] # Nil)
  <2>1. Proceed(r, "undoing") /\ UNCHANGED <<file, revived>>
    BY <1>3, <1>7 DEF MoveRemove
  <2> QED BY <1>1, <1>2, <1>4, <1>5, <2>1, QuietFiles DEF Kept
<1> QED BY <1>6, <1>7

LEMMA MoveUndoFiles ==
  ASSUME FilesInv, SessionsInv', NEW r \in Requests, NEW ok \in BOOLEAN,
         Ends(r, ok), MoveUndo(r, ok) \/ Unlink(r, ok)
  PROVE  FilesInv'
<1>1. /\ TypeInv /\ TypeOK /\ StepOK(r) /\ UNCHANGED raced /\ RacesOK'
      /\ End(r)
  BY StepFacts DEF MoveUndo, Unlink
<1>2. req[r].op \in ClientOps /\ req[r].step # "rebinding"
  BY DEF MoveUndo, Unlink, At, ClientOps
<1>3. UNCHANGED registryVars /\ UNCHANGED <<sessions, byPath, path, notebook>>
  BY DEF MoveUndo, Unlink, registryVars, vmVars
<1>4. CASE UNCHANGED <<file, revived>>
  BY <1>1, <1>2, <1>3, <1>4, EndedOK, QuietFiles
<1>5. CASE MoveUndo(r, ok) /\ ok /\ ~Clean(r)
  BY <1>5, RacedFiles
<1>6. CASE MoveUndo(r, ok) /\ ok /\ Clean(r)
  <2>1. req[r].op = "move"
    BY <1>6 DEF MoveUndo, At
  <2> PICK t \in Paths : t = req[r].target
    BY <1>2, <1>6, <2>1, ClientRecord
  <2>2. Lookup(t) = Nil /\ t \in Touches(r)
    BY <1>2, <1>6, <2>1, ClientRecord DEF MoveOK
  <2>3. \A q \in Paths \ {t} : Kept(q)
    BY <1>1, <1>6 DEF MoveUndo, TypeOK, Kept
  <2> QED BY <1>1, <1>2, <1>3, <2>2, <2>3, EndedOK, ClientFiles
<1> QED BY <1>4, <1>5, <1>6 DEF MoveUndo, Unlink

-----------------------------------------------------------------------------
(* The steps of a client that change the registry. *)

\* Of what is not raced, only session t and what r works on changes.
LEMMA RegistryFrame ==
  ASSUME FilesInv, SessionsInv', RacesOK', NEW r \in Requests, StepOK(r),
         UNCHANGED raced, req[r].op \in ClientOps, ClientOK(r)', ReloadOK(r)',
         NEW t \in Sessions,
         \A p \in Paths \ (Touches(r) \union raced) :
           Kept(p) /\ Lookup(p)' = Lookup(p),
         \A s \in Sessions \ {t} : path'[s] = path[s],
         (\A x \in Requests \ {r} : req[x].session # t) \/
           (path[t] \in raced => path'[t] \in raced),
         \A s \in sessions' \ {t} :
           path[s] \notin raced =>
             /\ s \in sessions /\ byPath'[path[s]] = s
             /\ Kept(path[s]) /\ notebook'[s] = notebook[s]
             /\ req[r].step = "rebinding" => req[r].session # s,
         t \in sessions' /\ path'[t] \notin raced =>
           /\ byPath'[path'[t]] = t
           /\ file'[path'[t]] # Nil
           /\ path'[t] \in revived' \/ file'[path'[t]].doc = notebook'[t]
           /\ \A x \in Requests \ {r} : req[x].session = t => ~Reloads(x)
  PROVE  FilesInv'
<1>1. r \in Clients /\ TypeOK
  BY TouchesFacts
<1>2. \A s \in sessions' : s \in Sessions
  BY DEF SessionsInv, TypeInv, TypeOK
<1>3. \A x \in Requests \ {r} : ClientOK(x)'
  <2>1. ASSUME NEW x \in Requests \ {r}, req[x].session # Nil,
               path[req[x].session] \in raced
        PROVE  path'[req[x].session] \in raced
    <3>1. req[x].session \in Sessions
      BY <1>1, <2>1 DEF TypeOK, RequestRecords
    <3>2. CASE req[x].session = t
      BY <2>1, <3>2
    <3>3. CASE req[x].session # t
      BY <2>1, <3>1, <3>3
    <3> QED BY <3>2, <3>3
  <2> QED BY <1>1, <2>1, OthersFrame
<1>4. ASSUME NEW x \in Requests \ {r} PROVE ReloadOK(x)'
  <2>1. req'[x] = req[x] /\ ReloadOK(x)
    BY DEF StepOK, FilesInv
  <2>2. CASE req[x].session = t
    BY <2>1, <2>2 DEF ReloadOK, Reloads
  <2>3. CASE req[x].session # t
    <3> SUFFICES ASSUME NEW s, s = req[x].session, Reloads(x),
                        s \in sessions', path'[s] \notin revived' \union raced,
                        file'[path'[s]] # Nil
                 PROVE  file'[path'[s]].doc = req[x].read.doc
      BY <2>1 DEF ReloadOK, Reloads
    <3>1. s \in Sessions /\ path'[s] = path[s]
      BY <1>2, <2>3
    <3>2. s \in sessions /\ Kept(path[s])
      BY <2>3, <3>1
    <3> QED BY <2>1, <3>1, <3>2 DEF ReloadOK, Kept
  <2> QED BY <2>2, <2>3
<1>5. SessionOwnsItsFile'
  <2> SUFFICES ASSUME NEW s \in sessions', s # t, path'[s] \notin raced
               PROVE  /\ byPath'[path'[s]] = s
                      /\ \/ file'[path'[s]] # Nil
                         \/ \E c \in Clients : /\ At(c, {"move"}, "rebinding")'
                                               /\ req'[c].session = s
    BY DEF SessionOwnsItsFile
  <2>1. path'[s] = path[s]
    BY <1>2
  <2>2. /\ s \in sessions /\ byPath'[path[s]] = s /\ Kept(path[s])
        /\ req[r].step = "rebinding" => req[r].session # s
    BY <2>1
  <2>3. \/ file[path[s]] # Nil
        \/ \E c \in Clients : At(c, {"move"}, "rebinding") /\ req[c].session = s
    BY <2>1, <2>2 DEF FilesInv, SessionOwnsItsFile
  <2>4. ASSUME NEW c \in Clients, At(c, {"move"}, "rebinding"), req[c].session = s
        PROVE  At(c, {"move"}, "rebinding")' /\ req'[c].session = s
    <3>1. c # r
      BY <2>2, <2>4 DEF At
    <3>2. req'[c] = req[c]
      BY <3>1 DEF StepOK, Requests
    <3> QED BY <2>4, <3>2 DEF At
  <2> QED BY <2>1, <2>2, <2>3, <2>4 DEF Kept
<1>6. DocumentAgrees'
  <2> SUFFICES ASSUME NEW s \in sessions', s # t, file'[path'[s]] # Nil,
                      path'[s] \notin revived' \union raced
               PROVE  file'[path'[s]].doc = notebook'[s]
    BY DEF DocumentAgrees
  <2>1. path'[s] = path[s]
    BY <1>2
  <2>2. s \in sessions /\ Kept(path[s]) /\ notebook'[s] = notebook[s]
    BY <2>1
  <2> QED BY <2>1, <2>2 DEF FilesInv, DocumentAgrees, Kept
<1> QED BY <1>3, <1>4, <1>5, <1>6 DEF FilesInv

LEMMA RegisterFiles ==
  ASSUME FilesInv, SessionsInv', NEW r \in Requests, NEW ok \in BOOLEAN,
         Ends(r, ok), Register(r, ok)
  PROVE  FilesInv'
<1>1. /\ TypeInv /\ TypeOK /\ FreshOK /\ StepOK(r) /\ UNCHANGED raced /\ RacesOK'
      /\ End(r)
  BY StepFacts DEF FilesInv, SessionsInv, Register
<1>2. /\ req[r].op \in {"create", "open"} /\ req[r].op \in ClientOps
      /\ req[r].step = "registering"
  BY DEF Register, At, ClientOps
<1> PICK p \in Paths, t \in Sessions : p = req[r].path /\ t = req[r].session
  BY <1>1, <1>2, TouchesFacts, FreshFacts
<1>3. p \in Touches(r) /\ (Clean(r) \/ p \in raced)
  BY <1>2, TouchesFacts
<1>4. /\ \A x \in Requests : req[x].session = t => x = r
      /\ t \notin sessions /\ \A q \in Paths : byPath[q] # t
  BY <1>1, <1>2, FreshFacts
<1>5. ClientOK(r)' /\ ReloadOK(r)'
  BY <1>1, EndedOK
<1>6. UNCHANGED <<file, revived>>
  BY DEF Register
<1>7. CASE ~ok
  BY <1>1, <1>2, <1>5, <1>6, <1>7, QuietFiles DEF Register, registryVars
<1>8. CASE ok
  <2>1. /\ sessions' = sessions \union {t}
        /\ byPath' = [byPath EXCEPT ![p] = t]
        /\ path' = [path EXCEPT ![t] = p]
        /\ notebook' = [notebook EXCEPT ![t] = req[r].read.doc]
    BY <1>8 DEF Register
  <2>2. ASSUME NEW q \in Paths \ {p} PROVE Kept(q) /\ Lookup(q)' = Lookup(q)
    BY <1>1, <1>4, <1>6, <2>1 DEF TypeOK, Kept, Lookup
  <2>3. \A s \in Sessions \ {t} : path'[s] = path[s] /\ notebook'[s] = notebook[s]
    BY <1>1, <2>1 DEF TypeOK
  <2>4. ASSUME NEW s \in sessions' \ {t}, path[s] \notin raced
        PROVE  /\ s \in sessions /\ byPath'[path[s]] = s
               /\ Kept(path[s]) /\ notebook'[s] = notebook[s]
    <3>1. s \in sessions
      BY <2>1
    <3>2. s \in Sessions /\ path[s] \in Paths /\ byPath[path[s]] = s
          /\ Lookup(path[s]) = s /\ s # Nil
      BY <2>4, <3>1, OwnerFacts
    <3>3. path[s] # p
      <4>1. CASE p \in raced
        BY <2>4, <4>1
      <4>2. CASE Clean(r)
        <5>1. Lookup(p) = Nil
          BY <1>2, <4>2, ClientRecord DEF OpenOK
        <5> QED BY <3>2, <5>1
      <4> QED BY <1>3, <4>1, <4>2
    <3> QED BY <1>1, <2>1, <2>2, <2>3, <3>1, <3>2, <3>3 DEF TypeOK
  <2>5. byPath'[p] = t /\ path'[t] = p /\ notebook'[t] = req[r].read.doc
    BY <1>1, <2>1 DEF TypeOK
  <2>6. p \notin raced =>
          file'[p] # Nil /\ (p \in revived' \/ file'[p].doc = notebook'[t])
    <3>1. Clean(r) => Holds(p, req[r].read)
      BY <1>2, ClientRecord DEF OpenOK
    <3> QED BY <1>3, <1>6, <2>5, <3>1 DEF Holds
  <2> QED BY <1>1, <1>2, <1>3, <1>4, <1>5, <2>2, <2>3, <2>4, <2>5, <2>6, RegistryFrame
<1> QED BY <1>7, <1>8

LEMMA DeleteFileFiles ==
  ASSUME FilesInv, SessionsInv', NEW r \in Requests, NEW ok \in BOOLEAN,
         Ends(r, ok), DeleteFile(r, ok)
  PROVE  FilesInv'
<1>1. TypeInv /\ TypeOK /\ StepOK(r) /\ UNCHANGED raced /\ RacesOK'
  BY StepFacts
<1>2. req[r].op = "delete" /\ req[r].op \in ClientOps /\ req[r].step = "deleting"
  BY DEF DeleteFile, At, ClientOps
<1> PICK p \in Paths : p = req[r].path
  BY <1>2, TouchesFacts
<1>3. p \in Touches(r) /\ r \in Clients /\ (Clean(r) \/ p \in raced)
  BY <1>2, TouchesFacts
<1>4. notebook' = notebook
  BY DEF DeleteFile, vmVars
<1>5. CASE End(r) /\ UNCHANGED <<file, revived, registryVars>>
  BY <1>1, <1>2, <1>4, <1>5, EndedOK, QuietFiles DEF registryVars
<1>6. CASE ~(End(r) /\ UNCHANGED <<file, revived, registryVars>>)
  <2>1. RemoveFile(r)
    BY <1>6 DEF DeleteFile
  <2>2. \A q \in Paths \ {p} : Kept(q)
    BY <1>1, <2>1 DEF RemoveFile, TypeOK, Kept
  <2>3. CASE req[r].session = Nil
    <3>1. End(r) /\ UNCHANGED registryVars
      BY <1>6, <2>3 DEF DeleteFile
    <3>2. Lookup(p) = Nil \/ p \in raced
      BY <1>2, <1>3, <2>3, ClientRecord DEF DeleteOK
    <3> QED BY <1>1, <1>2, <1>3, <1>4, <2>2, <3>1, <3>2, EndedOK, ClientFiles
            DEF registryVars
  <2>4. CASE req[r].session # Nil
    <3> PICK t \in Sessions : t = req[r].session
      BY <1>1, <2>4 DEF TypeOK, RequestRecords
    <3>1. /\ Proceed(r, "unlinking")
          /\ sessions' = sessions \ {t}
          /\ byPath' = [byPath EXCEPT ![path[t]] = Nil]
          /\ path' = path
      BY <1>6, <2>4 DEF DeleteFile
    <3>2. /\ req'[r].op = "delete" /\ req'[r].step = "unlinking"
          /\ req'[r].path = p /\ req'[r].target = req[r].target
      BY <1>1, <1>2, <3>1, ProceedRecord
    <3>3. ClientOK(r)' /\ ReloadOK(r)'
      BY <1>3, <3>2
      DEF ClientOK, CleanOK, OpenOK, DeleteOK, MoveOK, BoundOK, ReloadOK, Reloads
    <3>4. path[t] \in raced \/ path[t] = p
      <4>1. CASE ~Clean(r)
        BY <1>2, <2>4, <4>1, TouchesFacts DEF BoundOK
      <4>2. CASE Clean(r)
        <5>1. t = Lookup(p)
          BY <1>2, <4>2, ClientRecord DEF DeleteOK
        <5> QED BY <2>4, <5>1, FoundFacts
      <4> QED BY <4>1, <4>2
    <3>5. ASSUME NEW q \in Paths, q \notin raced, q # p
          PROVE  Kept(q) /\ byPath'[q] = byPath[q] /\ Lookup(q)' = Lookup(q)
      <4>1. byPath'[q] = byPath[q]
        BY <1>1, <3>1, <3>4, <3>5 DEF TypeOK
      <4>2. byPath[q] # t
        BY <2>4, <3>4, <3>5 DEF FilesInv, SessionsInv, IndexOK
      <4> QED BY <2>2, <3>1, <3>5, <4>1, <4>2 DEF Lookup
    <3>6. ASSUME NEW s \in sessions' \ {t}, path[s] \notin raced
          PROVE  /\ s \in sessions /\ byPath'[path[s]] = s
                 /\ Kept(path[s]) /\ notebook'[s] = notebook[s]
      <4>1. s \in sessions /\ s # t
        BY <3>1
      <4>2. path[s] \in Paths /\ byPath[path[s]] = s /\ Lookup(path[s]) = s /\ s # Nil
        BY <3>6, <4>1, OwnerFacts
      <4>3. path[s] # p
        <5>1. CASE p \in raced
          BY <3>6, <5>1
        <5>2. CASE Clean(r)
          <6>1. t = Lookup(p)
            BY <1>2, <5>2, ClientRecord DEF DeleteOK
          <6> QED BY <4>1, <4>2, <6>1
        <5> QED BY <1>3, <5>1, <5>2
      <4> QED BY <1>4, <3>5, <3>6, <4>1, <4>2, <4>3
    <3>7. t \notin sessions' /\ path' = path
      BY <3>1
    <3> QED BY <1>1, <1>2, <1>3, <3>3, <3>5, <3>6, <3>7, RegistryFrame
  <2> QED BY <2>3, <2>4
<1> QED BY <1>5, <1>6

LEMMA RebindFiles ==
  ASSUME FilesInv, SessionsInv', NEW r \in Requests, NEW ok \in BOOLEAN,
         Ends(r, ok), Rebind(r)
  PROVE  FilesInv'
<1>1. /\ TypeInv /\ TypeOK /\ StepOK(r) /\ UNCHANGED raced /\ RacesOK'
      /\ End(r)
  BY StepFacts DEF Rebind
<1>2. req[r].op = "move" /\ req[r].op \in ClientOps /\ req[r].step = "rebinding"
  BY DEF Rebind, At, ClientOps
<1> PICK p \in Paths, q \in Paths : p = req[r].path /\ q = req[r].target
  BY <1>2, TouchesFacts
<1> PICK t \in Sessions : t = req[r].session
  BY <1>1, <1>2 DEF TypeInv, ShapeOK, Shaped
<1>3. t # Nil /\ path[t] \in Paths
  BY <1>1, <1>2, NilAssumption DEF TypeInv, ShapeOK, Shaped
<1>4. p \in Touches(r) /\ q \in Touches(r)
  BY <1>2, TouchesFacts
<1>5. /\ byPath' = [byPath EXCEPT ![path[t]] = Nil, ![q] = t]
      /\ path' = [path EXCEPT ![t] = q]
      /\ notebook' = [notebook EXCEPT ![t] = req[r].read.doc]
      /\ UNCHANGED <<sessions, file, revived>>
  BY DEF Rebind, diskVars
<1>6. ClientOK(r)' /\ ReloadOK(r)'
  BY <1>1, EndedOK
<1>7. \/ path[t] \in raced /\ q \in raced
      \/ /\ path[t] = p /\ byPath[p] = t /\ Lookup(q) = Nil /\ t \in sessions
         /\ p \notin raced /\ q \notin raced /\ Holds(q, req[r].read)
  <2>1. CASE ~Clean(r)
    BY <1>2, <1>3, <1>4, <2>1, TouchesFacts DEF BoundOK
  <2>2. CASE Clean(r)
    <3>1. t = Lookup(p) /\ Lookup(q) = Nil /\ Holds(q, req[r].read)
      BY <1>2, <2>2, ClientRecord DEF MoveOK
    <3>2. path[t] = p /\ byPath[p] = t /\ t \in sessions
      BY <1>3, <3>1, FoundFacts
    <3> QED BY <1>4, <2>2, <3>1, <3>2 DEF Clean
  <2> QED BY <2>1, <2>2
<1>8. byPath'[q] = t /\ path'[t] = q /\ notebook'[t] = req[r].read.doc
  BY <1>1, <1>5 DEF TypeOK
<1>9. \A s \in Sessions \ {t} : path'[s] = path[s] /\ notebook'[s] = notebook[s]
  BY <1>1, <1>5 DEF TypeOK
<1>10. ASSUME NEW x \in Paths, x # q, x # path[t] PROVE byPath'[x] = byPath[x]
  BY <1>1, <1>5, <1>10 DEF TypeOK
<1>11. \A x : Kept(x)
  BY <1>5 DEF Kept
<1>12. ASSUME NEW x \in Paths \ (Touches(r) \union raced)
       PROVE  Kept(x) /\ Lookup(x)' = Lookup(x)
  <2>1. x # q /\ x # path[t]
    BY <1>4, <1>7
  <2>2. byPath'[x] = byPath[x]
    BY <1>10, <1>12, <2>1
  <2>3. sessions' = sessions
    BY <1>5
  <2>4. Lookup(x)' = Lookup(x)
    BY <2>2, <2>3 DEF Lookup
  <2> QED BY <1>11, <2>4
<1>13. ASSUME NEW s \in sessions' \ {t}, path[s] \notin raced
       PROVE  /\ s \in sessions /\ byPath'[path[s]] = s
              /\ Kept(path[s]) /\ notebook'[s] = notebook[s]
              /\ req[r].step = "rebinding" => req[r].session # s
  <2>1. s \in sessions /\ s # t
    BY <1>5
  <2>2. /\ s \in Sessions /\ path[s] \in Paths /\ byPath[path[s]] = s
        /\ Lookup(path[s]) = s /\ s # Nil
    BY <1>13, <2>1, OwnerFacts
  <2>3. path[s] # q /\ path[s] # path[t]
    BY <1>7, <1>13, <2>1, <2>2
  <2> QED BY <1>9, <1>10, <1>11, <2>1, <2>2, <2>3
<1>14. q \notin raced =>
         file'[q] # Nil /\ (q \in revived' \/ file'[q].doc = notebook'[t])
  BY <1>5, <1>7, <1>8 DEF Holds
<1>15. \A x \in Requests \ {r} : req[x].session = t => ~Reloads(x)
  BY <1>2, ReloadAlone DEF Waits, At
<1> QED BY <1>1, <1>2, <1>6, <1>7, <1>8, <1>9, <1>12, <1>13, <1>14, <1>15,
           RegistryFrame

LEMMA SameFiles ==
  ASSUME FilesInv, SessionsInv',
         UNCHANGED <<sessions, byPath, path, file, revived, notebook, req, raced>>
  PROVE  FilesInv'
<1>1. SessionOwnsItsFile' /\ DocumentAgrees'
  BY DEF FilesInv, SessionOwnsItsFile, DocumentAgrees, At
<1>2. ASSUME NEW x \in Requests PROVE ClientOK(x)' /\ ReloadOK(x)'
  <2>1. ClientOK(x) /\ ReloadOK(x)
    BY DEF FilesInv
  <2>2. ClientOK(x)'
    <3>1. /\ Clean(x)' <=> Clean(x)
          /\ BoundOK(req[x])' <=> BoundOK(req[x])
      BY DEF Clean, Touches, BoundOK
    <3>2. CleanOK(req[x]) => CleanOK(req[x])'
      BY DEF CleanOK, OpenOK, DeleteOK, MoveOK, Lookup, Vacant, Holds
    <3> QED BY <2>1, <3>1, <3>2 DEF ClientOK
  <2>3. ReloadOK(x)'
    BY <2>1 DEF ReloadOK, Reloads
  <2> QED BY <2>2, <2>3
<1>3. RacesOK'
  BY DEF FilesInv, RacesOK, Touches
<1> QED BY <1>1, <1>2, <1>3 DEF FilesInv

LEMMA CrashFiles ==
  ASSUME FilesInv, SessionsInv', Crash
  PROVE  FilesInv'
<1>1. sessions' = {} /\ \A x \in Requests : req'[x] = NoRequest
  BY DEF Crash
<1>2. SessionOwnsItsFile' /\ DocumentAgrees'
  BY <1>1 DEF SessionOwnsItsFile, DocumentAgrees
<1>3. \A x \in Requests : ClientOK(x)' /\ ReloadOK(x)'
  BY <1>1, NoRequestFacts DEF ClientOK, ClientOps, ReloadOK, Reloads
<1>4. RacesOK'
  BY <1>1 DEF RacesOK, Touches, NoRequest, Requests
<1> QED BY <1>2, <1>3, <1>4 DEF FilesInv

\* Each step keeps the sessions and the files together.
LEMMA NextFiles ==
  ASSUME FilesInv, Next
  PROVE  FilesInv'
<1>1. SessionsInv'
  BY NextSessions DEF FilesInv
<1>2. ASSUME NEW r \in Requests, NEW ok \in BOOLEAN, Ends(r, ok) PROVE FilesInv'
  <2>1. CASE CreateWrite(r, ok) \/ OpenRead(r, ok) \/ Bind(r)
    BY <1>1, <1>2, <2>1, OpeningFiles
  <2>2. CASE Register(r, ok)
    BY <1>1, <1>2, <2>2, RegisterFiles
  <2>3. CASE DeleteFile(r, ok)
    BY <1>1, <1>2, <2>3, DeleteFileFiles
  <2>4. CASE MoveRead(r, ok)
    BY <1>1, <1>2, <2>4, MoveReadFiles
  <2>5. CASE MoveCopy(r, ok)
    BY <1>1, <1>2, <2>5, MoveCopyFiles
  <2>6. CASE MoveRemove(r, ok)
    BY <1>1, <1>2, <2>6, MoveRemoveFiles
  <2>7. CASE MoveUndo(r, ok) \/ Unlink(r, ok)
    BY <1>1, <1>2, <2>7, MoveUndoFiles
  <2>8. CASE Rebind(r)
    BY <1>1, <1>2, <2>8, RebindFiles
  <2>9. CASE EvalSaved(r, ok) \/ EditRun(r, ok) \/ PersistRead(r) \/ PersistLoad(r)
    BY <1>1, <1>2, <2>9, WorkFiles
  <2>10. CASE PersistWrite(r, ok)
    BY <1>1, <1>2, <2>10, PersistWriteFiles
  <2>11. CASE Reread(r) \/ Hydrate(r, ok)
    BY <1>1, <1>2, <2>11, RereadFiles
  <2> QED BY <1>2, <2>1, <2>2, <2>3, <2>4, <2>5, <2>6, <2>7, <2>8, <2>9, <2>10,
             <2>11 DEF Ends
<1>3. ASSUME NEW r \in Requests, NEW ok \in BOOLEAN, UserCode(r, ok)
      PROVE  FilesInv'
  BY <1>1, <1>3, WorkFiles, SwapFiles DEF UserCode
<1>4. ASSUME NEW s \in Sessions, NEW v \in Vms, NEW ok \in BOOLEAN,
         Flush(s, v, ok) PROVE FilesInv'
  BY <1>1, <1>4, SameFiles DEF Flush, registryVars
<1>5. CASE Crash
  BY <1>1, <1>5, CrashFiles
<1>6. CASE \E r \in Clients, p \in Paths :
             \/ Create(r, p) \/ Open(r, p) \/ Delete(r, p)
             \/ \E q \in Paths : Move(r, p, q)
  BY <1>1, <1>6, ClientBegins
<1>7. CASE \E r \in Users, s \in Sessions :
             \/ Restart(r, s) \/ Reload(r, s)
             \/ \E d \in Docs : Save(r, s, d)
             \/ \E c \in Cells : Evaluate(r, s, c) \/ Edit(r, s, c)
  BY <1>1, <1>7, UserBegins
<1> QED BY <1>2, <1>3, <1>4, <1>5, <1>6, <1>7 DEF Next

LEMMA FilesInvariant == Spec => []FilesInv
<1>1. Init => FilesInv
  <2> SUFFICES ASSUME Init PROVE FilesInv
    OBVIOUS
  <2>1. SessionsInv
    BY InitSessions
  <2>2. sessions = {} /\ \A x \in Requests : req[x] = NoRequest
    BY DEF Init
  <2>3. RacesOK
    BY <2>2 DEF RacesOK, Touches, NoRequest, Requests
  <2> QED BY <2>1, <2>2, <2>3, NoRequestFacts
          DEF FilesInv, SessionOwnsItsFile, DocumentAgrees, ClientOK, ClientOps,
              ReloadOK, Reloads
<1>2. FilesInv /\ [Next]_vars => FilesInv'
  <2>1. FilesInv /\ UNCHANGED vars => FilesInv'
    BY StutterSessions, SameFiles DEF FilesInv, vars, registryVars, diskVars, vmVars
  <2> QED BY <2>1, NextFiles
<1> QED BY <1>1, <1>2, PTL DEF Spec

\* Each session owns its file and holds its document, for any number of requests
\* that create, open, move, delete, save, evaluate and reload meanwhile, although any
\* file operation may fail: only on a path that requests of two clients worked on at
\* a time may they come apart.
THEOREM SessionsAndFilesAgree == Spec => []FilesAgree
<1>1. FilesInv => FilesAgree
  BY DEF FilesInv, FilesAgree
<1> QED BY <1>1, FilesInvariant, PTL

\* Only deleting and moving remove a notebook file.
LEMMA RemovedBy ==
  ASSUME SessionsInv, Next, NEW p \in Paths, file[p] # Nil, file'[p] = Nil
  PROVE  \E r \in Requests, ok \in BOOLEAN :
           DeleteFile(r, ok) \/ MoveRemove(r, ok) \/ MoveUndo(r, ok)
<1>1. TypeInv /\ TypeOK
  BY DEF SessionsInv, TypeInv
<1>2. file' # file
  OBVIOUS
<1>3. ASSUME NEW q, NEW contents \in Contents,
             file' = [file EXCEPT ![q] = contents]
      PROVE  FALSE
  BY <1>1, <1>3, NilAssumption DEF TypeOK
<1>4. ASSUME NEW r \in Requests, NEW ok \in BOOLEAN, Ends(r, ok)
      PROVE  DeleteFile(r, ok) \/ MoveRemove(r, ok) \/ MoveUndo(r, ok)
  <2>1. Shaped(req[r])
    BY <1>1 DEF TypeInv, ShapeOK
  <2>2. ~CreateWrite(r, ok)
    <3>1. [doc |-> NewDoc, cells |-> {}] \in Contents
      BY NewDocAssumption DEF Contents
    <3> QED BY <1>2, <1>3, <3>1 DEF CreateWrite
  <2>3. ~MoveCopy(r, ok)
    BY <1>2, <1>3, <2>1 DEF MoveCopy, At, Shaped
  <2>4. ~PersistWrite(r, ok)
    BY <1>2, <1>3, <2>1 DEF PersistWrite, Written, At, Shaped
  <2> QED BY <1>2, <1>4, <2>2, <2>3, <2>4
          DEF Ends, OpenRead, Bind, Register, Unlink, MoveRead, Rebind, EvalSaved,
              EditRun, PersistRead, PersistLoad, Reread, Hydrate, diskVars
<1>5. ASSUME NEW r \in Requests, NEW ok \in BOOLEAN, UserCode(r, ok) PROVE FALSE
  BY <1>2, <1>5 DEF UserCode, EvalRun, Swap, diskVars
<1>6. ASSUME NEW s \in Sessions, NEW v \in Vms, NEW ok \in BOOLEAN,
         Flush(s, v, ok) PROVE FALSE
  BY <1>2, <1>6 DEF Flush
<1>7. ~Crash
  BY <1>2 DEF Crash, diskVars
<1>8. ASSUME NEW x \in Clients, NEW q \in Paths,
             \/ Create(x, q) \/ Open(x, q) \/ Delete(x, q)
             \/ \E t \in Paths : Move(x, q, t)
      PROVE  FALSE
  BY <1>2, <1>8 DEF Create, Open, Delete, Move, diskVars
<1>9. ASSUME NEW x \in Users, NEW s \in Sessions,
             \/ Restart(x, s) \/ Reload(x, s)
             \/ \E d \in Docs : Save(x, s, d)
             \/ \E c \in Cells : Evaluate(x, s, c) \/ Edit(x, s, c)
      PROVE  FALSE
  BY <1>2, <1>9 DEF Restart, Reload, Save, Evaluate, Edit, Ask, diskVars
<1> QED BY <1>4, <1>5, <1>6, <1>7, <1>8, <1>9 DEF Next

\* A file that a step removes was deleted or is elsewhere.
LEMMA RemovedIsSafe ==
  ASSUME FilesInv, Next, NEW p \in Paths \ raced, file[p] # Nil, file'[p] = Nil,
         revived \subseteq raced
  PROVE  \/ \E r \in Clients : At(r, {"delete"}, "deleting") /\ req[r].path = p
         \/ \E q \in Paths : file'[q] = file[p]
<1> PICK r \in Requests, ok \in BOOLEAN :
      DeleteFile(r, ok) \/ MoveRemove(r, ok) \/ MoveUndo(r, ok)
  BY RemovedBy DEF FilesInv
<1>1. CASE DeleteFile(r, ok)
  <2>1. r \in Clients /\ TypeOK
    BY <1>1, TouchesFacts DEF DeleteFile, At, ClientOps
  <2>2. req[r].path = p
    BY <1>1, <2>1 DEF DeleteFile, RemoveFile, TypeOK
  <2> QED BY <1>1, <2>1, <2>2 DEF DeleteFile
<1>2. CASE MoveRemove(r, ok) \/ MoveUndo(r, ok)
  <2>1. req[r].op = "move" /\ req[r].step \in {"removing", "undoing"}
    BY <1>2 DEF MoveRemove, MoveUndo, At
  <2>2. \/ file' = [file EXCEPT ![req[r].path] = Nil]
        \/ file' = [file EXCEPT ![req[r].target] = Nil]
    BY <1>2 DEF MoveRemove, RemoveFile, MoveUndo
  <2>3. TypeOK /\ p \in Touches(r)
    BY <2>1, <2>2, TouchesFacts DEF ClientOps, TypeOK
  <2>4. Clean(r)
    BY <2>1, <2>3, TouchesFacts DEF ClientOps
  <2>5. /\ req[r].path \in Paths \ raced /\ req[r].target \in Paths \ raced
        /\ req[r].path # req[r].target
        /\ Holds(req[r].path, req[r].read) /\ Holds(req[r].target, req[r].read)
    BY <2>1, <2>4, ClientRecord DEF ClientOps, MoveOK, Clean
  <2>6. file[req[r].path] = req[r].read /\ file[req[r].target] = req[r].read
    BY <2>5 DEF Holds
  <2> QED BY <2>2, <2>3, <2>5, <2>6 DEF TypeOK
<1> QED BY <1>1, <1>2

\* A notebook leaves its path only with its contents or when it is deleted, and
\* none is written over, wherever a file operation fails or the process ends: but
\* for the paths that requests of two clients worked on at a time, and for what a
\* deleted session writes.
THEOREM NotebooksAreKept == Spec => NotebooksSurvive
<1>1. FilesInv /\ [Next]_vars =>
        [\A p \in Paths \ raced :
           file[p] # Nil /\ file'[p] = Nil /\ revived \subseteq raced =>
             \/ \E r \in Clients : At(r, {"delete"}, "deleting") /\ req[r].path = p
             \/ \E q \in Paths : file'[q] = file[p]]_vars
  BY RemovedIsSafe
<1>2. FilesInv =>
        \A r \in Clients :
          /\ At(r, {"create"}, "creating") =>
               file[req[r].path] = Nil \/ req[r].path \in revived \union raced
          /\ At(r, {"move"}, "copying") =>
               file[req[r].target] = Nil \/ req[r].target \in revived \union raced
  <2> SUFFICES ASSUME FilesInv, NEW r \in Clients, req[r].op \in ClientOps
               PROVE  /\ At(r, {"create"}, "creating") =>
                           \/ file[req[r].path] = Nil
                           \/ req[r].path \in revived \union raced
                      /\ At(r, {"move"}, "copying") =>
                           \/ file[req[r].target] = Nil
                           \/ req[r].target \in revived \union raced
    BY DEF At, ClientOps
  <2>1. CASE Clean(r)
    <3>1. OpenOK(req[r]) /\ MoveOK(req[r])
      BY <2>1, ClientRecord DEF Requests
    <3> QED BY <3>1 DEF OpenOK, MoveOK, Vacant, At
  <2>2. CASE ~Clean(r)
    BY <2>2, TouchesFacts DEF Requests, At
  <2> QED BY <2>1, <2>2
<1>3. FilesInv /\ [Next]_vars =>
        [\A r \in Clients :
           /\ At(r, {"create"}, "creating") /\ req'[r].step = "binding" =>
                file[req[r].path] = Nil \/ req[r].path \in revived \union raced
           /\ At(r, {"move"}, "copying") /\ req'[r].step = "removing" =>
                file[req[r].target] = Nil \/ req[r].target \in revived \union raced]_vars
  BY <1>2
<1> QED BY <1>1, <1>3, FilesInvariant, PTL
        DEF Spec, NotebooksSurvive, NothingIsLost, NoNotebookIsReplaced

=============================================================================
