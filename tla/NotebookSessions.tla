-------------------------- MODULE NotebookSessions --------------------------
(***************************************************************************)
(* The registry of notebook sessions (VmServerSessions in                  *)
(* src/vm/server/sessions.ts): which VM session serves which notebook      *)
(* file, and what is saved where.  A notebook file holds a document and    *)
(* the cells its VM has run; a session keeps the document and the VM in    *)
(* memory, and the VM's cells in a snapshot file of its own.               *)
(*                                                                         *)
(* A request is a record that remembers at which await its handler is      *)
(* suspended (step) and what the handler has read so far (read, doc).      *)
(* Each action is one turn of the event loop, up to the next await.        *)
(*                                                                         *)
(* A session is identified with its VM code.  Cells stands for whatever    *)
(* the VM snapshot accumulates: evaluated cells and files of the VM.  A    *)
(* restart gives the session a new VM, whose writes of the snapshot file   *)
(* are not ordered with those the replaced VM has not finished.            *)
(***************************************************************************)
EXTENDS Naturals, FiniteSets, Sequences

CONSTANTS Paths,    \* paths of notebook files
          Sessions, \* VM codes, with the session object of each
          Clients,  \* requests that create, open, move and delete notebooks
          Users,    \* requests that work on an open notebook
          Docs,     \* notebook documents
          NewDoc,   \* createDefaultIsbNotebook
          Cells,    \* contributions to a VM snapshot
          Vms,      \* VM objects of a session; bound: those with unfinished
                    \* writes, the one in use included
          MaxPending, \* bound: unfinished snapshot writes of one VM
          Nil       \* undefined, null and the missing file

\* What a notebook file holds.
Contents == [doc : Docs, cells : SUBSET Cells]

ASSUME NewDocAssumption == NewDoc \in Docs
ASSUME NilAssumption ==
  /\ Nil \notin Paths \union Sessions \union Docs \union Cells
  /\ \A cells \in SUBSET Cells : Nil # cells
  /\ \A contents \in Contents : Nil # contents
ASSUME VmsAssumption == Vms # {}
ASSUME MaxPendingAssumption == MaxPending \in Nat
ASSUME RequestsAssumption == Clients \intersect Users = {}

VARIABLES
  file,      \* notebook files, Nil when missing
  snapshot,  \* snapshot file of each session, Nil when missing
  sessions,  \* keys of the sessions map
  byPath,    \* sessionCodesByPath
  path,      \* session.relativePath
  notebook,  \* session.notebook
  vm,        \* cells in the memory of session.vm
  current,   \* which VM object session.vm is
  pending,   \* writes of the snapshot each VM has not finished (writeChain)
  saved,     \* the last write of session.vm reached the disk
  chain,     \* session.queue: requests in arrival order, the head runs
  req,       \* the suspended handler of each request
  revived,   \* history: files last written by a session that was disposed of
  intruded,  \* history: sessions whose snapshot file was last written by a VM
             \* that had been replaced
  raced      \* history: paths that two clients' requests worked on at a time

registryVars == <<sessions, byPath, path>>
fileVars == <<file, revived>>
snapshotVars == <<snapshot, intruded>>
diskVars == <<fileVars, snapshotVars>>
writeVars == <<current, pending, saved>>
vmVars == <<notebook, vm, writeVars>>
vars == <<registryVars, diskVars, vmVars, chain, req, raced>>

Requests == Clients \union Users
NoRequest == [op |-> "none", step |-> "idle", path |-> Nil, target |-> Nil,
              session |-> Nil, doc |-> Nil, cell |-> Nil, read |-> Nil]

\* A started server: any notebook files on disk, no session.
Init ==
  /\ file \in [Paths -> {Nil} \union [doc : Docs, cells : {{}}]]
  /\ snapshot = [s \in Sessions |-> Nil]
  /\ sessions = {}
  /\ byPath = [p \in Paths |-> Nil]
  /\ path = [s \in Sessions |-> Nil]
  /\ notebook = [s \in Sessions |-> NewDoc]
  /\ vm = [s \in Sessions |-> {}]
  /\ current = [s \in Sessions |-> CHOOSE v \in Vms : TRUE]
  /\ pending = [s \in Sessions |-> [v \in Vms |-> <<>>]]
  /\ saved = [s \in Sessions |-> TRUE]
  /\ chain = [s \in Sessions |-> <<>>]
  /\ req = [r \in Requests |-> NoRequest]
  /\ revived = {}
  /\ intruded = {}
  /\ raced = {}

-----------------------------------------------------------------------------
(* Helpers of the handlers. *)

\* getSessionByPath
Lookup(p) == IF byPath[p] \in sessions THEN byPath[p] ELSE Nil

\* The handler of r starts; if it works on session s it joins the session's
\* chain of promises (runExclusive).
Begin(r, s, request) ==
  /\ req[r].step = "idle"
  /\ req' = [req EXCEPT ![r] = request]
  /\ chain' = IF s = Nil THEN chain ELSE [chain EXCEPT ![s] = Append(@, r)]

\* A client's request starts on the paths ps.  Nothing keeps two clients apart: the
\* paths of requests that meet are raced, and so are those of a later request that
\* works on a raced path.
Touches(r) == {req[r].path, req[r].target} \ {Nil}
Meeting(ps) == {x \in Clients : Touches(x) \intersect ps # {}}
Races(ps) ==
  raced' = IF Meeting(ps) = {} /\ ps \intersect raced = {} THEN raced
           ELSE raced \union ps \union UNION {Touches(x) : x \in Meeting(ps)}

At(r, op, step) == req[r].op \in op /\ req[r].step = step

\* runExclusive: r is not bound to a session, or its turn has come.
\* (AnyTurn: it does not wait for the requests ahead of it.)
AnyTurn(r) == TRUE
MyTurn(r) ==
  LET s == req[r].session
  IN IF s = Nil THEN TRUE ELSE chain[s] # <<>> /\ Head(chain[s]) = r

Proceed(r, step) == req' = [req EXCEPT ![r].step = step] /\ UNCHANGED chain

\* The handler returns or throws: either way the next one of the chain may run.
\* (Stuck: a rejected link of the chain is not caught.)
Stuck(r) == req' = [req EXCEPT ![r] = NoRequest] /\ UNCHANGED chain
End(r) ==
  /\ req' = [req EXCEPT ![r] = NoRequest]
  /\ chain' = [s \in Sessions |->
                 IF chain[s] # <<>> /\ Head(chain[s]) = r THEN Tail(chain[s])
                 ELSE chain[s]]

\* loadRecoverableVmSnapshot: a missing file is an empty snapshot.
Loaded(s) == IF snapshot[s] = Nil THEN {} ELSE snapshot[s]

\* allocateUniqueCode draws a code that no session and no snapshot file has.  The
\* name of a session nothing refers to any more stands for such a fresh code: a
\* snapshot file that was left behind is out of the registry's reach.
Unused(s) ==
  /\ s \notin sessions
  /\ \A v \in Vms : pending[s][v] = <<>>
  /\ \A p \in Paths : byPath[p] # s
  /\ \A r \in Requests : req[r].session # s

-----------------------------------------------------------------------------
(* createFileSession and openFileSession. *)

Create(r, p) ==
  /\ Lookup(p) = Nil
  /\ file[p] = Nil
  /\ Begin(r, Nil, [NoRequest EXCEPT !.op = "create", !.step = "creating",
                                     !.path = p])
  /\ Races({p})
  /\ UNCHANGED <<registryVars, diskVars, vmVars>>

\* writeIsbFile: a temporary file is renamed over whatever is there.
CreateWrite(r, ok) ==
  /\ At(r, {"create"}, "creating")
  /\ LET empty == [doc |-> NewDoc, cells |-> {}]
         p == req[r].path
     IN IF ok
          THEN /\ file' = [file EXCEPT ![p] = empty]
               /\ revived' = revived \ {p}
               /\ req' = [req EXCEPT ![r].step = "binding", ![r].read = empty]
               /\ UNCHANGED chain
          ELSE End(r) /\ UNCHANGED fileVars
  /\ UNCHANGED <<registryVars, snapshotVars, vmVars>>

Open(r, p) ==
  /\ Lookup(p) = Nil
  /\ Begin(r, Nil, [NoRequest EXCEPT !.op = "open", !.step = "opening",
                                     !.path = p])
  /\ Races({p})
  /\ UNCHANGED <<registryVars, diskVars, vmVars>>

OpenRead(r, ok) ==
  /\ At(r, {"open"}, "opening")
  /\ IF ok /\ file[req[r].path] # Nil
       THEN /\ req' = [req EXCEPT ![r].step = "binding",
                                  ![r].read = file[req[r].path]]
            /\ UNCHANGED chain
       ELSE End(r)
  /\ UNCHANGED <<registryVars, diskVars, vmVars>>

\* instantiateFileSession: unless the path has a session by now, a new one gets
\* a code and its snapshot file.
Allocate(r) ==
  \E s \in Sessions :
    /\ Unused(s)
    /\ snapshot' = [snapshot EXCEPT ![s] = req[r].read.cells]
    /\ intruded' = intruded \ {s}
    /\ req' = [req EXCEPT ![r].step = "registering", ![r].session = s]
    /\ UNCHANGED chain
Bind(r) ==
  /\ At(r, {"create", "open"}, "binding")
  /\ IF Lookup(req[r].path) # Nil THEN End(r) /\ UNCHANGED snapshotVars
     ELSE Allocate(r)
  /\ UNCHANGED <<registryVars, fileVars, vmVars>>

\* vm.prepare and registerSession, unless the snapshot cannot be saved.
Register(r, ok) ==
  /\ At(r, {"create", "open"}, "registering")
  /\ LET s == req[r].session
         p == req[r].path
     IN IF ok
          THEN /\ sessions' = sessions \union {s}
               /\ byPath' = [byPath EXCEPT ![p] = s]
               /\ path' = [path EXCEPT ![s] = p]
               /\ notebook' = [notebook EXCEPT ![s] = req[r].read.doc]
               /\ vm' = [vm EXCEPT ![s] = Loaded(s)]
               /\ UNCHANGED snapshot
          ELSE /\ snapshot' = [snapshot EXCEPT ![s] = Nil]
               /\ UNCHANGED <<registryVars, notebook, vm>>
  /\ End(r)
  /\ UNCHANGED <<fileVars, intruded, writeVars>>

-----------------------------------------------------------------------------
(* deleteFile *)

Delete(r, p) ==
  /\ file[p] # Nil
  /\ Begin(r, Lookup(p), [NoRequest EXCEPT !.op = "delete", !.path = p,
                            !.step = "deleting", !.session = Lookup(p)])
  /\ Races({p})
  /\ UNCHANGED <<registryVars, diskVars, vmVars>>

\* deleteIsbFile, and the synchronous half of disposeSession.
RemoveFile(r) ==
  /\ file' = [file EXCEPT ![req[r].path] = Nil]
  /\ revived' = revived \ {req[r].path}
DeleteFile(r, ok) ==
  LET s == req[r].session
  IN /\ At(r, {"delete"}, "deleting")
     /\ MyTurn(r)
     /\ IF ~(ok /\ file[req[r].path] # Nil)
          THEN End(r) /\ UNCHANGED <<fileVars, registryVars>>
          ELSE /\ RemoveFile(r)
               /\ IF s = Nil
                    THEN End(r) /\ UNCHANGED registryVars
                    ELSE /\ Proceed(r, "unlinking")
                         /\ sessions' = sessions \ {s}
                         /\ byPath' = [byPath EXCEPT ![path[s]] = Nil]
                         /\ UNCHANGED path
     /\ UNCHANGED <<snapshotVars, vmVars>>

\* disposeSession ends by removing the snapshot file and ignores a failure.
Unlink(r, removed) ==
  /\ At(r, {"delete"}, "unlinking")
  /\ snapshot' = IF removed THEN [snapshot EXCEPT ![req[r].session] = Nil]
                 ELSE snapshot
  /\ End(r)
  /\ UNCHANGED <<registryVars, fileVars, intruded, vmVars>>

-----------------------------------------------------------------------------
(* moveFile *)

Move(r, p, q) ==
  /\ p # q
  /\ file[p] # Nil /\ file[q] = Nil /\ Lookup(q) = Nil
  /\ Begin(r, Lookup(p), [NoRequest EXCEPT !.op = "move", !.step = "moving",
                            !.path = p, !.target = q, !.session = Lookup(p)])
  /\ Races({p, q})
  /\ UNCHANGED <<registryVars, diskVars, vmVars>>

\* moveIsbFile reads the file, ...  (MoveAtOnce: without waiting for the session.)
MoveAtOnce(r, ok) ==
  /\ At(r, {"move"}, "moving")
  /\ ok /\ file[req[r].path] # Nil
  /\ req' = [req EXCEPT ![r].step = "copying", ![r].read = file[req[r].path]]
  /\ UNCHANGED <<registryVars, diskVars, vmVars, chain>>
MoveRead(r, ok) ==
  /\ At(r, {"move"}, "moving")
  /\ MyTurn(r)
  /\ IF ok /\ file[req[r].path] # Nil
       THEN /\ req' = [req EXCEPT ![r].step = "copying",
                                  ![r].read = file[req[r].path]]
            /\ UNCHANGED chain
       ELSE End(r)
  /\ UNCHANGED <<registryVars, diskVars, vmVars>>

\* ... writes it under its new path, ...
MoveCopy(r, ok) ==
  /\ At(r, {"move"}, "copying")
  /\ IF ok THEN /\ file' = [file EXCEPT ![req[r].target] = req[r].read]
                /\ revived' = revived \ {req[r].target}
                /\ Proceed(r, "removing")
     ELSE End(r) /\ UNCHANGED fileVars
  /\ UNCHANGED <<registryVars, snapshotVars, vmVars>>

\* ... deletes the old file ...
MoveRemove(r, ok) ==
  /\ At(r, {"move"}, "removing")
  /\ IF ok /\ file[req[r].path] # Nil
       THEN /\ RemoveFile(r)
            /\ IF req[r].session = Nil THEN End(r) ELSE Proceed(r, "rebinding")
       ELSE Proceed(r, "undoing") /\ UNCHANGED fileVars
  /\ UNCHANGED <<registryVars, snapshotVars, vmVars>>

\* ... or, when that fails, the new one.
MoveUndo(r, ok) ==
  /\ At(r, {"move"}, "undoing")
  /\ IF ok THEN /\ file' = [file EXCEPT ![req[r].target] = Nil]
                /\ revived' = revived \ {req[r].target}
     ELSE UNCHANGED fileVars
  /\ End(r)
  /\ UNCHANGED <<registryVars, snapshotVars, vmVars>>

\* rebindSessionPath.  (KeepsOldPath: the old key is not deleted.)
KeepsOldPath(r) ==
  LET s == req[r].session
  IN /\ At(r, {"move"}, "rebinding")
     /\ byPath' = [byPath EXCEPT ![req[r].target] = s]
     /\ path' = [path EXCEPT ![s] = req[r].target]
     /\ notebook' = [notebook EXCEPT ![s] = req[r].read.doc]
     /\ End(r)
     /\ UNCHANGED <<sessions, diskVars, vm, writeVars>>
Rebind(r) ==
  LET s == req[r].session
  IN /\ At(r, {"move"}, "rebinding")
     /\ byPath' = [byPath EXCEPT ![path[s]] = Nil, ![req[r].target] = s]
     /\ path' = [path EXCEPT ![s] = req[r].target]
     /\ notebook' = [notebook EXCEPT ![s] = req[r].read.doc]
     /\ End(r)
     /\ UNCHANGED <<sessions, diskVars, vm, writeVars>>

-----------------------------------------------------------------------------
(* Work on an open notebook: saving, evaluating a cell, writing a VM file. *)

Ask(r, s, op, step, doc, cell) ==
  /\ s \in sessions
  /\ Begin(r, s, [NoRequest EXCEPT !.op = op, !.step = step, !.session = s,
                    !.path = path[s], !.doc = doc, !.cell = cell])
  /\ UNCHANGED <<registryVars, diskVars, vmVars, raced>>

\* saveFileSession; the document carries the path its client knows.
Save(r, s, d) == Ask(r, s, "save", "persisting", d, Nil)

\* The execution queue hands over one evaluation at a time.
Evaluate(r, s, c) ==
  /\ \A other \in Requests : req[other].op # "eval"
  /\ Ask(r, s, "eval", "evaluating", Nil, c)

\* writeFsFile, mkdirFsDirectory
Edit(r, s, c) == Ask(r, s, "edit", "editing", Nil, c)

\* persistSnapshot: the VM in use queues a write of what it holds.
Queue(s, cells) ==
  /\ vm' = [vm EXCEPT ![s] = cells]
  /\ pending' = [pending EXCEPT ![s][current[s]] = Append(@, cells)]
  /\ UNCHANGED <<current, saved>>
Room(s) == Len(pending[s][current[s]]) < MaxPending

\* The cell throws, or it has run and the VM saves its snapshot.
EvalRun(r, ok) ==
  LET s == req[r].session
  IN /\ At(r, {"eval"}, "evaluating")
     /\ MyTurn(r)
     /\ Room(s)
     /\ IF ok THEN Queue(s, vm[s] \union {req[r].cell}) /\ Proceed(r, "saving")
        ELSE End(r) /\ UNCHANGED <<vm, writeVars>>
     /\ UNCHANGED <<registryVars, diskVars, notebook>>

\* The evaluation waits for the writes of its own VM, of which its own is the
\* last.  It goes on to persistBoundFileSession, unless that write failed or the
\* task was cancelled.  (EvalGoesOn: the write is not awaited.)
EvalGoesOn(r, ok) ==
  /\ At(r, {"eval"}, "saving")
  /\ ok /\ Proceed(r, "persisting")
  /\ UNCHANGED <<registryVars, diskVars, vmVars>>
EvalSaved(r, ok) ==
  LET s == req[r].session
  IN /\ At(r, {"eval"}, "saving")
     /\ pending[s][current[s]] = <<>>
     /\ ok => saved[s]
     /\ IF ok THEN Proceed(r, "persisting") ELSE End(r)
     /\ UNCHANGED <<registryVars, diskVars, vmVars>>

\* The file system of the VM changes, and nobody waits for its snapshot; a failed
\* operation may have made the parent directory.
EditRun(r, ok) ==
  LET s == req[r].session
  IN /\ At(r, {"edit"}, "editing")
     /\ MyTurn(r)
     /\ Room(s)
     /\ \/ Queue(s, vm[s] \union {req[r].cell})
        \/ ~ok /\ UNCHANGED <<vm, writeVars>>
     /\ IF ok THEN Proceed(r, "persisting") ELSE End(r)
     /\ UNCHANGED <<registryVars, diskVars, notebook>>

\* persistBoundFileSession reads the notebook file, which must exist, ...
PersistRead(r) ==
  /\ At(r, {"save", "eval", "edit"}, "persisting")
  /\ MyTurn(r)
  /\ IF file[path[req[r].session]] = Nil THEN End(r) ELSE Proceed(r, "loading")
  /\ UNCHANGED <<registryVars, diskVars, vmVars>>

\* ... loads the snapshot file, which may be missing, and picks a document.
\* (TakesGiven: the document of the request, although only a save has one.)
TakesGiven(r) ==
  /\ At(r, {"save", "eval", "edit"}, "loading")
  /\ req' = [req EXCEPT ![r].step = "writing",
                        ![r].read = [doc |-> req[r].doc,
                                     cells |-> Loaded(req[r].session)]]
  /\ UNCHANGED <<registryVars, diskVars, vmVars, chain>>
PersistLoad(r) ==
  LET s == req[r].session
      doc == IF req[r].op = "save" THEN req[r].doc ELSE notebook[s]
  IN /\ At(r, {"save", "eval", "edit"}, "loading")
     /\ req' = [req EXCEPT ![r].step = "writing",
                           ![r].read = [doc |-> doc, cells |-> Loaded(s)]]
     /\ UNCHANGED <<registryVars, diskVars, vmVars, chain>>

\* writeIsbFile replaces the file, if the document's path is the session's.
\* (KeepsDocument: session.notebook is not updated.)
Written(r, p, s) ==
  /\ file' = [file EXCEPT ![p] = req[r].read]
  /\ revived' = IF s \in sessions THEN revived \ {p} ELSE revived \union {p}
KeepsDocument(r, ok) ==
  LET s == req[r].session
  IN /\ At(r, {"save", "eval", "edit"}, "writing")
     /\ ok /\ (req[r].op = "save" => req[r].path = path[s])
     /\ Written(r, path[s], s)
     /\ End(r)
     /\ UNCHANGED <<registryVars, snapshotVars, vmVars>>
PersistWrite(r, ok) ==
  LET s == req[r].session
  IN /\ At(r, {"save", "eval", "edit"}, "writing")
     /\ IF ok /\ (req[r].op = "save" => req[r].path = path[s])
          THEN /\ Written(r, path[s], s)
               /\ notebook' = [notebook EXCEPT ![s] = req[r].read.doc]
          ELSE UNCHANGED <<fileVars, notebook>>
     /\ End(r)
     /\ UNCHANGED <<registryVars, snapshotVars, vm, writeVars>>

\* persistSnapshot: the oldest write of one VM's chain reaches the disk, or fails.
\* The VM may have been replaced, or its session disposed of.
Flush(s, v, ok) ==
  /\ pending[s][v] # <<>>
  /\ snapshot' = IF ok THEN [snapshot EXCEPT ![s] = Head(pending[s][v])]
                 ELSE snapshot
  /\ intruded' = IF ~ok THEN intruded
                 ELSE IF v = current[s] THEN intruded \ {s}
                 ELSE intruded \union {s}
  /\ pending' = [pending EXCEPT ![s][v] = Tail(@)]
  /\ saved' = IF v = current[s] THEN [saved EXCEPT ![s] = ok] ELSE saved
  /\ UNCHANGED <<registryVars, fileVars, notebook, vm, current, chain, req, raced>>

-----------------------------------------------------------------------------
(* restartFileSession and reloadFileSession *)

Restart(r, s) == Ask(r, s, "restart", "rereading", Nil, Nil)
Reload(r, s) == Ask(r, s, "reload", "rereading", Nil, Nil)

\* readBoundIsbFile
Reread(r) ==
  LET p == path[req[r].session]
  IN /\ At(r, {"restart", "reload"}, "rereading")
     /\ MyTurn(r)
     /\ IF file[p] = Nil THEN End(r)
        ELSE /\ req' = [req EXCEPT ![r].step = "hydrating", ![r].read = file[p]]
             /\ UNCHANGED chain
     /\ UNCHANGED <<registryVars, diskVars, vmVars>>

\* hydrateFileSession saves the file's snapshot as the session's, ...
Hydrate(r, ok) ==
  /\ At(r, {"restart", "reload"}, "hydrating")
  /\ IF ok THEN /\ snapshot' = [snapshot EXCEPT ![req[r].session] = req[r].read.cells]
                /\ intruded' = intruded \ {req[r].session}
                /\ Proceed(r, "swapping")
     ELSE End(r) /\ UNCHANGED snapshotVars
  /\ UNCHANGED <<registryVars, fileVars, vmVars>>

\* ... and replaces the VM by one that loads it, which may fail in a replay.  The
\* new VM has a write chain of its own; the replaced one is forgotten with its
\* unfinished writes, and a VM without writes stands for a new one.  A restart
\* keeps the session's document, a reload takes the file's.
NewVm(s) ==
  IF pending[s][current[s]] = <<>> THEN UNCHANGED current
  ELSE \E v \in Vms : /\ pending[s][v] = <<>>
                       /\ current' = [current EXCEPT ![s] = v]
Swap(r, ok) ==
  LET s == req[r].session
  IN /\ At(r, {"restart", "reload"}, "swapping")
     /\ IF ok
          THEN /\ NewVm(s)
               /\ vm' = [vm EXCEPT ![s] = Loaded(s)]
               /\ notebook' = IF req[r].op = "restart" THEN notebook
                              ELSE [notebook EXCEPT ![s] = req[r].read.doc]
          ELSE UNCHANGED <<vm, notebook, current>>
     /\ End(r)
     /\ UNCHANGED <<registryVars, diskVars, pending, saved>>

-----------------------------------------------------------------------------
(* The process ends and starts again: only files are left, sessions that were
   running keep their snapshot files but no session is bound to a notebook. *)
Crash ==
  /\ sessions' = {}
  /\ byPath' = [p \in Paths |-> Nil]
  /\ path' = [s \in Sessions |-> Nil]
  /\ notebook' = [s \in Sessions |-> NewDoc]
  /\ vm' = [s \in Sessions |-> {}]
  /\ pending' = [s \in Sessions |-> [v \in Vms |-> <<>>]]
  /\ saved' = [s \in Sessions |-> TRUE]
  /\ chain' = [s \in Sessions |-> <<>>]
  /\ req' = [r \in Requests |-> NoRequest]
  /\ revived' = {} /\ intruded' = {} /\ raced' = {}
  /\ UNCHANGED <<file, snapshot, current>>

Ends(r, ok) ==
  /\ \/ CreateWrite(r, ok) \/ OpenRead(r, ok) \/ Bind(r) \/ Register(r, ok)
     \/ DeleteFile(r, ok) \/ Unlink(r, ok)
     \/ MoveRead(r, ok) \/ MoveCopy(r, ok) \/ MoveRemove(r, ok) \/ MoveUndo(r, ok)
     \/ Rebind(r)
     \/ EvalSaved(r, ok) \/ EditRun(r, ok)
     \/ PersistRead(r) \/ PersistLoad(r) \/ PersistWrite(r, ok)
     \/ Reread(r) \/ Hydrate(r, ok)
  /\ UNCHANGED raced
UserCode(r, ok) == (EvalRun(r, ok) \/ Swap(r, ok)) /\ UNCHANGED raced

Next ==
  \/ \E r \in Clients, p \in Paths :
       \/ Create(r, p) \/ Open(r, p) \/ Delete(r, p)
       \/ \E q \in Paths : Move(r, p, q)
  \/ \E r \in Users, s \in Sessions :
       \/ Restart(r, s) \/ Reload(r, s)
       \/ \E d \in Docs : Save(r, s, d)
       \/ \E c \in Cells : Evaluate(r, s, c) \/ Edit(r, s, c)
  \/ \E r \in Requests, ok \in BOOLEAN : Ends(r, ok) \/ UserCode(r, ok)
  \/ \E s \in Sessions, v \in Vms, ok \in BOOLEAN : Flush(s, v, ok)
  \/ Crash

Spec == Init /\ [][Next]_vars

\* File operations come back and the event loop runs what is ready.  Nothing is
\* assumed of cells and of snapshots that are replayed: they are user code.
Fairness ==
  /\ \A r \in Requests : WF_vars(\E ok \in BOOLEAN : Ends(r, ok))
  /\ \A s \in Sessions, v \in Vms : WF_vars(\E ok \in BOOLEAN : Flush(s, v, ok))

FairSpec == Spec /\ Fairness

-----------------------------------------------------------------------------
(* Properties. *)

Steps == {"idle", "creating", "opening", "binding", "registering", "deleting",
          "unlinking", "moving", "copying", "removing", "undoing", "rebinding",
          "evaluating", "saving", "editing", "persisting", "loading", "writing",
          "rereading", "hydrating", "swapping"}

RequestRecords ==
  [op : {"none", "create", "open", "delete", "move", "save", "eval", "edit",
         "restart", "reload"},
   step : Steps,
   path : Paths \union {Nil},
   target : Paths \union {Nil},
   session : Sessions \union {Nil},
   doc : Docs \union {Nil},
   cell : Cells \union {Nil},
   read : Contents \union {Nil}]

\* Every variable keeps its type.
TypeOK ==
  /\ file \in [Paths -> Contents \union {Nil}]
  /\ snapshot \in [Sessions -> (SUBSET Cells) \union {Nil}]
  /\ sessions \subseteq Sessions
  /\ byPath \in [Paths -> Sessions \union {Nil}]
  /\ path \in [Sessions -> Paths \union {Nil}]
  /\ notebook \in [Sessions -> Docs]
  /\ vm \in [Sessions -> SUBSET Cells]
  /\ current \in [Sessions -> Vms]
  /\ pending \in [Sessions -> [Vms -> Seq(SUBSET Cells)]]
  /\ saved \in [Sessions -> BOOLEAN]
  /\ chain \in [Sessions -> Seq(Requests)]
  /\ req \in [Requests -> RequestRecords]
  /\ revived \subseteq Paths
  /\ intruded \subseteq Sessions
  /\ raced \subseteq Paths

\* The path index never leads to a session that serves another notebook, however
\* opening, moving and deleting interleave (registerSession, rebindSessionPath and
\* disposeSession keep two maps and the session in step).
IndexSound == \A p \in Paths : Lookup(p) # Nil => path[Lookup(p)] = p

\* runExclusive: of the requests of one session at most one is past its turn.
Waits == {"idle", "deleting", "moving", "evaluating", "editing", "rereading"}
Inside(r) ==
  /\ req[r].session # Nil
  /\ req[r].step \notin Waits
  /\ ~At(r, {"save"}, "persisting")
SessionIsExclusive ==
  \A r1, r2 \in Requests :
    Inside(r1) /\ Inside(r2) /\ req[r1].session = req[r2].session => r1 = r2

\* A session owns its notebook: its path leads to it, no other session has that
\* path, and the file exists, but for the moment between the removal of a moved file
\* and the rebinding of its session.  Only a path that requests of two clients
\* worked on at a time may have lost its owner: their handlers look a path up in one
\* turn and register, rebind or write in a later one.
SessionOwnsItsFile ==
  \A s \in sessions : path[s] \notin raced =>
    /\ byPath[path[s]] = s
    /\ \/ file[path[s]] # Nil
       \/ \E r \in Clients : At(r, {"move"}, "rebinding") /\ req[r].session = s

\* No lost update: the document in the file is the one the session would write
\* with the next evaluated cell, unless a deleted session wrote it.
DocumentAgrees ==
  \A s \in sessions :
    file[path[s]] # Nil /\ path[s] \notin revived \union raced =>
      file[path[s]].doc = notebook[s]

\* A session and its notebook belong together, in their path and in their contents.
FilesAgree == SessionOwnsItsFile /\ DocumentAgrees

\* A cell whose evaluation is answered with success is in the notebook file: the
\* snapshot was on disk when persistBoundFileSession copied it.  It may be missing
\* only when a VM that a restart had replaced wrote the snapshot file in between.
AnsweredCellIsSaved ==
  [][\A r \in Users :
       At(r, {"eval"}, "writing") /\ file' # file /\ req'[r].step = "idle" =>
         \/ req[r].cell \in file'[path[req[r].session]].cells
         \/ req[r].session \in intruded]_vars

\* A notebook that disappears from its path was deleted, or is now elsewhere with
\* all that was saved in it: moving loses no update, not even when the process
\* ends in the middle of it.  (Raced paths and what a deleted session writes are not
\* counted.)
NothingIsLost ==
  [][\A p \in Paths \ raced :
       file[p] # Nil /\ file'[p] = Nil /\ revived \subseteq raced =>
         \/ \E r \in Clients : At(r, {"delete"}, "deleting") /\ req[r].path = p
         \/ \E q \in Paths : file'[q] = file[p]]_vars

\* "ISB file already exists" (moveFile, sessions.ts:388, and createFileSession,
\* sessions.ts:317): a notebook is never created over, or moved onto, another one,
\* unless a deleted session put it there.  The code breaks it on a raced path: the
\* check and the write are separated by the turns of other requests.
NoNotebookIsReplaced ==
  [][\A r \in Clients :
       /\ At(r, {"create"}, "creating") /\ req'[r].step = "binding" =>
            file[req[r].path] = Nil \/ req[r].path \in revived \union raced
       /\ At(r, {"move"}, "copying") /\ req'[r].step = "removing" =>
            file[req[r].target] = Nil \/ req[r].target \in revived \union raced]_vars

\* A notebook leaves its path only with its contents, or when it is deleted, and is
\* not written over.
NotebooksSurvive == NothingIsLost /\ NoNotebookIsReplaced

\* Every request is answered, provided that user code ends: a handler that throws
\* does not keep the next ones of its session from running.
UserCodeRuns ==
  \E r \in Users : \/ At(r, {"eval"}, "evaluating") /\ MyTurn(r)
                   \/ At(r, {"restart", "reload"}, "swapping")
RequestsEnd ==
  []<>~UserCodeRuns => \A r \in Requests : req[r].step # "idle" ~> req[r].step = "idle"
=============================================================================
