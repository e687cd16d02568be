---------------------------- MODULE RecoverableVm ----------------------------
(***************************************************************************)
(* A VM that can be rebuilt (src/modules/recoverable-vm.ts) under the      *)
(* session that owns it (src/vm/server/sessions.ts).  The VM keeps the     *)
(* cells it has evaluated and a virtual filesystem; both are persisted in  *)
(* a snapshot file.  A new VM loads the file, and the first evaluation     *)
(* replays the cells in a fresh context.                                   *)
(*                                                                         *)
(* A restart, a reload or a new process makes a new VM over the same file. *)
(* Code of the old one may still run (notebook code has setInterval, fetch *)
(* and promises): nothing stops it, and its writes reach the same file.    *)
(*                                                                         *)
(* Operations of one session exclude each other (runExclusive, modelled in *)
(* NotebookSessions): op is the one that runs.  An evaluation is named by  *)
(* its number, a file's contents by whether it is there.                   *)
(***************************************************************************)
EXTENDS Naturals, Sequences, SequencesExt

CONSTANTS Files,      \* paths of the virtual filesystem
          Past,       \* evaluations the notebook holds when the server starts
          MaxEvals,   \* bound: evaluations
          MaxVms,     \* bound: VMs made over the snapshot file
          MaxPending, \* bound: unfinished writes of one VM
          Results     \* outcomes of a write to the disk, TRUE when it succeeds

ASSUME BoundsAssumption == MaxEvals \in Nat /\ MaxVms \in Nat /\ MaxPending \in Nat
ASSUME PastAssumption == Past \in 0..MaxEvals
ASSUME ResultsAssumption == Results \subseteq BOOLEAN

VARIABLES
  cells,     \* snapshot.cells of each VM
  files,     \* the live filesystem of each VM
  saved,     \* snapshot.filesystem of each VM
  ran,       \* what has completed in the VM's execution context
  replayed,  \* snapshotReplayed
  suppress,  \* suppressPersistence
  chain,     \* writeChain: snapshots to be written, in order
  loose,     \* code of the VM is still running on its own
  prepared,  \* VMs whose prepare has not thrown
  disk,      \* the snapshot file
  copy,      \* the snapshot embedded in the notebook file
  current,   \* session.vm, 0 when there is no process
  made,      \* VMs made so far
  evals,     \* evaluations asked so far
  op,        \* the operation that runs, and at which await it is
  answered,  \* history: evaluations answered with a result
  kept,      \* history: files requests wrote in this VM, not removed since
  intruded   \* history: a VM has written the file after a later VM loaded it

vmVars == <<cells, files, saved, ran, replayed, suppress, loose, prepared>>
diskVars == <<disk, copy>>
countVars == <<current, made, evals>>
historyVars == <<answered, kept, intruded>>
vars == <<vmVars, chain, diskVars, countVars, op, historyVars>>

Vms == 1..MaxVms
Evals == 1..MaxEvals
Snapshots == [cells : Seq(Evals), files : SUBSET Files]
Empty == [cells |-> <<>>, files |-> {}]
Idle == [kind |-> "idle", step |-> "idle", vm |-> 0, at |-> 0, eval |-> 0,
         read |-> Empty]

\* The server starts with a notebook saved by an earlier one.
Init ==
  /\ cells = [g \in Vms |-> <<>>]
  /\ files = [g \in Vms |-> {}]
  /\ saved = [g \in Vms |-> {}]
  /\ ran = [g \in Vms |-> <<>>]
  /\ replayed = [g \in Vms |-> FALSE]
  /\ suppress = [g \in Vms |-> FALSE]
  /\ chain = [g \in Vms |-> <<>>]
  /\ loose = [g \in Vms |-> FALSE]
  /\ prepared = {}
  /\ disk = Empty
  /\ copy = [cells |-> [i \in 1..Past |-> i], files |-> {}]
  /\ current = 0 /\ made = 0 /\ evals = Past
  /\ op = Idle
  /\ answered = 1..Past /\ kept = {} /\ intruded = FALSE

-----------------------------------------------------------------------------
(* Pieces the operations share. *)

Busy(kinds, step) == op.kind \in kinds /\ op.step = step

\* persistSnapshot: the snapshot is taken at once and queued for writing.
Persist(g, c, f) ==
  /\ Len(chain[g]) < MaxPending
  /\ saved' = [saved EXCEPT ![g] = f]
  /\ chain' = [chain EXCEPT ![g] = Append(@, [cells |-> c, files |-> f])]

\* RecoverableVmFileSystem.notifyChange reaches the VM's onChange.
Change(g, f) ==
  /\ files' = [files EXCEPT ![g] = f]
  /\ IF g \in prepared /\ ~suppress[g]
       THEN Persist(g, cells[g], f)
       ELSE UNCHANGED <<saved, chain>>

\* A write or a removal of one file.
Toggled(f, S) == IF f \in S THEN S \ {f} ELSE S \union {f}

\* What remains of the files requests wrote when code of VM g leaves f.
StillKept(g, f) == IF g = current THEN kept \intersect f ELSE kept

-----------------------------------------------------------------------------
(* eval. *)

\* The evaluation replays the snapshot first when that was not done yet.
Evaluate ==
  /\ op = Idle /\ current # 0 /\ evals < MaxEvals
  /\ evals' = evals + 1
  /\ suppress' = [suppress EXCEPT ![current] = TRUE]
  /\ op' = [Idle EXCEPT !.kind = "eval", !.vm = current, !.eval = evals + 1,
                        !.step = IF replayed[current] THEN "run" ELSE "replay",
                        !.at = 1]
  /\ UNCHANGED <<cells, files, saved, ran, replayed, loose, prepared, chain,
                 diskVars, current, made, historyVars>>

\* Code that runs changes at most one file here and may leave a timer.
Effect(g, f, timer) ==
  /\ files[g] = f \/ \E x \in Files : f = Toggled(x, files[g])
  /\ loose' = [loose EXCEPT ![g] = @ \/ timer]

\* replaySnapshot runs the next cell.  When all have run, importSnapshot puts
\* the filesystem of the snapshot back, whatever the cells did to it.
ReplayCell(f, timer) ==
  LET g == op.vm
      last == op.at = Len(cells[g])
  IN
  /\ Busy({"eval", "restart"}, "replay")
  /\ Effect(g, f, timer)
  /\ ran' = [ran EXCEPT ![g] = Append(@, cells[g][op.at])]
  /\ files' = [files EXCEPT ![g] = IF last THEN saved[g] ELSE f]
  /\ replayed' = [replayed EXCEPT ![g] = last]
  /\ op' = IF last THEN [op EXCEPT !.step = "run"] ELSE [op EXCEPT !.at = @ + 1]
  /\ UNCHANGED <<cells, saved, suppress, prepared, chain, diskVars, countVars,
                 historyVars>>

\* A cell throws: the context is thrown away with all that ran in it, and the
\* evaluation fails; the next one replays again.  (FailedReplayKeepsContext:
\* the context stays as it is.)
FailedReplayKeepsContext ==
  LET g == op.vm IN
  /\ Busy({"eval"}, "replay")
  /\ files' = [files EXCEPT ![g] = saved[g]]
  /\ suppress' = [suppress EXCEPT ![g] = FALSE]
  /\ op' = Idle
  /\ UNCHANGED <<cells, saved, ran, replayed, loose, prepared, chain, diskVars,
                 countVars, historyVars>>
FailedReplay ==
  LET g == op.vm IN
  /\ Busy({"eval"}, "replay")
  /\ ran' = [ran EXCEPT ![g] = <<>>]
  /\ files' = [files EXCEPT ![g] = saved[g]]
  /\ suppress' = [suppress EXCEPT ![g] = FALSE]
  /\ op' = Idle
  /\ UNCHANGED <<cells, saved, replayed, loose, prepared, chain, diskVars,
                 countVars, historyVars>>

\* The cell itself ends, is added to the snapshot and the snapshot is queued.
RunCell(f, timer) ==
  LET g == op.vm
      next == Append(cells[g], op.eval)
  IN
  /\ Busy({"eval"}, "run")
  /\ Effect(g, f, timer)
  /\ ran' = [ran EXCEPT ![g] = Append(@, op.eval)]
  /\ cells' = [cells EXCEPT ![g] = next]
  /\ files' = [files EXCEPT ![g] = f]
  /\ Persist(g, next, f)
  /\ kept' = StillKept(g, f)
  /\ op' = [op EXCEPT !.step = "persist"]
  /\ UNCHANGED <<replayed, suppress, prepared, diskVars, countVars, answered,
                 intruded>>

\* It throws: nothing is added, and what it did to the files is not persisted.
FailCell(f, timer) ==
  LET g == op.vm IN
  /\ Busy({"eval"}, "run")
  /\ Effect(g, f, timer)
  /\ files' = [files EXCEPT ![g] = f]
  /\ suppress' = [suppress EXCEPT ![g] = FALSE]
  /\ kept' = StillKept(g, f)
  /\ op' = Idle
  /\ UNCHANGED <<cells, saved, ran, replayed, prepared, chain, diskVars,
                 countVars, answered, intruded>>

-----------------------------------------------------------------------------
(* The write chain. *)

\* The VM that loaded the snapshot file last: the one a restart is preparing,
\* or the session's.
Latest == IF op.kind = "restart" /\ op.vm # 0 THEN op.vm ELSE current

\* saveRecoverableVmSnapshot writes a temporary file and renames it.  A failure
\* is caught by the next link.  The evaluation that waits for the last link
\* goes on to copy the snapshot into the notebook, or fails.
\* (WriteNewest: writes are not chained, the last one asked may come first.)
WriteNewest(g, ok) ==
  LET waited == op.vm = g /\ op.step = "persist" /\ Len(chain[g]) = 1 IN
  /\ chain[g] # <<>>
  /\ chain' = [chain EXCEPT ![g] = Front(@)]
  /\ disk' = IF ok THEN Last(chain[g]) ELSE disk
  /\ suppress' = IF waited THEN [suppress EXCEPT ![g] = FALSE] ELSE suppress
  /\ op' = IF ~waited THEN op ELSE IF ok THEN [op EXCEPT !.step = "embed"] ELSE Idle
  /\ intruded' = (intruded \/ (ok /\ g # Latest))
  /\ UNCHANGED <<cells, files, saved, ran, replayed, loose, prepared, copy,
                 countVars, answered, kept>>
\* (WriteInPlace: without the temporary file, a failure leaves half a snapshot.)
WriteInPlace(g, ok) ==
  LET waited == op.vm = g /\ op.step = "persist" /\ Len(chain[g]) = 1 IN
  /\ chain[g] # <<>>
  /\ chain' = [chain EXCEPT ![g] = Tail(@)]
  /\ disk' = IF ok THEN Head(chain[g]) ELSE [cells |-> Head(chain[g]).cells]
  /\ suppress' = IF waited THEN [suppress EXCEPT ![g] = FALSE] ELSE suppress
  /\ op' = IF ~waited THEN op ELSE IF ok THEN [op EXCEPT !.step = "embed"] ELSE Idle
  /\ intruded' = (intruded \/ (ok /\ g # Latest))
  /\ UNCHANGED <<cells, files, saved, ran, replayed, loose, prepared, copy,
                 countVars, answered, kept>>
\* (WaitsForSuccess: an evaluation whose write failed is not told.)
WaitsForSuccess(g, ok) ==
  LET waited == op.vm = g /\ op.step = "persist" /\ Len(chain[g]) = 1 IN
  /\ chain[g] # <<>>
  /\ chain' = [chain EXCEPT ![g] = Tail(@)]
  /\ disk' = IF ok THEN Head(chain[g]) ELSE disk
  /\ suppress' = IF waited /\ ok THEN [suppress EXCEPT ![g] = FALSE] ELSE suppress
  /\ op' = IF waited /\ ok THEN [op EXCEPT !.step = "embed"] ELSE op
  /\ intruded' = (intruded \/ (ok /\ g # Latest))
  /\ UNCHANGED <<cells, files, saved, ran, replayed, loose, prepared, copy,
                 countVars, answered, kept>>
Write(g, ok) ==
  LET waited == op.vm = g /\ op.step = "persist" /\ Len(chain[g]) = 1 IN
  /\ chain[g] # <<>>
  /\ chain' = [chain EXCEPT ![g] = Tail(@)]
  /\ disk' = IF ok THEN Head(chain[g]) ELSE disk
  /\ suppress' = IF waited THEN [suppress EXCEPT ![g] = FALSE] ELSE suppress
  /\ op' = IF ~waited THEN op ELSE IF ok THEN [op EXCEPT !.step = "embed"] ELSE Idle
  /\ intruded' = (intruded \/ (ok /\ g # Latest))
  /\ UNCHANGED <<cells, files, saved, ran, replayed, loose, prepared, copy,
                 countVars, answered, kept>>

-----------------------------------------------------------------------------
(* The session: files written by requests, the copy in the notebook. *)

\* writeFsFile and deleteFsEntry: the snapshot is queued, not waited for.
ChangeFile(x) ==
  /\ op = Idle /\ current # 0
  /\ LET f == Toggled(x, files[current]) IN
     /\ Change(current, f)
     /\ kept' = IF x \in f THEN kept \union {x} ELSE kept \ {x}
  /\ op' = [Idle EXCEPT !.kind = "file", !.step = "embed", !.vm = current]
  /\ UNCHANGED <<cells, ran, replayed, suppress, loose, prepared, diskVars,
                 countVars, answered, intruded>>

\* persistBoundFileSession reads the snapshot file...
EmbedRead ==
  /\ Busy({"eval", "file"}, "embed")
  /\ op' = [op EXCEPT !.step = "embedding", !.read = disk]
  /\ UNCHANGED <<vmVars, chain, diskVars, countVars, historyVars>>

\* (throwIfExecutionCancelled: not when the task was cancelled meanwhile) ...
Cancelled ==
  /\ Busy({"eval"}, "embed")
  /\ op' = Idle
  /\ UNCHANGED <<vmVars, chain, diskVars, countVars, historyVars>>

\* ... and writes it into the notebook file; then the request is answered.
EmbedWrite(ok) ==
  /\ Busy({"eval", "file"}, "embedding")
  /\ copy' = IF ok THEN op.read ELSE copy
  /\ answered' = IF ok /\ op.kind = "eval" THEN answered \union {op.eval} ELSE answered
  /\ op' = Idle
  /\ UNCHANGED <<vmVars, chain, disk, countVars, kept, intruded>>

-----------------------------------------------------------------------------
(* A new VM. *)

\* restartFileSession (replay now) and reloadFileSession (replay later).
Restart(kind) ==
  /\ op = Idle /\ current # 0 /\ made < MaxVms
  /\ op' = [Idle EXCEPT !.kind = kind, !.step = "hydrate", !.read = copy]
  /\ UNCHANGED <<vmVars, chain, diskVars, countVars, historyVars>>

\* instantiateFileSession in a new process.
Boot ==
  /\ op = Idle /\ current = 0 /\ made < MaxVms
  /\ op' = [Idle EXCEPT !.kind = "reload", !.step = "hydrate", !.read = copy]
  /\ UNCHANGED <<vmVars, chain, diskVars, countVars, historyVars>>

\* The snapshot of the notebook replaces the snapshot file.
Hydrate(ok) ==
  /\ Busy({"restart", "reload"}, "hydrate")
  /\ disk' = IF ok THEN op.read ELSE disk
  /\ op' = IF ok THEN [op EXCEPT !.step = "load"] ELSE Idle
  /\ UNCHANGED <<vmVars, chain, copy, countVars, historyVars>>

\* session.vm = vm
Swap(g) ==
  /\ suppress' = [suppress EXCEPT ![g] = FALSE]
  /\ current' = g
  /\ kept' = {}
  /\ op' = Idle

\* prepare: the file is loaded into a fresh VM.
Load ==
  LET g == made + 1 IN
  /\ Busy({"restart", "reload"}, "load")
  /\ made' = g
  /\ cells' = [cells EXCEPT ![g] = disk.cells]
  /\ saved' = [saved EXCEPT ![g] = disk.files]
  /\ files' = [files EXCEPT ![g] = disk.files]
  /\ replayed' = [replayed EXCEPT ![g] = disk.cells = <<>>]
  /\ prepared' = prepared \union {g}
  /\ IF op.kind = "restart" /\ disk.cells # <<>>
       THEN /\ suppress' = [suppress EXCEPT ![g] = TRUE]
            /\ op' = [op EXCEPT !.step = "replay", !.vm = g, !.at = 1]
            /\ UNCHANGED <<current, kept>>
       ELSE Swap(g)
  /\ UNCHANGED <<ran, loose, chain, diskVars, evals, answered, intruded>>

\* The replay is over: prepare imports the files once more.
Prepared ==
  LET g == op.vm IN
  /\ Busy({"restart"}, "run")
  /\ files' = [files EXCEPT ![g] = saved[g]]
  /\ Swap(g)
  /\ UNCHANGED <<cells, saved, ran, replayed, loose, prepared, chain, diskVars,
                 made, evals, answered, intruded>>

\* A cell throws: prepare throws, and the session keeps the VM it had.
FailedPrepare ==
  LET g == op.vm IN
  /\ Busy({"restart"}, "replay")
  /\ prepared' = prepared \ {g}
  /\ replayed' = [replayed EXCEPT ![g] = FALSE]
  /\ suppress' = [suppress EXCEPT ![g] = FALSE]
  /\ files' = [files EXCEPT ![g] = saved[g]]
  /\ ran' = [ran EXCEPT ![g] = <<>>]
  /\ op' = Idle
  /\ UNCHANGED <<cells, saved, loose, chain, diskVars, countVars, historyVars>>

-----------------------------------------------------------------------------
(* Code nobody waits for, and the end of the process. *)

\* A timer, a promise or the rest of a cell that is being awaited changes a
\* file, of the session's VM or of one that was replaced.
Background(g, x) ==
  /\ loose[g] \/ (op.vm = g /\ op.step \in {"replay", "run"})
  /\ LET f == Toggled(x, files[g]) IN
     /\ Change(g, f)
     /\ kept' = IF op.vm = g /\ op.step = "replay" THEN kept ELSE StillKept(g, f)
  /\ UNCHANGED <<cells, ran, replayed, suppress, loose, prepared, diskVars,
                 countVars, op, answered, intruded>>

Settle(g) ==
  /\ loose[g]
  /\ loose' = [loose EXCEPT ![g] = FALSE]
  /\ UNCHANGED <<cells, files, saved, ran, replayed, suppress, prepared, chain,
                 diskVars, countVars, op, historyVars>>

Crash ==
  /\ current # 0
  /\ cells' = [g \in Vms |-> <<>>]
  /\ files' = [g \in Vms |-> {}]
  /\ saved' = [g \in Vms |-> {}]
  /\ ran' = [g \in Vms |-> <<>>]
  /\ replayed' = [g \in Vms |-> FALSE]
  /\ suppress' = [g \in Vms |-> FALSE]
  /\ loose' = [g \in Vms |-> FALSE]
  /\ chain' = [g \in Vms |-> <<>>]
  /\ prepared' = {}
  /\ current' = 0
  /\ op' = Idle
  /\ kept' = {}
  /\ UNCHANGED <<diskVars, made, evals, answered, intruded>>

-----------------------------------------------------------------------------
Code == \E g \in Vms, x \in Files : Background(g, x)
Cell == \E f \in SUBSET Files, timer \in BOOLEAN :
          ReplayCell(f, timer) \/ RunCell(f, timer) \/ FailCell(f, timer)
Flush(g) == \E ok \in Results : Write(g, ok)
Embed == EmbedRead \/ Cancelled \/ \E ok \in Results : EmbedWrite(ok)
Renew == (\E ok \in Results : Hydrate(ok)) \/ Load \/ Prepared \/ FailedPrepare

Next ==
  \/ Evaluate \/ Cell \/ FailedReplay \/ Embed
  \/ \E g \in Vms : Flush(g)
  \/ \E x \in Files : ChangeFile(x)
  \/ \E kind \in {"restart", "reload"} : Restart(kind)
  \/ Boot \/ Renew \/ Code \/ \E g \in Vms : Settle(g)
  \/ Crash

\* Writes to the disk end.  Code in the VM need not.
Fairness == \A g \in Vms : WF_vars(Flush(g))
Spec == Init /\ [][Next]_vars /\ Fairness

-----------------------------------------------------------------------------
(* Properties. *)

OpTypeOK ==
  op \in [kind : {"idle", "eval", "file", "restart", "reload"},
          step : {"idle", "replay", "run", "persist", "embed", "embedding",
                  "hydrate", "load"},
          vm : 0..MaxVms, at : Nat, eval : 0..MaxEvals, read : Snapshots]

\* Every variable keeps its type.
TypeOK ==
  /\ cells \in [Vms -> Seq(Evals)]
  /\ files \in [Vms -> SUBSET Files]
  /\ saved \in [Vms -> SUBSET Files]
  /\ ran \in [Vms -> Seq(Evals)]
  /\ replayed \in [Vms -> BOOLEAN]
  /\ suppress \in [Vms -> BOOLEAN]
  /\ loose \in [Vms -> BOOLEAN]
  /\ chain \in [Vms -> Seq(Snapshots)]
  /\ prepared \subseteq Vms
  /\ disk \in Snapshots /\ copy \in Snapshots
  /\ current \in 0..MaxVms /\ made \in 0..MaxVms /\ evals \in 0..MaxEvals
  /\ OpTypeOK
  /\ answered \subseteq Evals /\ kept \subseteq Files /\ intruded \in BOOLEAN

\* A VM that has replayed its snapshot has run each cell of it once, in order,
\* and nothing else to the end; before that its context is empty, also after
\* a replay that failed half-way (ensureExecutionState).
ContextIsTheSnapshot ==
  \A g \in prepared :
    ran[g] = CASE replayed[g] -> cells[g]
               [] op.vm = g /\ op.step = "replay" -> SubSeq(cells[g], 1, op.at - 1)
               [] OTHER -> <<>>

\* Between operations every change of a file is persisted: whichever way an
\* evaluation or a restart ended, suppressPersistence is off.
PersistenceComesBack == op = Idle => \A g \in prepared : ~suppress[g]

\* A file that a request wrote before the cells were replayed is not undone by
\* the replay, by a replay that fails or by an evaluation that fails: it is
\* there until a request or code outside a replay removes it.
RequestsFilesStay == (op = Idle /\ current # 0) => kept \subseteq files[current]

\* Whatever fails, an evaluation or a restart leaves the VM as its snapshot says:
\* the context, the files and the persistence of changes.
VmIsRecovered == ContextIsTheSnapshot /\ PersistenceComesBack /\ RequestsFilesStay

\* The copy in the notebook lags behind the snapshot file, that behind the
\* snapshots on their way, and these behind the VM: none ever holds a cell the
\* next one does not have - as long as no VM that was replaced writes the file.
FilesLagBehind ==
  LET g == current
      line == <<copy.cells, disk.cells>>
              \o [i \in 1..Len(chain[g]) |-> chain[g][i].cells] \o <<cells[g]>>
  IN (g # 0 /\ ~intruded) => \A i \in 1..Len(line) - 1 : IsPrefix(line[i], line[i + 1])

\* The notebook holds every evaluation that was answered, through restarts that
\* fail, reloads and crashes - as long as no VM that was replaced writes the
\* file the notebook is copied from.
AnsweredIsInTheNotebook ==
  ~intruded => answered \subseteq ToSet(copy.cells)

\* What is persisted never runs ahead or falls behind what was answered.
SnapshotsKeepUp == FilesLagBehind /\ AnsweredIsInTheNotebook

\* An evaluation that waits for its snapshot to be written is told, also when
\* this or an earlier write of the chain fails.
WritersAreTold == (op.step = "persist") ~> (op.step # "persist")

\* "Writes persist into the notebook snapshot" (recoverable-vm-fs.ts): once
\* nothing is pending, a file a request wrote is in the notebook's snapshot.
\* It is not: writeFsFile copies the snapshot file into the notebook without
\* waiting for the VM to write it, and the next restart loses the file.
WritesPersist ==
  (op = Idle /\ current # 0 /\ chain[current] = <<>>) => kept \subseteq copy.files
=============================================================================
