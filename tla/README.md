# iscan: a TLA+ model of the notebook server, its clients and its machines

iscan is a Bun/TypeScript program: a server of notebooks whose cells run in
JavaScript VMs (`src/src/vm`, `src/src/modules/recoverable-vm*.ts`), a web client
(`src/web`), a console runtime with modules and kits (`src/src/modules`,
`src/src/kits`) and background workers (`src/src/worker`). This directory holds
TLA+ models of the parts in which several activities share state, the TLC
configurations that check them on small instances, and TLAPS proofs of their main
safety properties for every value of the constants. `PROJECT.json` maps each
definition to the lines it models, and lists the runs, the mutants, the hazards,
the findings and the theorems.

    tlc -workers 2 -config ExecutionQueue_notebook.cfg MCExecutionQueue
    tlapm ExecutionQueueProofs.tla

Line numbers below are those of the commit that was modelled. `sessions.ts` and
`index.ts` are those of `src/src/vm/server`; `ui.ts` is `src/web/src/store/ui.ts`.

## 1. Inventory

### The components

| Component | Source | State it keeps | Operations | Hard because of | Status |
|---|---|---|---|---|---|
| Execution queue | sessions.ts 649-822, 903-1115, 1540-1577 | `executionTasks`, `executionQueue`, `activeExecutionTaskId`, `isExecutionPumpActive`, `completedExecutionTaskIds`, loading promises, each session's promise chain | startExecutionTask, cancelExecutionTask, the pump, runExecutionTask, runExclusive | suspension at awaits, cancellation at any moment, sessions that are loaded and deleted meanwhile | modelled |
| Notebook sessions | sessions.ts, `vm/isb.ts` | `sessions`, `sessionCodesByPath`, a session's path, document and VM, notebook files, snapshot files | create, open, move, delete, save, evaluate, file writes, restart, reload | checks separated from writes by awaits, several requests on a path, crashes | partly |
| Recoverable VM | `modules/recoverable-vm.ts`, `recoverable-vm-snapshot.ts`, `recoverable-vm-fs.ts` | cells, the virtual filesystem, the context, `suppressPersistence`, `writeChain`, the snapshot file | eval, replay, file operations, persist, prepare | user code in the replay and in timers, chained asynchronous writes, failures halfway | partly |
| Execution stream | index.ts 194-204, 545-680 | per socket: `executionTaskId`, the listener, `isClosed` | execute, cancel, close, task events | the handler awaits the VM between check and assignment | partly |
| Web client notebooks | ui.ts, `web/src/api/client.ts` | open documents, dirty flags, session codes, running cells, shown tasks and results | open, create, save, move, delete, edit; runCell over a socket or HTTP | answers that come late, in any order or never, while the user goes on | partly |
| Browser, terminal and inspector sockets | index.ts, `vm/server/websocket.ts` | `stopStream`, timers, `isClosed`, the screencast or terminal held | open, close, frames, the watchdog, polling | a close at any await of the handler | partly |
| Screencasts | `kits/cloak-kit.ts` | `activeScreencasts`, the profile's session | startProfileScreencast, stop, reset | a start that times out and goes on | partly |
| Browser audio | `vm/server/browser-audio.ts` | clients, the capture process, start and prepare promises | subscribe, unsubscribe, process exit | the exit of an old process against a new one | modelled |
| Background workers | `worker/background-lifecycle.ts`, `worker-runtime.ts`, `api.ts` | handle map, snapshots, `isStarted` | start, stop, stopWorker, restartWorker, messages of threads | a thread outlives the `terminate()` that ends it; its end is not listened to | partly |
| QEMU kit | `kits/qemu-kit.ts` | `runningProcesses`, `trackedProcessMetadata`, tap interfaces, the bridge and its marker | launch, exit handlers, daemon monitors, onStop, exit hooks | processes end at any moment of a stop; interfaces must be removed once | partly |
| Notebook files | `vm/isb.ts` | notebook files, the index of the search | read, write, delete, move | a move is two steps | partly |
| Console session state | `modules/session-state.ts` | pending state, debounce timer, write chain, file | schedule, save, flush | a torn file | not modelled |
| Hunter, port scanner, kit runtime, walkers, console input, storage kit, output stack, other kits, interfaces, configuration | see `PROJECT.json` | - | - | external programs, rendering, parsing | not modelled |

### How they interact

The web client sends HTTP requests and web-socket messages to `startVmServer`.
The HTTP routes call one method of the registry `VmServerSessions` each. An
execution-stream socket calls `startExecutionTask`, subscribes to the task's
events and forwards them. The queue executes one task at a time for the whole
server: it loads the session of the task's VM, and evaluates the cell inside
`runExclusive`, the promise chain of that session, which saves, restarts,
reloads, moves, deletions and direct evaluations use too. A session owns a
recoverable VM, which writes its own snapshot file in a chain of writes; after a
cell the registry copies that snapshot into the notebook file. The other sockets
start a screencast, a terminal, a poll or an audio capture and give it up as they
close. The console runtime drives the background workers and the virtual machines;
the process starts the workers before the server and stops them as it exits.

### What makes each component correct

* **Execution queue.** No task is lost, run twice or evaluated while another
  critical section of its session runs; the execution slot is given up whatever
  fails; an accepted cancellation does not end as success; streams are legal and
  end once; eviction forgets only what ended; queued tasks end.
* **Notebook sessions.** The path index and the sessions agree; one session per
  notebook; no update is lost, across moves and crashes; a request that is
  answered has saved what it says; every request is answered.
* **Recoverable VM.** Whatever fails, a VM is what its snapshot says; what is
  persisted never runs ahead of the VM and holds what was answered; whoever waits
  for a write is told.
* **Execution stream.** A socket is not blocked by a task that ended; a client is
  told the end of its task; nothing listens for a client that left.
* **Web client.** An unsaved edit is lost only where the user could see it coming;
  the page agrees with the server about sessions and selection; a run is evaluated
  once at most and the page says of it what is true.
* **Sockets, screencasts, audio.** A closed socket leaves no timer, screencast,
  terminal or process; an intended exit closes nobody.
* **Background workers.** One thread per script is left to itself; a command that
  returned has told its workers to end; a worker that died is reported as ended.
* **QEMU kit.** Each interface the kit made is removed exactly once, after its
  machine, and no other is; a stop reaches every machine.

The hazards of the code, each at its line, are under `hazards` in `PROJECT.json`
with the properties that would notice them; those without a property carry the
reason.

## 2. The modules

| Module | What it is |
|---|---|
| `SerialExecutor` | abstract: a server of jobs, one at a time, in order, with withdrawal and cancellation |
| `ExecutionQueue` | the queue of sessions.ts at the grain of JavaScript turns; implements `SerialExecutor` |
| `ExecutionStream` | the execution-stream sockets, composed with an instance of `SerialExecutor` |
| `CellRuns` | a run of a cell from the page to the VM and back, composed with `SerialExecutor` |
| `NotebookSessions` | the registry, the notebook files and the VM snapshots |
| `RecoverableVm` | one session's VMs: evaluation, replay, files, snapshot writes, crashes |
| `NotebookStore` | the open documents of the web client against the registry |
| `ServerSockets` | what the other web sockets hold, with the kit's screencasts and the audio capture |
| `BackgroundLifecycle` | background workers, their threads and their commands |
| `QemuVms` | virtual machines, their processes and their network interfaces |
| `MC*` | instances for TLC: sets of model values, symmetry, a view |
| `*Proofs` | theorems of the component and their proofs (`SocketsProofs`: of `ExecutionStream` and `ServerSockets`) |

The modules overlap at their borders on purpose: each keeps of its neighbour what
its own properties tell apart. `NotebookSessions` has VMs whose content only grows
and whose writes come in order for each VM, which is what `RecoverableVm` shows of
the chain; `RecoverableVm` has operations that exclude each other, which is what
`NotebookSessions` proves of `runExclusive`; both have VMs that were replaced and
still write (`intruded`); `CellRuns` and `ExecutionStream` use the abstract queue
that `ExecutionQueue` implements.

In comments of the form `(Name: ...)` a module says what the definition beside it
stands for: the way a plausible mistake would have changed the next definition.
These variants are used by no specification; `PROJECT.json` (`mutants`) pairs each
with the property that tells it from the code.

### Execution queue

JavaScript runs each handler to the next `await` without interruption. The
variable `control` says what the event loop must do before anything else: `loop`
(any pending event), `pump` (the microtask of `scheduleExecutionQueuePump` runs)
or `run` (`runExecutionTask` has been entered in the same turn). An `await` on a
promise that is already resolved yields only microtasks, which nothing else in
this component can interleave with, so it does not end an action.

| State | Code |
|---|---|
| `queue`, `known`, `status`, `cancelRequested`, `completion`, `stream` | `executionQueue`, `executionTasks` and the fields of a task, with its emitted events |
| `active`, `pumping`, `completed` | `activeExecutionTaskId`, `isExecutionPumpActive`, `completedExecutionTaskIds` |
| `phase` | where `runExecutionTask` is suspended |
| `mutex[c][o]` | `session.queue` of VM `c`: the sections in order, the head runs. `o` tells the session object that was there first from the one that is loaded after a deletion |
| `sessions`, `files` | whether a VM has a session, is being loaded or unknown, and whether its notebook exists |

`Start`, `CancelQueued`, `CancelRunning`, `PumpShift`, `PumpExit`, `RunStart`,
`RunAwaitLoad`, `EvalEnter`, `EvalReturn`, `PersistReturn`, `LoadBegin`,
`LoadDone`, `LoadFail`, `DeleteRequest`, `DeleteFile`, `Unlink` are one turn each.
`Settle`, the end of `runExecutionTask` in each of its three outcomes, is part of
the turn in which the evaluation ends. Other requests that enter the chain of a
session (save, restart, reload, move, direct evaluation) are `OtherRequest` and
`OtherDone`: here only their place in the chain matters.

`SerialExecution` is the refinement: `SerialExecutor` with the task that holds
the slot as `current`, `executionQueue` as `line` and the tasks whose
cancellation was accepted as `asked`. It holds for VMs that are never disposed of;
a task that is cancelled while its notebook is loaded, and the slot lost to a
deleted notebook, are the two ways in which the code falls short of it otherwise.

### Notebook sessions

A request is a record: its operation, the `await` at which its handler is
suspended (`step`), and what it has read so far, since the hazards of this
component are values that are read before an await and used after it. Each action
is one turn: `Create` and `CreateWrite` are the two halves of createFileSession,
and so on through `Bind`/`Register` (instantiateFileSession), `RemoveFile`/`Unlink`,
`MoveRead`/`MoveCopy`/`MoveRemove`/`MoveUndo`/`Rebind`, `EvalRun`/`EvalSaved`,
`PersistRead`/`PersistLoad`/`PersistWrite` (persistBoundFileSession) and
`Reread`/`Hydrate`/`Swap` (restart and reload). `chain[s]` is `session.queue`.
File operations may fail, and `ok` says whether they did.

* A session is identified with its VM code. A code of `Sessions` that nothing
  refers to any more stands for a fresh random code (`Unused`).
* `Cells` stands for whatever a VM snapshot accumulates: evaluated cells and files
  written in the VM.
* `pending[s][v]` are the snapshot writes that VM object `v` of a session has not
  finished. Each VM has a chain of its own (recoverable-vm.ts:1510), a restart or a
  reload replaces `session.vm` without waiting for the old one (`NewVm`), and an
  evaluation awaits only the writes of its own VM: so the writes of a replaced VM
  reach the file in any order with those of the new one. `intruded` is the history of
  sessions whose snapshot file was last written by a VM that had been replaced; it is
  the only excuse of `AnsweredCellIsSaved`.
* Clients create, open, move and delete at the same time, on one path or on several.
  A handler checks a path in one turn and writes, registers or rebinds in a later one,
  so requests that meet can take each other's notebook: `raced` is the history of the
  paths on which requests of two clients were under way at a time, and of paths that a
  request joined to such a path. `FilesAgree` and `NotebooksSurvive` excuse a
  path that is raced, and no other; `IndexSound` holds on every path.
* A notebook document is a model value. A save carries a document with a path of
  its own, and the code refuses one whose path is not the session's: such a write
  fails.
* `Crash` keeps only what is on disk. History variables say which files were last
  written by a session that was disposed of.

### Recoverable VM

The VMs that a session has had are numbered; `current` is `session.vm` and `op`
the operation that runs (operations exclude each other) and its await. `cells`,
`saved` are the two parts of a VM's `snapshot`, `files` its live filesystem and
`ran` what has completed in its execution context, which the code cannot look at
but its user can. `chain[g]` are the snapshots on their way to the one file
(`disk`), `copy` the one embedded in the notebook.

| Actions | Code |
|---|---|
| `Evaluate`, `ReplayCell`, `FailedReplay`, `RunCell`, `FailCell` | `eval`, `replaySnapshot`, `ensureExecutionState` |
| `Write` | a link of `persistSnapshot`'s chain with `saveRecoverableVmSnapshot` |
| `ChangeFile`, `Background`, `Settle` | a file changed by a request, or by code that still runs: timers, promises, also those of a VM that was replaced |
| `EmbedRead`, `Cancelled`, `EmbedWrite` | persistBoundFileSession and the check before it |
| `Restart`, `Boot`, `Hydrate`, `Load`, `Prepared`, `FailedPrepare` | restart and reload of a session, the first load in a new process, `prepare` |
| `Crash` | the process ends; only `disk` and `copy` stay |

An evaluation is its number; a file's contents are whether it is there, so a write
and a removal are `Toggled`. Cells throw or not, as user code does.

### Execution stream

Each socket has `active` (`ws.data.executionTaskId`), `listener` (the
subscription that `unsubscribeExecutionTask` removes) and `closed`; every task
belongs to the socket that asked for it. `Execute` is the whole message handler
when the VM is in memory; when it must be loaded, the handler is suspended
(`starting`) and `Loaded` or `LoadFails` ends it. Messages of a socket may name
different VMs, so suspended handlers resume in any order. Clients in `Patient`
execute one task at a time; the others do not wait. The queue behind the sockets
is `SerialExecutor`. What the code's queue may do beyond that (end twice a task
that was cancelled before its start) is not repeated here.

### Web client: documents

`NotebookStore` is `ui.ts` between the user and the server. A document is the
number of its last edit; `notebooks`, `dirty`, `codes`, `selected`, `listing`,
`isSaving` are the fields of the store; `task[t]` is a function of the store that is
suspended at a request, with what it has read before (the document it sends, the
selection it compares with). The server is what the client sees of the registry:
a request is handled in one step, requests and answers overtake each other and may
be lost; a save whose document carries a path that is no longer the session's is refused
(isb.ts:294). A function is its handlers up to each answer: opening and creating end in
`setSessionState`, a save in the answer's document, a move in
`renameNotebookState`, a deletion in the records removed. `EditsSurvive` states where
an unsaved edit can be lost: only in a notebook that was edited while a function was
under way, left without a question, or asked for again (`exposed`, the history of such
moments).

### Web client: runs of cells

`CellRuns` follows `runCell` from the page through a socket of its own
(`link`, `up`, `down`) or, if that fails before the cell was sent, an HTTP request
(`http`), into the server (`loading`, `evaluated`) and its queue (`SerialExecutor`),
and back into what the page shows (`running`, `shown`, `results`, `kernel`).
Connections break with messages under way in both directions; the user runs a cell
again while it runs, deletes it, or gets another document; the inspector cancels
tasks. Output chunks are left out.

### Sockets that hold something

`ServerSockets` has one handler per socket: `work[s]` is the await it is at,
`stop` says whether the socket has its `stopStream` (or `closeTerminal`),
`timers[s]` and `held[s]` what it holds. The kit's side of a screencast goes on
after the handler has timed out (`op`, `waitsFor`, `discards`, `handle`). The audio
manager has its clients, one capture, the last process stopped on purpose
(`stopped`) and the processes, which die some time after they are killed.

### Background workers

`thread[h]` is what the thread of a worker does: `loading` its script, `running`
it, `lingering` (the script returned, but a listener or a timer keeps the thread
alive), `ending` (it has announced its end: `stopped` when its loop runs dry, `error`
before the timer that exits) or `dead`. `mail[h]` are its state messages that the main
thread has not handled. `calls[a]` is what a call of `stop`, `stopWorker` or
`restartWorker` is suspended in.

The worker is Bun's global `Worker`, whose `terminate()` returns undefined: the
`await` of line 411 lasts one microtask, after which the worker is recorded as stopped
and a restart launches the next one. So a command puts its workers into `told` at
once, their mail is dropped, and their threads go on, unheard, until `Killed` ends them
at any later time; nobody listens to the `close` event. `terminate()` cannot reject
and line 413 is not modelled. Events of workers are macrotasks, which no suspended
command overlaps (`NoCommand`); two calls overlap only when code makes both in one
turn, and callers of a script outside `Shared` do not.

Faults are properties of scripts: `Lingering`, `Garbling` (a message that cannot be
read) and `Quitting`: `process.exit()` in a script ends its thread without a word, and
the worker is reported as running until somebody stops it. `Halt` is `lifecycle.stop()`
as the process exits. `Start` and `Boot` are separated by the reading of `scripts/`;
index.tsx awaits both before it runs anything, and stops with no worker when the
directory cannot be read (`BootFails`). Log, metrics and event messages are left out:
they fill fields that decide nothing.

### QEMU kit

A launch is attached (the child is the machine) or a daemon (the child forks the
machine and exits, and the kit waits for a pid file). `net` is the host's taps, the
members of the bridge, the bridge and its marker; `found` what the host had before: its
own interfaces, or taps, bridge and marker left by a kit whose process was killed. A
bridge with a marker counts as the kit's and goes with its last member.
Network commands are synchronous in the code, so that making or removing interfaces
is one step, which may fail halfway. `children` and `tracked` are the kit's two maps,
`wait` what `trackDaemonizedLaunch` waits for, `stopping` what `onStop` has taken out
of the maps and awaits. Processes end at any point; the process of the kit ends by a
signal or an exit, and its hooks run.

## 3. The runs

| Run | Question | Bounds | Distinct states |
|---|---|---|---|
| `queue_notebook` | safety and progress of the queue when its notebook can be deleted and loaded again | 3 tasks, 1 notebook, retention 1, 2 other sections at once | 121 000 |
| `queue_vm` | does the queue implement `SerialExecutor`, with legal streams, and serve every task? | 3 tasks, 2 VMs without file, retention 1, 1 section | 44 000 |
| `sessions_moves` | the path index, the files and their owners under moves, deletions and crashes | 2 paths, 2 sessions, 2 clients, 1 user, 2 documents | 240 000 |
| `sessions_cells` | durability of answered cells, exclusion, and answers under fairness | 1 path, 1 session code, 2 VM objects, 1 client, 1 user, 2 cells | 169 000 |
| `snapshots` | does a VM recover from every failure, and does what is persisted keep up? | 2 saved cells, 1 more evaluation, 2 VMs, 1 file, 2 unfinished writes | 198 000 |
| `snapshots_writes` | the finding below | 1 evaluation, 2 VMs, no failures | - |
| `stream_sockets` | a careful client and a careless one, loads, cancellations, closures | 2 sockets, 3 tasks | 71 000 |
| `cells_on_the_page` | is a run evaluated once, shown truthfully, and ended, whatever breaks? | 2 runs, 2 cells, 1 of them removable | 380 000 |
| `documents` | where can an unsaved edit be lost, and what does the page know of the server? | 2 paths, 2 functions at a time, 2 edits, 2 sessions, 4 functions | 889 000 |
| `sockets_open` | what a socket leaves behind, closed at any point by either side | 3 audio sockets; 2 screencasts of a profile; 2 terminals and an inspector; 4 captures | 51 000 |
| `lifecycle_commands` | what a careful caller may rely on while another script has every fault | 2 scripts, 3 workers, 2 callers | 888 000 |
| `qemu_taps` | are the interfaces of the kit removed once, and no others? | 2 launches, 2 taps; a host that is empty, has interfaces of its own, or what a killed kit left | 1 044 000 |

Why the bounds are enough. Three tasks are one that runs, one that ended and is
evicted (retention 1) and one that waits; with two VMs a task waits for a session
that another does not use. Two paths are the two ends of a move; two sessions are
a session and the one that replaces it at the same path, or the two that two opens
would register; two clients meet on a path, miss each other, or follow one another. In
`sessions_cells` one session code is enough, since a deletion frees it for the next
notebook; two cells are one that was answered and one that a replaced VM or a copy
lacks, and two VM objects are the one in use and one that was replaced with a write
unfinished (`MaxPending = 1` of each).
In `RecoverableVm` two saved cells are a replay that can fail between them, two VMs
are one and the one that replaces it, and two unfinished writes are an older and a
newer one. Two sockets show that one client's mistakes stay its own. Two functions
of the page at a time are enough for one to overtake the other, and four in all for
a notebook to be created, saved, moved and deleted. Two runs of a cell are one that
overlaps the other. Three workers let one of two scripts restart once, and the fault
that a restart can cause is in the next command. Two launches share a tap or not;
`Results = {TRUE}` there leaves out that the host refuses to remove an interface,
which the theorems cover. Sockets of different kinds share nothing, so that the
instances keep them apart; four captures are more than three subscribers can start
at once.

Symmetry is used in runs without liveness properties only. `NotebookSessions` also
uses a view in `sessions_moves`, which has no cells: it hides the fields of sessions
that are not registered, which are assigned before they are read, and the contents of
raced paths, which every property excuses and a crash turns into an initial
state's. The
proofs of its properties use neither. Deadlock is not checked where the model stops by itself: tasks,
documents, launches or workers are spent.

Between them the passing runs take every action of the modules, and every property
of a passing run is violated by the mutant beside it in `PROJECT.json`.

### Properties

| Property | What would violate it |
|---|---|
| `QueueAgrees` | a task queued twice or forgotten, a slot without its run, an eviction of a live task |
| `OneAtATime`, `SessionIsExclusive` | two critical sections of a session that overlap, one of them a deletion or a restart |
| `CancellationsHold`, `CompletionAgrees` | a cancelled task that completes or is evaluated, a promise that disagrees with the status |
| `SerialExecution`, `TasksAreServed`, `QueueDrains` | an event after the last, a task out of order, a slot never given up |
| `IndexSound`, `FilesAgree`, `NotebooksSurvive` | two sessions of a notebook, a document under a path its session has not, a notebook lost in a move |
| `AnsweredCellIsSaved`, `RequestsEnd` | an answered cell that a crash forgets, a request that waits for ever |
| `VmIsRecovered` | a cell that runs twice in one context, persistence that stays off, a request's file undone by a replay |
| `SnapshotsKeepUp`, `WritersAreTold` | an older snapshot over a newer one, an evaluation nobody tells of a failed write |
| `ActiveIsLive`, `ListenersServe`, `AnswersCome` | a socket blocked by a task that ended, a listener nobody removes, an end nobody tells |
| `RunsAreTrue`, `PageShowsTheRuns`, `RunsEnd` | a cell evaluated over the socket and again by HTTP, a flag that never goes, a run that never ends |
| `EditsSurvive`, `PageAgrees` | an edit overwritten, a mark, a session or a selection that stays behind |
| `SocketsOK`, `SocketsAreFreed` | a screencast, timer or capture of a socket that is gone, an exit that closes those who came later |
| `OneWorkerPerScript`, `DeadIsReported`, `StoppedHasEnded` | a script that goes on in two threads, a thread no command finds, a dead worker reported as running, a stop that tells nobody, a stopped worker that is revived |
| `InterfacesAreOwned`, `NothingIsLeft`, `EndedIsCleaned` | a tap removed twice, too early or never, a foreign one removed, a machine no stop reaches |

### Fairness

* Queue: weak fairness of the pump, of the run and of the end of loads, saves and
  deletions (the event loop runs what is ready, file operations come back). None of
  user code: a cell may never end. `QueueDrains` therefore says that tasks end if
  user code always ends and the slot is not lost.
* Sessions: weak fairness of each suspended request and of snapshot writes; none
  of cells and of the replay of snapshots. `RequestsEnd` assumes that user code ends.
* Recoverable VM: writes to the disk end, with success or not. Nothing else.
* Execution stream: weak fairness of the queue's service and of loads; `AnswersCome`
  assumes that the current task always ends.
* Runs of cells: what was sent arrives or the connection breaks, which the browser
  notices; the code of a cell is assumed to end.
* Sockets: the event loop, the timeouts and the watchdog fire; the kits answer, what
  is stopped ends and a killed process dies, which the code takes for granted too.
* QEMU kit: exit handlers, monitors and timers run, and a process that was sent
  SIGTERM exits. A machine need not end on its own.
* Workers and documents: no liveness property; a script or a request need not end.

## 4. What is proved

The theorems hold for any finite or infinite sets of tasks, VMs, paths, sessions,
requests, sockets, cells, notebooks, scripts, workers, launches and interfaces, and
any bounds, under the named assumptions of the modules (distinct special values,
natural bounds).

**ExecutionQueueProofs.** The type invariant is strengthened by `SlotOK` (slot,
status of its task, suspended run and session chain agree) and `OneAtATime`:
`ExclusionInv` is inductive, since a section only starts at the head of its
chain and the run is suspended in at most one. `CancelInv` adds the fact that a
task whose promise resolved is completed: on its own, the cancellation property
says nothing of the moment between a request and the end of the evaluation.
`QueueInv` adds that the queue has no duplicates and that its members are known and not
yet cancelled, from which eviction of ended tasks cannot touch them. `EarlyInv`
follows a task that is cancelled while its session is loaded through its start,
which the code does not prevent, to the check in front of the evaluation, which
does. `CompletionInv` is `CompletionAgrees` by cases of the status, with what a
task's events say of its start: only a task that was cancelled while its session was
loaded is started with a rejected promise. `ServedInv` says of a VM without a notebook
that it stays registered once a task names it and that the events of its tasks are
those of their status; it needs `QueueInv`, since a task that started twice would tell
so. Theorems: `TypeCorrect`, `SlotDiscipline`, `Exclusion`, `CancellationHolds`,
`QueueComplete`, `LiveKnown`, `Retention`, and for the properties of the runs
`BooksAgree`, `EveryCancellationHolds`, `CompletionTold` and `ServedToTheEnd`.
`ImplementsSerialExecutor` is the refinement: under `Unbound` (no request names a VM
of a notebook, as in the run; notebooks may exist beside) the initial states map to
`SerialExecutor`'s and every action to one of its steps or to a stutter, with all of
these invariants as the hypothesis of the step.

**NotebookSessionsProofs.** `ShapeOK` gives the fields each suspended request must
have (a move past its start has a path, a target and a session), without which the
types are not preserved. `FreshOK` says that a code that is about to be registered
is used by nobody else, `IndexOK` that the index never leads to a session bound
elsewhere, registered or not, and `TurnOK` that a request past its turn is the head
of its session's chain. `CellsInv` follows the cell of an evaluation to the notebook:
it is in the VM, in the last unfinished write of that VM, then in the snapshot file, unless a replaced VM wrote it last, then in the copy that was read;
`TurnOK` keeps the others away meanwhile.

Who owns a file is only true where requests do not meet (section 5 says what two
concurrent creations do). The server puts nothing between two clients, and no theorem
assumes that they take turns. `FilesInv` speaks of each path that is not raced: a request
that works on none (`Clean`) is alone on its paths (`RacesOK`: two requests whose paths
meet are both raced), so that nobody but evaluations, restarts and saves of the session
itself comes between its awaits. For such a request `ClientOK` says at each await of a
creation, a deletion and a move where the notebook is then: at its path, at both, or
only at the target, of which the copy is complete; `BoundOK` says that a request
on raced paths disposes of, or rebinds, a session whose path is raced, and `ReloadOK`
what a reload has read.
Requests on raced paths may do anything to those paths, but to no other
(lemma `RacedFiles`). Theorems, for any number of clients that do as they like:
`RegistryTypeCorrect`, `IndexIsSound`, `ExclusiveSessions`, `AnsweredCellsAreSaved`,
`SessionsAndFilesAgree`, `NotebooksAreKept` (an action property).

**RecoverableVmProofs.** `VmInv` is the types, `ShapeOK` (at which await an operation
can be, and in which VM), `SuppressOK` (persistence is off exactly while an operation
runs user code and until its snapshot is written), `FreshOK` (a VM that was not made
yet is empty), `ContextOK` (the context holds the cells replayed so far) and `KeptOK`:
before the replay, the files of requests must be in the snapshot too, since the replay
puts its files back. `SavedInv` adds `LagOK`, the order notebook, snapshot file,
queued snapshots, VM, also for a copy that was read and is not yet written, and
`AnswerOK`: where the evaluation that is being saved has come to. While a restart
prepares a VM the file holds exactly that VM's cells, which is what the swap relies on.
Theorems: `VmTypeCorrect`, `VmAlwaysRecovers`, `SnapshotsAlwaysKeepUp`.

**SocketsProofs.** Two modules without a common variable. Of `ExecutionStream`:
`SocketInv` adds to the types that an open socket without an active task has no
subscription; `StreamInv` adds the queue's own invariant, that it holds a task once
and only while it is pending, without which the task whose end frees a socket could
still be in line. `PatientInv` is about the tasks of a client that waits for its
answers: one it was told of is over, and nothing listens to it; the only other one is
about to become a task of the queue, or is pending there and listened to by the
subscription of its own socket. Theorems: `StreamTypeCorrect`, `StreamsAreFreed`,
`ListenersLast`. Of `ServerSockets`: `PlaceOK` gives the await each handler can be at
for its kind and what it may hold there, `OwnedOK` that what is held or timed belongs
to a socket that has its stop function or whose handler will still give it up,
`AudioOK` the same of the one capture, its clients and the process stopped last.
Theorem: `SocketsAlwaysOK`.

**CellRunsProofs.** `CellInv` is the types, `QueueOK` (the queue holds a request
once, while it is pending), `EvaluatedOK` and, for each run, `SocketOK` (its cell is
on its way, with the server, or known to the queue, in this order and only once),
`HttpOK` (a run that uses HTTP has sent nothing over its socket) and `TruthOK` (what
is under way to the page agrees with the outcome). That a run is evaluated once
needs the first two; that the page tells the truth needs the third, since messages
of a broken connection are still delivered. `ShowInv` is about the cells: runs are
numbered in their order (`RunsInOrder`), the flags of a cell are those of an unsettled
run (`FlagsOK`, `KernelOK`), and of a cell that runs once at a time only the last run
can be unsettled or have left a result (`LastRuns`, `ResultsOK`). Theorems:
`CellTypeCorrect`, `RunsAreAlwaysTrue`, `PageIsTrue`.

**NotebookStoreProofs.** `TypeInv` adds to the types that an answered function holds a
session of what it asked for. An unsaved edit is safe (`Safe`) once it is exposed,
because its loss is then accounted for; `EditsInv` says that every other one is on the
selected notebook and spared by each function under way (`Spares`: a save that carries
it or has failed, a creation, move or deletion of another notebook). `AgreeInv` has a
part that no fault breaks (`ServerOK`, sessions and notebooks one to one) and a part
for one function at a time without lost messages (`Alone`, `Known`, `Informed`): the
code the page has for a notebook is the server's, except while the answer of its move
or deletion is on its way, and that answer says what the server did. `SavingInv` is
that a save holds `isSaving`; no fault is excluded there. Theorems:
`StoreTypeCorrect`, `EditsAlwaysSurvive`, `PageAlwaysAgrees`.

**BackgroundLifecycleProofs.** A thread is *left to itself* (`Going`) when it is
alive, has not announced its end and was not told to end. `ReportInv`: of a worker
that was told to end nothing is on its way, and its status says so or is about to; of
any other whose script has ended, unless it may quit, the last thing that is known, or
on its way, is its end. `EndInv`: a worker of a script without faults that is reported
as ended, or that a command is about, is not left to itself and has no mail; the
message that announces an end is the last one. `MapInv`: at most one worker of a script
whose callers take turns is in the map, or about to be replaced. `LostStep`: what is
left to itself stays in the map. Theorems: `LifecycleTypeCorrect`, `DeathIsReported`,
`StoppedWorkersEnd` (an action property), `ScriptsResolve` and `OneWorker`. None of them
says when a thread dies: the code does not know it.

**QemuVmsProofs.** `QemuInv` is the types, `LaunchOK` (the fields of a launch agree),
`HandsOK` (no process is both tracked and being stopped), `NetOK` (the taps somebody
owes to remove are there, made for one launch and not the host's own; unless the host
refused a removal there are no others but its own; so for the bridge and its
marker), `KnownOK` (how a machine that runs is known to the kit, or known to be
missed) and `ExitLeavesNoTap`. The hard part is that removal happens in five places:
with `HandsOK` exactly one of them is responsible. Theorems: `TypeIsInvariant`,
`InterfacesAlwaysOwned`, `NothingIsEverLeft`, also when the host refuses to remove
an interface.

Only model-checked: liveness (`QueueDrains`, `RequestsEnd`, `AnswersCome`,
`WritersAreTold`, `RunsEnd`, `SocketsAreFreed`, `EndedIsCleaned`), which needs
fairness and ENABLED. Every invariant and action property of the passing runs is
proved.

## 5. Findings

`snapshots_writes`: `recoverable-vm-fs.ts:147` says "Writes persist into the notebook
snapshot." A request that writes a file into a VM (sessions.ts:1277) starts the
write of the snapshot without waiting for it and copies the snapshot file into the
notebook at once, so that the copy may lack the file. A restart or a reload before the
next save then loses a file whose write was answered.

Known limits of the code, which no document of the repository denies. The modules
contain these behaviours, and the properties hold beside them because they say
where:

* Queue. A task cancelled while its session is loaded is told so and started anyway,
  though never evaluated (sessions.ts:997-1011). A load that rejects keeps the slot
  for ever (sessions.ts:997). A cancel message that comes while its execute message
  waits for the VM finds no task (index.ts:556).
* Sessions. Two concurrent requests that create or move to one path both pass the
  check (sessions.ts:317-321, 388-393); an unfinished snapshot write of a VM that a
  restart replaced lands after those of the new VM, so that the notebook may lack an
  answered cell (sessions.ts:1467, recoverable-vm.ts:1510); a request queued behind a deletion writes the
  deleted document over a notebook created meanwhile (sessions.ts:1571). Globals are
  prepared before the `try` that resets the active evaluation (sessions.ts:616), and
  a running task listens to the VM it found first (sessions.ts:1002).
* VM. Nothing stops the timers of a VM that was replaced, and its snapshots reach
  the same file (recoverable-vm.ts:1344); `SnapshotsKeepUp` holds while they are
  silent.
* Execution stream. Two execute messages that come while a VM is loaded are both
  accepted on one socket (index.ts:574-610): clients outside `Patient`.
* Web client. A save answer overwrites what was typed since the request
  (ui.ts:1699); creating a notebook leaves a dirty one without a question
  (ui.ts:1202); edits that were given up stay marked as clean if the switch then
  fails. The answer of a run whose cell was moved or deleted lands in an entry nobody
  shows; of two runs of a cell the first to end clears the flag and settles the other's
  task; a page that lost its connection shows a failure while the server goes on.
* Sockets. A start of a screencast that timed out may complete later and be nobody's
  until the next start, and two concurrent starts may leave one behind
  (cloak-kit.ts:1380); with two stopped captures at once the exit of the first closes
  new subscribers (browser-audio.ts:255).
* Workers. A restart launches a script while the thread it replaces may still be
  alive, and a stop returns before the thread has ended (background-lifecycle.ts:411);
  two restarts in one turn launch a script twice, after which its name is
  ambiguous (background-lifecycle.ts:255-262); a worker whose script returned but
  whose thread lives on is reported as stopped and no stop reaches it
  (background-lifecycle.ts:402); one whose script calls `process.exit()` is reported
  as running for ever (no `close` handler, background-lifecycle.ts:356-365); a start that cannot read its directory counts as
  started (background-lifecycle.ts:222).
* QEMU kit. Two launches that name a tap that exists share it (qemu-kit.ts:474); a
  signal between the hooks' removal and the end of a stop leaves interfaces
  (qemu-kit.ts:2019); a pid file that comes after five seconds is nobody's
  (qemu-kit.ts:2719); a machine that ignores SIGTERM is not killed (qemu-kit.ts:2759);
  a failure to make the temporary directory leaves the taps (qemu-kit.ts:2474).
* Console. The session state is written in place (session-state.ts:223).

## 6. Not modelled

* In the queue: a new notebook at the path of a deleted one, and the replacement
  of a session's VM by a restart; output chunks and inspector subscriptions.
* In the registry: `deleteFsEntry`, copies of files between VMs, cell results and
  snapshots for the inspector, validation of documents, the search and its cache.
* In the VM: globals and their inspection, the wrapped asynchronous second attempt
  at a cell that does not parse, cell ids.
* In the server: HTTP routing and formatting; what sockets send; the input of
  terminals and pages; later snapshots of tabs. A crash of the server is in
  `NotebookSessions` and `RecoverableVm` only: after it a page sees a lost connection.
* In the web client: panels for files, browsers, packages and applications, and
  functions no page calls (`restartKernel`, `reloadNotebook`, `stopExecution`,
  `runNotebook`, `selectFile`, `loadNotebook`, `evaluateRemoteCellOverStream`).
* In the kits: presets, disk images and the construction of QEMU commands, a second
  stop during a stop, reuse of a pid; profiles, tabs, fingerprints and storage of the
  browser kit; the kits that drive one external program by one awaited call after
  the other (bpkg, proxy, aircrack, FTP, Docker, discovery), whose behaviour is that of
  those programs.
* In the workers: the pruning of stored logs.
* Components without shared state of their own: the port scanner (each probe settles
  by its own flag), the hunter's rate limiter, console input, walkers, the output
  stack, the storage kit's SQL, configuration; rendering and vendored code, which is
  most of the repository's lines. `PROJECT.json` gives the reason for each.

## 7. What is left

* Composition of `RecoverableVm` with the queue, for the VM that a restart replaces
  while a task listens to it.
* `deleteFsEntry` and the copies of files between VMs in `NotebookSessions`.
