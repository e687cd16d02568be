--------------------------- MODULE ExecutionQueue ---------------------------
(***************************************************************************)
(* The execution queue of the notebook VM server (VmServerSessions in      *)
(* src/vm/server/sessions.ts): cells of every VM run one at a time, in the *)
(* order they were submitted, each as an execution task that a client can  *)
(* cancel while it waits and while it runs.                                *)
(*                                                                         *)
(* The server is one JavaScript thread.  An action is what one turn of the *)
(* event loop does up to its next I/O wait; control says which synchronous *)
(* continuation of the current turn is next, and no request, I/O           *)
(* completion or cancellation is served before it is "loop" again.  An     *)
(* await on a promise that is already resolved does not end the turn.      *)
(*                                                                         *)
(* A VM is known by its code.  The session objects a code can go through   *)
(* are the "original" one (bound to a notebook file when the code is in    *)
(* FileCodes) and the "reloaded" one that getOrLoadSession builds from the *)
(* snapshot file, which is never bound to a notebook file.                 *)
(***************************************************************************)
EXTENDS Naturals, FiniteSets, Sequences

CONSTANTS Tasks,        \* execution task ids (crypto.randomUUID)
          Codes,        \* VM codes
          FileCodes,    \* codes whose original session is bound to a notebook
          MaxRetained,  \* MAX_RETAINED_EXECUTION_TASKS
          MaxJobs,      \* bound: callers waiting for one session at a time
          NoTask        \* the null of activeExecutionTaskId

ASSUME RetainedAssumption == MaxRetained \in Nat \ {0}
ASSUME FileCodesAssumption == FileCodes \subseteq Codes
ASSUME NoTaskAssumption == NoTask \notin Tasks
ASSUME MaxJobsAssumption == MaxJobs \in Nat

VARIABLES
  codeOf,           \* the VM each request names
  known,            \* keys of executionTasks
  status,           \* task.status, "none" before the task exists
  cancelRequested,  \* task.cancelRequested
  completion,       \* state of the promise task.completion
  stream,           \* lifecycle events emitted for the task, in order
  evaluated,        \* history: tasks whose input reached the VM
  queue,            \* queuedExecutionTaskIds
  completed,        \* completedExecutionTaskIds
  active,           \* activeExecutionTaskId
  pumping,          \* isProcessingExecutionQueue
  control,          \* continuation of the current turn, "loop" between turns
  phase,            \* the await at which runExecutionTask is suspended
  object,           \* session object the active task evaluates on
  sessions,         \* the sessions map: code -> session object
  loading,          \* keys of sessionLoads
  snapshot,         \* codes that have a snapshot file
  file,             \* codes whose notebook file exists
  mutex             \* session.queue of each object: callers, the head runs

taskVars == <<codeOf, known, status, cancelRequested, completion, stream,
              evaluated>>
queueVars == <<queue, completed, active, pumping, control, phase, object>>
sessionVars == <<sessions, loading, snapshot, file, mutex>>
vars == <<taskVars, queueVars, sessionVars>>

Terminal == {"completed", "failed", "cancelled"}
Objects == {"original", "reloaded"}
Jobs == {"eval", "delete", "unlink", "other"}
Events == {"queued", "started", "result", "error", "cancelled", "complete"}
Members(s) == {s[i] : i \in DOMAIN s}
Bound(c, o) == c \in FileCodes /\ o = "original"

Init ==
  /\ codeOf \in [Tasks -> Codes]
  /\ known = {}
  /\ status = [t \in Tasks |-> "none"]
  /\ cancelRequested = [t \in Tasks |-> FALSE]
  /\ completion = [t \in Tasks |-> "pending"]
  /\ stream = [t \in Tasks |-> <<>>]
  /\ evaluated = {}
  /\ queue = <<>>
  /\ completed = <<>>
  /\ active = NoTask
  /\ pumping = FALSE
  /\ control = "loop"
  /\ phase = "idle"
  /\ object = "absent"
  /\ sessions \in [Codes -> {"original", "absent"}]
  /\ loading = {}
  /\ snapshot = Codes
  /\ file = FileCodes
  /\ mutex = [c \in Codes |-> [o \in Objects |-> <<>>]]

-----------------------------------------------------------------------------
(* Helpers of the handlers. *)

Emit(t, events) == stream' = [stream EXCEPT ![t] = @ \o events]

\* completion settles once: a later resolve or reject has no effect.
\* (NeverSettles: the reject or resolve is forgotten.)
NeverSettles(t, as) == completion' = completion
SettleCompletion(t, as) ==
  completion' = [completion EXCEPT ![t] = IF @ = "pending" THEN as ELSE @]

\* rememberCompletedExecutionTask: one push, so at most one shift.
Remember(t, waiting) ==
  LET list == Append(completed, t)
      oldest == Head(list)
  IN IF Len(list) <= MaxRetained
       THEN completed' = list /\ known' = known
       ELSE /\ completed' = Tail(list)
            /\ known' = IF oldest = active \/ oldest \in Members(waiting)
                          THEN known ELSE known \ {oldest}

\* queuedExecutionTaskIds.push  (AtFront: an unshift instead.)
AtFront(q, t) == <<t>> \o q
AtBack(q, t) == Append(q, t)

\* removeQueuedExecutionTask: indexOf and splice of the first occurrence.
\* (StaysQueued: the splice is forgotten.)
Splice(q, i) == [j \in 1..(Len(q) - 1) |-> IF j < i THEN q[j] ELSE q[j + 1]]
IsIndexOf(i, q, t) ==
  i \in DOMAIN q /\ q[i] = t /\ \A j \in 1..(i - 1) : q[j] # t
StaysQueued(q, t) == q
Without(q, t) ==
  IF t \in Members(q) THEN Splice(q, CHOOSE i \in DOMAIN q : IsIndexOf(i, q, t))
  ELSE q

\* scheduleExecutionQueuePump: a no-op while the pump is processing.
\* (NoPump: the call is forgotten.)
NoPump == control' = "loop"
SchedulePump == control' = IF pumping THEN "loop" ELSE "pump"

AddJob(c, o, job) == mutex' = [mutex EXCEPT ![c][o] = Append(@, job)]
EndJob(c, o) == mutex' = [mutex EXCEPT ![c][o] = Tail(@)]
\* runExclusive: a job runs when it heads the session's chain of promises.
\* (Barges: it does not wait for the jobs ahead of it.)
Barges(c, o, job) == job \in Members(mutex[c][o])
Holds(c, o, job) == mutex[c][o] # <<>> /\ Head(mutex[c][o]) = job

-----------------------------------------------------------------------------
(* Requests of clients. *)

\* startExecutionTask has its session.
Startable(t) == status[t] = "none" /\ sessions[codeOf[t]] # "absent"

\* startExecutionTask, once its getOrLoadSession has the session.
Start(t) ==
  /\ control = "loop"
  /\ Startable(t)
  /\ status' = [status EXCEPT ![t] = "queued"]
  /\ known' = known \union {t}
  /\ queue' = AtBack(queue, t)
  /\ Emit(t, <<"queued">>)
  /\ SchedulePump
  /\ UNCHANGED <<codeOf, cancelRequested, completion, evaluated, completed,
                 active, pumping, phase, object, sessionVars>>

\* The task is still queued.  (UnlessRunning: it may have ended too.)
UnlessRunning(t) == t \in known /\ status[t] # "running"
Waiting(t) == t \in known /\ status[t] = "queued"

\* cancelExecutionTask of a task that is still queued.
CancelQueued(t) ==
  /\ control = "loop"
  /\ Waiting(t)
  /\ cancelRequested' = [cancelRequested EXCEPT ![t] = TRUE]
  /\ status' = [status EXCEPT ![t] = "cancelled"]
  /\ queue' = Without(queue, t)
  /\ SettleCompletion(t, "rejected")
  /\ Emit(t, <<"cancelled", "complete">>)
  /\ Remember(t, queue')
  /\ SchedulePump
  /\ UNCHANGED <<codeOf, evaluated, active, pumping, phase, object,
                 sessionVars>>

\* cancelExecutionTask of a running task: only the flag is set.
CancelRunning(t) ==
  /\ control = "loop"
  /\ t \in known
  /\ status[t] = "running"
  /\ cancelRequested' = [cancelRequested EXCEPT ![t] = TRUE]
  /\ UNCHANGED <<codeOf, known, status, completion, stream, evaluated,
                 queueVars, sessionVars>>

-----------------------------------------------------------------------------
(* processExecutionQueue, within one turn. *)

\* Take the next id off the queue; skip it unless it can still be started.
PumpShift ==
  /\ control = "pump"
  /\ active = NoTask
  /\ queue # <<>>
  /\ LET t == Head(queue)
         startable == t \in known /\ status[t] = "queued" /\ ~cancelRequested[t]
     IN /\ active' = IF startable THEN t ELSE NoTask
        /\ control' = IF startable THEN "run" ELSE "pump"
  /\ queue' = Tail(queue)
  /\ pumping' = TRUE
  /\ UNCHANGED <<taskVars, completed, phase, object, sessionVars>>

\* Nothing to do, or a task holds the slot: the pump returns.
PumpExit ==
  /\ control = "pump"
  /\ active # NoTask \/ queue = <<>>
  /\ pumping' = FALSE
  /\ control' = "loop"
  /\ UNCHANGED <<taskVars, queue, completed, active, phase, object,
                 sessionVars>>

-----------------------------------------------------------------------------
(* runExecutionTask of the active task. *)

\* getOrLoadSession finds the session: the task is marked running, whatever
\* its status was, and evaluateWithLanguage waits for the session's mutex.
RunStart ==
  /\ control = "run"
  /\ sessions[codeOf[active]] # "absent"
  /\ object' = sessions[codeOf[active]]
  /\ status' = [status EXCEPT ![active] = "running"]
  /\ Emit(active, <<"started">>)
  /\ AddJob(codeOf[active], object', "eval")
  /\ phase' = "waiting"
  /\ control' = "loop"
  /\ UNCHANGED <<codeOf, known, cancelRequested, completion, evaluated, queue,
                 completed, active, pumping, sessions, loading, snapshot, file>>

\* The session is gone but its snapshot can still be loaded, or is loading.
RunAwaitLoad ==
  /\ control = "run"
  /\ sessions[codeOf[active]] = "absent"
  /\ codeOf[active] \in loading \union snapshot
  /\ loading' = loading \union {codeOf[active]}
  /\ phase' = "loading"
  /\ control' = "loop"
  /\ UNCHANGED <<taskVars, queue, completed, active, pumping, object,
                 sessions, snapshot, file, mutex>>

\* runExecutionTask rejects before its try block: the exception leaves the
\* pump through its finally, which clears isProcessingExecutionQueue only.
RunRejected ==
  /\ pumping' = FALSE
  /\ phase' = "lost"
  /\ control' = "loop"
  /\ UNCHANGED <<taskVars, queue, completed, active, object>>

\* Neither session, nor load, nor snapshot: 404 Unknown VM code.
RunUnknownCode ==
  /\ control = "run"
  /\ sessions[codeOf[active]] = "absent"
  /\ codeOf[active] \notin loading \union snapshot
  /\ RunRejected
  /\ UNCHANGED sessionVars

\* The evaluation is over: runExecutionTask settles the task and the pump goes
\* on with the next one.  An error of a task asked to cancel is a cancellation.
Settle(ok) ==
  LET t == active
      outcome == IF ok THEN "completed"
                 ELSE IF cancelRequested[t] THEN "cancelled" ELSE "failed"
      event == IF ok THEN "result"
               ELSE IF cancelRequested[t] THEN "cancelled" ELSE "error"
  IN /\ status' = [status EXCEPT ![t] = outcome]
     /\ SettleCompletion(t, IF ok THEN "resolved" ELSE "rejected")
     /\ Emit(t, <<event, "complete">>)
     /\ Remember(t, queue)
     /\ EndJob(codeOf[t], object)
     /\ active' = NoTask
     /\ phase' = "idle"
     /\ object' = "absent"
     /\ control' = "pump"
     /\ UNCHANGED <<codeOf, cancelRequested, queue, pumping, sessions, loading,
                    file>>

-----------------------------------------------------------------------------
(* evaluateWithLanguage inside runExclusive. *)

\* throwIfExecutionCancelled
Cancelled(t) == cancelRequested[t]

\* The mutex is granted: stop here if cancelled, else hand the input to the VM.
EvalEnter ==
  /\ control = "loop"
  /\ phase = "waiting"
  /\ Holds(codeOf[active], object, "eval")
  /\ IF Cancelled(active)
       THEN Settle(FALSE) /\ UNCHANGED <<evaluated, snapshot>>
       ELSE /\ phase' = "evaluating"
            /\ evaluated' = evaluated \union {active}
            /\ UNCHANGED <<codeOf, known, status, cancelRequested, completion,
                           stream, queue, completed, active, pumping, control,
                           object, sessionVars>>

\* The VM (or the database) answers.  A JavaScript cell that ran was saved to
\* the snapshot file before the cancellation flag is looked at again; the file
\* comes back if the session has been disposed of meanwhile.
EvalReturn(ok, saved) ==
  /\ control = "loop"
  /\ phase = "evaluating"
  /\ saved => ok
  /\ snapshot' = IF saved THEN snapshot \union {codeOf[active]} ELSE snapshot
  /\ UNCHANGED evaluated
  /\ IF ok /\ ~Cancelled(active) /\ Bound(codeOf[active], object)
       THEN /\ phase' = "persisting"
            /\ UNCHANGED <<codeOf, known, status, cancelRequested, completion,
                           stream, queue, completed, active, pumping, control,
                           object, sessions, loading, file, mutex>>
       ELSE Settle(ok /\ ~Cancelled(active))

\* persistBoundFileSession returns; without the notebook file it throws.
\* (PersistEnds: the last look at the flag is dropped.)
PersistEnds(ok) ==
  /\ control = "loop"
  /\ phase = "persisting"
  /\ ok => codeOf[active] \in file
  /\ Settle(ok)
  /\ UNCHANGED <<evaluated, snapshot>>
PersistReturn(ok) ==
  /\ control = "loop"
  /\ phase = "persisting"
  /\ ok => codeOf[active] \in file
  /\ Settle(ok /\ ~Cancelled(active))
  /\ UNCHANGED <<evaluated, snapshot>>

-----------------------------------------------------------------------------
(* The sessions, as far as other requests change them for the queue. *)

\* getOrLoadSession on behalf of any other request.
LoadBegin(c) ==
  /\ control = "loop"
  /\ sessions[c] = "absent"
  /\ c \in snapshot \ loading
  /\ loading' = loading \union {c}
  /\ UNCHANGED <<taskVars, queueVars, sessions, snapshot, file, mutex>>

\* instantiateSession registers the session; a task waiting for it goes on.
LoadDone(c) ==
  /\ control = "loop"
  /\ c \in loading
  /\ loading' = loading \ {c}
  /\ sessions' = [sessions EXCEPT ![c] = "reloaded"]
  /\ control' = IF phase = "loading" /\ codeOf[active] = c THEN "run" ELSE "loop"
  /\ UNCHANGED <<taskVars, queue, completed, active, pumping, phase, object,
                 snapshot, file, mutex>>

\* (FailureCached: the failed load is registered as if it had succeeded.)
FailureCached(c) ==
  /\ control = "loop"
  /\ c \in loading
  /\ loading' = loading \ {c}
  /\ sessions' = [sessions EXCEPT ![c] = "undefined"]
  /\ UNCHANGED <<taskVars, queueVars, snapshot, file, mutex>>

\* The snapshot cannot be replayed: every caller waiting for the load rejects.
LoadFail(c) ==
  /\ control = "loop"
  /\ c \in loading
  /\ loading' = loading \ {c}
  /\ IF phase = "loading" /\ codeOf[active] = c
       THEN RunRejected
       ELSE UNCHANGED <<taskVars, queueVars>>
  /\ UNCHANGED <<sessions, snapshot, file, mutex>>

\* deleteFile of a notebook whose session is registered waits for the session.
DeleteRequest(c) ==
  /\ control = "loop"
  /\ c \in file
  /\ sessions[c] = "original"
  /\ Len(mutex[c]["original"]) < MaxJobs
  /\ AddJob(c, "original", "delete")
  /\ UNCHANGED <<taskVars, queueVars, sessions, loading, snapshot, file>>

\* Any other exclusive operation: save, restart, reload, file system access.
OtherRequest(c) ==
  /\ control = "loop"
  /\ sessions[c] # "absent"
  /\ Len(mutex[c][sessions[c]]) < MaxJobs
  /\ AddJob(c, sessions[c], "other")
  /\ UNCHANGED <<taskVars, queueVars, sessions, loading, snapshot, file>>

\* The notebook file is removed and disposeSession forgets the session ...
DeleteFile(c) ==
  /\ control = "loop"
  /\ Holds(c, "original", "delete")
  /\ c \in file
  /\ file' = file \ {c}
  /\ sessions' = [sessions EXCEPT ![c] = "absent"]
  /\ mutex' = [mutex EXCEPT ![c]["original"][1] = "unlink"]
  /\ UNCHANGED <<taskVars, queueVars, loading, snapshot>>

\* ... and then waits for the removal of its snapshot file, whose failure it
\* ignores.
Unlink(c, removed) ==
  /\ control = "loop"
  /\ Holds(c, "original", "unlink")
  /\ snapshot' = IF removed THEN snapshot \ {c} ELSE snapshot
  /\ EndJob(c, "original")
  /\ UNCHANGED <<taskVars, queueVars, sessions, loading, file>>

\* deleteIsbFile throws: nothing is disposed of.
DeleteFails(c) ==
  /\ control = "loop"
  /\ Holds(c, "original", "delete")
  /\ EndJob(c, "original")
  /\ UNCHANGED <<taskVars, queueVars, sessions, loading, snapshot, file>>

\* Another exclusive operation ends, having saved the VM or not.
OtherDone(c, o, saved) ==
  /\ control = "loop"
  /\ Holds(c, o, "other")
  /\ snapshot' = IF saved THEN snapshot \union {c} ELSE snapshot
  /\ EndJob(c, o)
  /\ UNCHANGED <<taskVars, queueVars, sessions, loading, file>>

-----------------------------------------------------------------------------
Cancel(t) == CancelQueued(t) \/ CancelRunning(t)
Pump == PumpShift \/ PumpExit
Run == RunStart \/ RunAwaitLoad \/ RunUnknownCode
LoadEnd(c) == LoadDone(c) \/ LoadFail(c)
DeleteEnd(c) == \/ DeleteFile(c)
                \/ \E removed \in BOOLEAN : Unlink(c, removed)
                \/ DeleteFails(c)
JobEnd(c, o) == \/ o = "original" /\ DeleteEnd(c)
                \/ \E saved \in BOOLEAN : OtherDone(c, o, saved)

Next ==
  \/ \E t \in Tasks : Start(t) \/ Cancel(t)
  \/ Pump
  \/ Run
  \/ EvalEnter
  \/ \E ok, saved \in BOOLEAN : EvalReturn(ok, saved)
  \/ \E ok \in BOOLEAN : PersistReturn(ok)
  \/ \E c \in Codes : \/ LoadBegin(c) \/ LoadEnd(c)
                      \/ DeleteRequest(c) \/ OtherRequest(c)
                      \/ \E o \in Objects : JobEnd(c, o)

Spec == Init /\ [][Next]_vars

\* The event loop runs what is ready and file operations come back.  Nothing is
\* assumed of EvalReturn, LoadDone and OtherDone: evaluating a cell, replaying a
\* snapshot and restarting a session run user code, which may never end.
Fairness ==
  /\ WF_vars(Pump)
  /\ WF_vars(Run)
  /\ WF_vars(EvalEnter)
  /\ WF_vars(\E ok \in BOOLEAN : PersistReturn(ok))
  /\ \A c \in Codes : WF_vars(DeleteEnd(c))

FairSpec == Spec /\ Fairness

-----------------------------------------------------------------------------
(* Properties. *)

\* Every variable keeps its type.
TypeOK ==
  /\ codeOf \in [Tasks -> Codes]
  /\ known \subseteq Tasks
  /\ status \in [Tasks -> {"none", "queued", "running"} \union Terminal]
  /\ cancelRequested \in [Tasks -> BOOLEAN]
  /\ completion \in [Tasks -> {"pending", "resolved", "rejected"}]
  /\ stream \in [Tasks -> Seq(Events)]
  /\ evaluated \subseteq Tasks
  /\ queue \in Seq(Tasks)
  /\ completed \in Seq(Tasks)
  /\ active \in Tasks \union {NoTask}
  /\ pumping \in BOOLEAN
  /\ control \in {"loop", "pump", "run"}
  /\ phase \in {"idle", "loading", "waiting", "evaluating", "persisting",
                "lost"}
  /\ object \in Objects \union {"absent"}
  /\ sessions \in [Codes -> Objects \union {"absent"}]
  /\ loading \subseteq Codes
  /\ snapshot \subseteq Codes
  /\ file \subseteq Codes
  /\ mutex \in [Codes -> [Objects -> Seq(Jobs)]]

\* No submitted task is forgotten: a task is "queued" exactly while its id is in
\* the queue, once, or while it holds the slot and waits for its session to be
\* loaded (cancelExecutionTask splices, processExecutionQueue shifts).
QueueIsComplete ==
  /\ \A i, j \in DOMAIN queue : queue[i] = queue[j] => i = j
  /\ \A t \in Tasks :
       IF status[t] = "queued"
         THEN t \in Members(queue) \/ (t = active /\ phase \in {"idle", "loading", "lost"})
         ELSE t \notin Members(queue)
  /\ active \notin Members(queue)

\* Cells run one at a time, on every VM together: the only running task holds
\* the slot, and while its input is with the VM it heads the session's mutex, so
\* no save, restart, delete or file operation of that session object overlaps it.
OneAtATime ==
  /\ \A t \in Tasks : status[t] = "running" => t = active
  /\ phase \in {"evaluating", "persisting"} =>
       Holds(codeOf[active], object, "eval")

\* The slot and the suspended runExecutionTask agree: what the phase, the status
\* of the active task and the chain of its session can be together.  It is what
\* makes OneAtATime inductive.
SlotOK ==
  /\ active = NoTask => phase = "idle"
  /\ control = "run" => active # NoTask /\ phase \in {"idle", "loading"}
  /\ active # NoTask /\ phase = "idle" =>
       control = "run" /\ status[active] = "queued"
  /\ phase \in {"loading", "lost"} => status[active] \in {"queued", "cancelled"}
  /\ phase \in {"waiting", "evaluating", "persisting"} =>
       /\ status[active] = "running"
       /\ object \in Objects
       /\ "eval" \in Members(mutex[codeOf[active]][object])

\* A running task can be inspected and cancelled, and so can a queued one: the
\* eviction of rememberCompletedExecutionTask only drops tasks that have ended.
LiveTasksAreKnown ==
  \A t \in Tasks : status[t] \in {"queued", "running"} => t \in known

\* Memory is bounded: an ended task that is still stored is in the retention
\* list, so that apart from the waiting tasks and the one in the slot at most
\* MaxRetained tasks are kept, however many were run.
RetentionBound ==
  /\ Len(completed) <= MaxRetained
  /\ known \subseteq Members(completed) \union Members(queue) \union {active}

\* The books of the queue agree: what waits, what runs, what is known of a task and
\* what is kept of the ended ones.
QueueAgrees == QueueIsComplete /\ SlotOK /\ LiveTasksAreKnown /\ RetentionBound

\* A client that was told its cancellation is accepted never gets a result: each
\* of the checks of evaluateWithLanguage that follow an await looks at the flag.
AcceptedCancelHolds ==
  \A t \in Tasks : cancelRequested[t] =>
    status[t] # "completed" /\ completion[t] # "resolved"

\* "Execution cancelled before start." is true of the user's code even when the
\* task is started all the same after its session was loaded: an input whose task
\* was cancelled while queued never reaches the VM.
CancelledBeforeStart(t) ==
  \E i \in DOMAIN stream[t] :
    stream[t][i] = "cancelled" /\ "started" \notin {stream[t][j] : j \in 1..i}
EarlyCancelNeverEvaluates ==
  \A t \in Tasks : CancelledBeforeStart(t) => t \notin evaluated

\* A cancellation holds, whenever it comes: before, during or after the load of the
\* session, or while the code runs or is saved.
CancellationsHold == AcceptedCancelHolds /\ EarlyCancelNeverEvaluates

\* The promise that HTTP clients of evaluate await and the status that streaming
\* clients see tell the same story, except for a cancelled task that is started.
CompletionAgrees ==
  \A t \in Tasks :
    completion[t] = CASE status[t] = "completed" -> "resolved"
                      [] status[t] \in {"failed", "cancelled"} -> "rejected"
                      [] OTHER -> IF CancelledBeforeStart(t) THEN "rejected"
                                  ELSE "pending"

\* The slot is only ever lost to a VM whose notebook was deleted: for a VM that
\* is not bound to a file getOrLoadSession of a queued task cannot fail.
SlotLostOnlyToDeletedNotebook ==
  phase = "lost" => codeOf[active] \in FileCodes

\* What a client may see of one task on its stream: one start and one end.
Streams ==
  {<<>>, <<"queued">>, <<"queued", "started">>,
   <<"queued", "cancelled", "complete">>}
  \union {<<"queued", "started", e, "complete">> :
            e \in {"result", "error", "cancelled"}}
LegalStreams ==
  \A t \in Tasks : codeOf[t] \notin FileCodes => stream[t] \in Streams

\* A VM that no deletion can take away serves its tasks to their end, whatever
\* becomes of the notebooks beside it: neither do their streams break off or
\* repeat, nor does one of them lose the slot.
TasksAreServed == LegalStreams /\ SlotLostOnlyToDeletedNotebook

\* Every queued task is ended, provided that the user code ahead of it ends and
\* the slot is not lost: the pump is called whenever the slot becomes free.
UserCodeRuns ==
  \/ phase \in {"evaluating", "loading"}
  \/ phase = "waiting" /\ Holds(codeOf[active], object, "other")
QueueDrains ==
  ([]<>~UserCodeRuns /\ [](phase # "lost")) =>
    \A t \in Tasks : status[t] = "queued" ~> status[t] \in Terminal

\* The queue is a first-come-first-served executor of one job at a time whenever
\* no session of a queued task can disappear: its steps are those of
\* SerialExecutor, or change nothing a client of the queue can see.
Executor == INSTANCE SerialExecutor WITH
  Jobs <- Tasks,
  NoJob <- NoTask,
  line <- queue,
  current <- active,
  asked <- {t \in Tasks : cancelRequested[t]},
  outcome <- [t \in Tasks |-> IF status[t] \in {"queued", "running"}
                                THEN "pending" ELSE status[t]]
SerialExecution == Executor!Spec
=============================================================================
