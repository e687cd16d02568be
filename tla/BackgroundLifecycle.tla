------------------------- MODULE BackgroundLifecycle -------------------------
(***************************************************************************)
(* The background workers (src/worker/background-lifecycle.ts): one thread *)
(* per script file, whose state messages and errors reach the main thread  *)
(* as events, and the commands that stop and restart workers.              *)
(*                                                                         *)
(* terminate() of Bun's global Worker only asks a thread to end: it        *)
(* returns undefined, so that awaiting it lasts one microtask, and the     *)
(* thread dies at some later time (its "close" event has no handler).      *)
(* From the request on nothing the thread has sent, or sends, is           *)
(* delivered.  Events of workers are macrotasks: none is handled while a   *)
(* command is suspended.  Log and metrics messages do not change the       *)
(* status of a worker and are left out.                                    *)
(***************************************************************************)
EXTENDS Sequences, FiniteSets, Functions

CONSTANTS Scripts, \* the files of scripts/
          Handles, \* bound: the workers ever launched
          Admins,  \* calls of stop, stopWorker and restartWorker in one turn
          Shared,  \* scripts that several such calls may be about
          Lingering,  \* scripts that leave a listener or a timer when they return
          Quitting,   \* scripts that may call process.exit()
          Garbling,   \* scripts that may send a message that cannot be read
          Nil

ASSUME NamesAssumption == Nil \notin Scripts /\ Scripts \intersect Handles = {}

VARIABLES
  phase,   \* of the process: "off", "booting" (start reads scripts/), "up", "over"
  workers, \* the handles in the map
  script,  \* snapshot.scriptPath
  status,  \* snapshot.status
  thread,  \* what the thread of a worker does
  mail,    \* its messages that were not delivered
  told,    \* the workers whose terminate() was called
  calls    \* what each caller has asked for, and the terminate() calls it awaits

threadVars == <<script, thread, mail>>
vars == <<phase, workers, status, told, calls, threadVars>>

Final == {"stopped", "error"}
Live == {"loading", "running", "lingering"}
Ending == {"ending", "dead"}
Launched == {h \in Handles : thread[h] # "none"}
Idle == [op |-> "none", on |-> {}, waiting |-> {}]

Init ==
  /\ phase = "off"
  /\ workers = {}
  /\ script = [h \in Handles |-> Nil]
  /\ status = [h \in Handles |-> "starting"]
  /\ thread = [h \in Handles |-> "none"]
  /\ mail = [h \in Handles |-> <<>>]
  /\ told = {}
  /\ calls = [a \in Admins |-> Idle]

-----------------------------------------------------------------------------
(* Commands. *)

\* resolveWorkerHandle: by id, or by the path or the name of the script
Matches(target) == {h \in workers : target \in {h, script[h]}}

\* spawnWorker for every worker of N, with its script; a handle that was never used
\* stands for a fresh random id.
Spawn(N, scriptOf) ==
  /\ \A h \in N : thread[h] = "none"
  /\ script' = [h \in Handles |-> IF h \in N THEN scriptOf[h] ELSE script[h]]
  /\ status' = [h \in Handles |-> IF h \in N THEN "starting" ELSE status[h]]
  /\ thread' = [h \in Handles |-> IF h \in N THEN "loading" ELSE thread[h]]

\* start, up to the reading of scripts/ that it awaits; the program runs no command
\* before start has returned.
Start ==
  /\ phase = "off"
  /\ phase' = "booting"
  /\ UNCHANGED <<workers, status, told, calls, threadVars>>

\* A worker for every script, or none when scripts/ cannot be read: start throws,
\* and the program goes on with lifecycle.stop().
Boot ==
  /\ phase = "booting"
  /\ phase' = "up"
  /\ \E N \in SUBSET Handles : \E scriptOf \in Bijection(N, Scripts) :
       /\ Spawn(N, scriptOf)
       /\ workers' = N
  /\ UNCHANGED <<mail, told, calls>>
BootFails ==
  /\ phase = "booting"
  /\ phase' = "over"
  /\ UNCHANGED <<workers, status, told, calls, threadVars>>

\* stopWorkerHandle for every worker of H, up to the terminate() it awaits: one that
\* is known to have ended is left alone, the others are told to end.
\* (ForgetsToTell: terminate() is not called; StopsEveryone: more workers are
\* stopped than the command is about.)
StopRunning(a, op, H, running) ==
  /\ status' = [h \in Handles |-> IF h \in running THEN "stopping" ELSE status[h]]
  /\ told' = told \union running
  /\ mail' = [h \in Handles |-> IF h \in running THEN <<>> ELSE mail[h]]
  /\ calls' = [calls EXCEPT ![a] = [op |-> op, on |-> H, waiting |-> running]]
StopsEveryone(a, op, H) ==
  StopRunning(a, op, H, {h \in workers : status[h] \notin Final})
ForgetsToTell(a, op, H) ==
  LET running == {h \in H : status[h] \notin Final}
  IN /\ status' = [h \in Handles |-> IF h \in running THEN "stopping" ELSE status[h]]
     /\ calls' = [calls EXCEPT ![a] = [op |-> op, on |-> H, waiting |-> running]]
     /\ UNCHANGED <<told, mail>>
StopHandles(a, op, H) ==
  StopRunning(a, op, H, {h \in H : status[h] \notin Final})

\* The callers of the commands on a script that is not shared take turns.
Commanded(s) ==
  \E a \in Admins : /\ calls[a].op \in {"stop", "restart"}
                    /\ \E h \in calls[a].on : script[h] = s

\* stopWorker and restartWorker: a target that names no worker, or more than one, is
\* refused.
Command(a, op, target) ==
  /\ phase = "up"
  /\ calls[a] = Idle
  /\ \E h \in workers :
       /\ Matches(target) = {h}
       /\ script[h] \in Shared \/ ~Commanded(script[h])
       /\ StopHandles(a, op, {h})
  /\ UNCHANGED <<phase, workers, script, thread>>

\* stop, as the process is about to exit
Halt(a) ==
  /\ phase = "up"
  /\ calls[a] = Idle
  /\ \A b \in Admins : calls[b].op # "halt"
  /\ StopHandles(a, "halt", workers)
  /\ UNCHANGED <<phase, workers, script, thread>>

\* A microtask later stopWorkerHandle goes on: the worker is recorded as stopped,
\* whatever its thread does.  (StaysStopping: it is not.)
Awaited(h) == \E a \in Admins : h \in calls[a].waiting
StaysStopping(a, h) ==
  /\ h \in calls[a].waiting
  /\ calls' = [calls EXCEPT ![a].waiting = @ \ {h}]
  /\ UNCHANGED <<phase, workers, status, told, threadVars>>
StopRecorded(a, h) ==
  /\ h \in calls[a].waiting
  /\ status' = [status EXCEPT ![h] = "stopped"]
  /\ calls' = [calls EXCEPT ![a].waiting = @ \ {h}]
  /\ UNCHANGED <<phase, workers, told, threadVars>>

\* The rest of a command, once every stopWorkerHandle it awaits has returned.
Ready(a, op) == calls[a].op = op /\ calls[a].waiting = {}

StopReturns(a) ==
  /\ Ready(a, "stop")
  /\ calls' = [calls EXCEPT ![a] = Idle]
  /\ UNCHANGED <<phase, workers, status, told, threadVars>>

RestartReturns(a) ==
  /\ Ready(a, "restart")
  /\ \E h \in calls[a].on, new \in Handles :
       /\ Spawn({new}, [n \in {new} |-> script[h]])
       /\ workers' = (workers \ {h}) \union {new}
  /\ calls' = [calls EXCEPT ![a] = Idle]
  /\ UNCHANGED <<phase, mail, told>>

HaltReturns(a) ==
  /\ Ready(a, "halt")
  /\ phase' = "over"
  /\ calls' = [calls EXCEPT ![a] = Idle]
  /\ UNCHANGED <<workers, status, told, threadVars>>

-----------------------------------------------------------------------------
(* The thread of a worker (worker-runtime.ts).  One that was told to end goes on  *)
(* until it dies, unheard.                                                        *)

Moves(h, from, to, message) ==
  /\ thread[h] \in from
  /\ thread' = [thread EXCEPT ![h] = to]
  /\ mail' = IF h \in told THEN mail ELSE [mail EXCEPT ![h] = @ \o message]
  /\ UNCHANGED <<phase, workers, script, status, told, calls>>

Loads(h) == Moves(h, {"loading"}, "running", <<"running">>)

\* The script ends; its thread is about to, unless the script left a listener or a
\* timer.  (EndsEarly: the state is sent as the script begins.)
EndsEarly(h) == Moves(h, {"running"}, "lingering", <<"stopped">>)
Finishes(h) ==
  \/ Moves(h, {"running"}, "ending", <<"stopped">>)
  \/ script[h] \in Lingering /\ Moves(h, {"running"}, "lingering", <<"stopped">>)

\* An uncaught error, here or in the loading of the worker: it is reported, and the
\* thread exits with its next timer.
Crashes(h) == Moves(h, Live, "ending", <<"error">>)

\* process.exit() in a script: nobody is told.
Quits(h) ==
  /\ script[h] \in Quitting
  /\ Moves(h, {"running", "lingering"}, "dead", <<>>)

\* The thread dies: it has nothing left to do, or it was told to end.
Dies(h) == Moves(h, {"ending", "lingering"}, "dead", <<>>)
Killed(h) == h \in told /\ Moves(h, Live, "dead", <<>>)

-----------------------------------------------------------------------------
(* Events of a worker. *)

NoCommand == \A a \in Admins : calls[a] = Idle

\* handleWorkerMessage, for a state message, and onerror
Deliver(h) ==
  /\ NoCommand
  /\ mail[h] # <<>>
  /\ status' = [status EXCEPT ![h] = Head(mail[h])]
  /\ mail' = [mail EXCEPT ![h] = Tail(@)]
  /\ UNCHANGED <<phase, workers, script, thread, told, calls>>

\* onmessageerror
Unreadable(h) ==
  /\ NoCommand
  /\ script[h] \in Garbling
  /\ thread[h] \in Live /\ h \notin told
  /\ status' = [status EXCEPT ![h] = "error"]
  /\ UNCHANGED <<phase, workers, told, calls, threadVars>>

Serve(a) ==
  \/ \E op \in {"stop", "restart"}, target \in Scripts \union Handles :
       Command(a, op, target)
  \/ Halt(a) \/ StopReturns(a) \/ RestartReturns(a) \/ HaltReturns(a)
  \/ \E h \in Handles : StopRecorded(a, h)
Work(h) ==
  \/ Loads(h) \/ Finishes(h) \/ Crashes(h) \/ Quits(h) \/ Dies(h) \/ Killed(h)
  \/ Deliver(h) \/ Unreadable(h)

Next ==
  \/ Start \/ Boot \/ BootFails
  \/ \E a \in Admins : Serve(a)
  \/ \E h \in Handles : Work(h)

Spec == Init /\ [][Next]_vars

-----------------------------------------------------------------------------
(* Properties. *)

Statuses == {"starting", "running", "stopping"} \union Final

\* Every variable keeps its type; commands are about workers that were launched, and
\* await the end of workers they are about.
TypeOK ==
  /\ phase \in {"off", "booting", "up", "over"}
  /\ workers \subseteq Launched
  /\ script \in [Handles -> Scripts \union {Nil}]
  /\ status \in [Handles -> Statuses]
  /\ thread \in [Handles -> {"none"} \union Ending \union Live]
  /\ mail \in [Handles -> Seq({"running"} \union Final)]
  /\ \A h \in Handles \ Launched : mail[h] = <<>>
  /\ told \subseteq Launched
  /\ calls \in [Admins -> [op : {"none", "stop", "restart", "halt"},
                           on : SUBSET Launched, waiting : SUBSET Handles]]
  /\ \A a \in Admins : calls[a].waiting \subseteq calls[a].on

\* What may go wrong with a stop: the status says that a worker has ended, and its
\* thread goes on.
Faulty == Lingering \union Garbling

\* A thread that nothing makes end: it was not told to, and its script goes on.
Going(h) == thread[h] \in Live /\ h \notin told

\* One worker per script, as far as the code can tell.  Of a script without faults,
\* commanded by one caller at a time, at most one thread is left to itself (a thread
\* that was told to end may overlap its successor: restartWorker does not wait for
\* it).  Every thread that is left to itself is in the map, where commands find it,
\* whoever else commands.  And the name of a script whose callers take turns is
\* neither unknown nor ambiguous, whatever faults it has.
RunsOnce ==
  \A h, k \in Handles :
    /\ Going(h) /\ Going(k)
    /\ script[h] = script[k] /\ script[h] \notin Shared \union Faulty
    => h = k
NoneIsLost ==
  \A h \in Handles : Going(h) /\ script[h] \notin Faulty => h \in workers
NamesResolve ==
  phase = "up" => \A s \in Scripts \ Shared : Cardinality(Matches(s)) = 1
OneWorkerPerScript == RunsOnce /\ NoneIsLost /\ NamesResolve

\* A worker whose thread is dead is not reported as running, starting or stopping
\* once its messages are delivered and no command is at work on it.  The end of a
\* script that exits by itself is never noticed: no handler listens to "close".
DeadIsReported ==
  \A h \in Handles :
    /\ thread[h] = "dead" /\ mail[h] = <<>> /\ ~Awaited(h)
    /\ script[h] \notin Quitting
    => status[h] \in Final

\* When a stop returns, every worker it was about has ended: it is reported so, and
\* its thread was told to end or its script has ended.  And this is final: no
\* message that comes late revives it.  Both but for scripts with faults.
Ended(h) == status[h] \in Final /\ ~Going(h) /\ mail[h] = <<>>
Returns(a) == calls[a].op \in {"stop", "halt"} /\ calls'[a] = Idle
StoppedHasEnded ==
  [][/\ \A a \in Admins : Returns(a) =>
          \A h \in calls[a].on : script[h] \notin Faulty => Ended(h)
     /\ \A h \in Launched : script[h] \notin Faulty /\ Ended(h) => Ended(h)']_vars

=============================================================================
