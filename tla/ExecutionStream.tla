--------------------------- MODULE ExecutionStream ---------------------------
(***************************************************************************)
(* The sockets on which clients execute code and follow its events         *)
(* (execution-stream in src/vm/server/index.ts), on top of the execution   *)
(* queue as SerialExecutor promises it.                                    *)
(*                                                                         *)
(* A handler of a message runs in one turn unless the VM it names has to   *)
(* be loaded: then it is suspended (starting) while other messages come.   *)
(* Every message may name a VM of its own, so the loads end in any order.  *)
(***************************************************************************)
EXTENDS Naturals, Sequences

CONSTANTS Streams, \* sockets
          Tasks,   \* execute messages, with the task each becomes
          Patient, \* sockets whose client executes one task at a time
          Nil      \* undefined

ASSUME NilAssumption == Nil \notin Streams \union Tasks

VARIABLES
  line, current, asked, outcome, \* the queue
  stream,      \* the socket an execute message came from
  starting,    \* execute messages that wait for their VM (startExecutionTask)
  listening,   \* tasks whose listener is in executionTaskListeners
  active,      \* ws.data.executionTaskId
  unsubscribe, \* ws.data.unsubscribeExecutionTask: the task whose listener it removes
  closed,      \* sockets that are closed (ws.data.isClosed)
  told         \* history: tasks whose end was sent to their socket

queueVars == <<line, current, asked, outcome>>
socketVars == <<active, unsubscribe, closed>>
vars == <<queueVars, socketVars, stream, starting, listening, told>>

Queue == INSTANCE SerialExecutor WITH Jobs <- Tasks, NoJob <- Nil

Init ==
  /\ Queue!Init
  /\ stream = [t \in Tasks |-> Nil]
  /\ starting = {}
  /\ listening = {}
  /\ active = [s \in Streams |-> Nil]
  /\ unsubscribe = [s \in Streams |-> Nil]
  /\ closed = {}
  /\ told = {}

Ended(t) == outcome[t] \notin {"none", "pending"}

-----------------------------------------------------------------------------
(* What the queue's events do to a socket. *)

\* The "complete" event of t: its listener forgets the active task of the socket,
\* whichever that is, and its subscription.  (KeepsActive: only the latter.)
KeepsActive(t) ==
  LET s == stream[t]
  IN IF t \in listening /\ s \notin closed
       THEN /\ told' = told \union {t}
            /\ listening' = listening \ {unsubscribe[s]}
            /\ UNCHANGED <<active, unsubscribe>>
       ELSE UNCHANGED <<told, listening, active, unsubscribe>>
Complete(t) ==
  LET s == stream[t]
  IN IF t \in listening /\ s \notin closed
       THEN /\ told' = told \union {t}
            /\ active' = [active EXCEPT ![s] = Nil]
            /\ unsubscribe' = [unsubscribe EXCEPT ![s] = Nil]
            /\ listening' = listening \ {unsubscribe[s]}
       ELSE UNCHANGED <<told, listening, active, unsubscribe>>

\* startExecutionTask after its await, and the end of the handler that called it:
\* the socket takes the task, even when it was closed meanwhile.
Take(s, t) ==
  /\ Queue!Submit(t)
  /\ listening' = listening \union {t}
  /\ active' = [active EXCEPT ![s] = t]
  /\ unsubscribe' = [unsubscribe EXCEPT ![s] = t]

-----------------------------------------------------------------------------
(* Messages of clients. *)

Unanswered(s) == {t \in Tasks \ told : stream[t] = s}

\* An execute message that finds no active task (any other is refused); its VM is
\* loaded, or not yet.
Execute(s, t, loaded) ==
  /\ s \notin closed
  /\ stream[t] = Nil
  /\ s \in Patient => Unanswered(s) = {}
  /\ active[s] = Nil
  /\ stream' = [stream EXCEPT ![t] = s]
  /\ IF loaded
       THEN Take(s, t) /\ UNCHANGED starting
       ELSE starting' = starting \union {t}
            /\ UNCHANGED <<queueVars, listening, active, unsubscribe>>
  /\ UNCHANGED <<closed, told>>

\* The VM is loaded, or the client is told that it cannot be.
\* (StaysStarting: the message is not forgotten.)
StaysStarting(t) ==
  /\ t \in starting
  /\ Take(stream[t], t)
  /\ UNCHANGED <<starting, closed, told, stream>>
Loaded(t) ==
  /\ t \in starting
  /\ Take(stream[t], t)
  /\ starting' = starting \ {t}
  /\ UNCHANGED <<closed, told, stream>>
LoadFails(t) ==
  /\ t \in starting
  /\ starting' = starting \ {t}
  /\ told' = told \union {t}
  /\ UNCHANGED <<queueVars, socketVars, listening, stream>>

\* A cancel message, on this socket or on one that inspects the VM: a task in line
\* ends at once, a running one is asked to stop.
\* (CancelQuietly: a task in line is dropped without a "complete" event.)
CancelQuietly(t) ==
  /\ Queue!Withdraw(t) \/ Queue!AskToStop(t)
  /\ UNCHANGED <<socketVars, listening, told, stream, starting>>
Cancel(t) ==
  /\ \/ Queue!Withdraw(t) /\ Complete(t)
     \/ Queue!AskToStop(t) /\ UNCHANGED <<told, listening, active, unsubscribe>>
  /\ UNCHANGED <<closed, stream, starting>>

\* close
Close(s) ==
  /\ s \notin closed
  /\ closed' = closed \union {s}
  /\ active' = [active EXCEPT ![s] = Nil]
  /\ unsubscribe' = [unsubscribe EXCEPT ![s] = Nil]
  /\ listening' = listening \ {unsubscribe[s]}
  /\ UNCHANGED <<queueVars, stream, starting, told>>

-----------------------------------------------------------------------------
(* The queue goes on.  (EndsQuietly: no event for a task that was cancelled.) *)

Serve == Queue!Serve /\ UNCHANGED <<socketVars, stream, starting, listening, told>>
EndsQuietly(o) ==
  /\ Queue!End(o)
  /\ IF o = "cancelled" THEN UNCHANGED <<told, listening, active, unsubscribe>>
     ELSE Complete(current)
  /\ UNCHANGED <<closed, stream, starting>>
End(o) ==
  /\ Queue!End(o)
  /\ Complete(current)
  /\ UNCHANGED <<closed, stream, starting>>

Outcomes == {"completed", "failed", "cancelled"}

Next ==
  \/ \E s \in Streams : \/ Close(s)
                        \/ \E t \in Tasks, loaded \in BOOLEAN : Execute(s, t, loaded)
  \/ \E t \in Tasks : Loaded(t) \/ LoadFails(t) \/ Cancel(t)
  \/ Serve
  \/ \E o \in Outcomes : End(o)

Spec == Init /\ [][Next]_vars

\* The queue serves what is in line and loads end.
Fairness ==
  /\ WF_vars(Serve)
  /\ \A t \in Tasks : WF_vars(Loaded(t) \/ LoadFails(t))

FairSpec == Spec /\ Fairness

-----------------------------------------------------------------------------
(* Properties. *)

\* Every variable keeps its type: an execute message waits for its VM, or is a
\* task of the queue, or was refused, and a listener belongs to a task.
TypeOK ==
  /\ line \in Seq(Tasks)
  /\ current \in Tasks \union {Nil}
  /\ asked \subseteq Tasks
  /\ outcome \in [Tasks -> Outcomes \union {"none", "pending"}]
  /\ stream \in [Tasks -> Streams \union {Nil}]
  /\ starting \subseteq {t \in Tasks : stream[t] # Nil /\ outcome[t] = "none"}
  /\ listening \subseteq {t \in Tasks : stream[t] # Nil /\ outcome[t] # "none"}
  /\ active \in [Streams -> Tasks \union {Nil}]
  /\ unsubscribe \in [Streams -> Tasks \union {Nil}]
  /\ closed \subseteq Streams
  /\ told \subseteq {t \in Tasks : stream[t] # Nil}

\* A socket is never blocked by a task that ended: the active task of an open
\* socket is its own, is in the queue, and is still listened to, so that its
\* "complete" event will free the socket, however messages, loads and
\* cancellations interleave.
ActiveIsLive ==
  \A s \in Streams \ closed : active[s] # Nil =>
    /\ stream[active[s]] = s
    /\ outcome[active[s]] = "pending"
    /\ active[s] \in listening
    /\ unsubscribe[s] = active[s]

\* A client that waits for an answer before it executes more is told the end of every
\* task, cancelled ones too, as long as its socket is open and whatever clients of
\* other sockets do.
EndIsTold ==
  \A t \in Tasks :
    Ended(t) /\ stream[t] \in Patient \ closed => t \in told

\* The listener of a task that ended is gone, unless the socket was closed while
\* the VM of the task was loaded: that listener is never removed.
NoStaleListener ==
  \A t \in listening : Ended(t) => stream[t] \in closed \/ stream[t] \notin Patient

\* Listeners last as long as they are needed: the end of every task is told, and
\* nothing listens to a task afterwards.
ListenersServe == EndIsTold /\ NoStaleListener

\* A client that waits for its answers gets them, provided that user code ends.
AnswersCome ==
  []<>(current = Nil) =>
    \A t \in Tasks :
      stream[t] \in Patient ~> (t \in told \/ stream[t] \in closed)
=============================================================================
