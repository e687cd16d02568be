------------------------------- MODULE CellRuns -------------------------------
(***************************************************************************)
(* How the web client runs a cell (runCell in web/src/store/ui.ts): over a *)
(* socket of its own (createRemoteNotebookExecutionStream in               *)
(* web/src/api/client.ts) or, if that fails before the cell was sent, by   *)
(* an HTTP request; what the page shows meanwhile; and the server's end of *)
(* both (src/vm/server/index.ts, sessions.ts), whose queue is              *)
(* SerialExecutor.                                                         *)
(*                                                                         *)
(* Connections break at any time, with messages under way in both          *)
(* directions.  The user runs a cell again while it runs, deletes it, and  *)
(* gets another document of the notebook; the inspector cancels tasks.     *)
(*                                                                         *)
(* One open notebook is modelled.  Output chunks, and the "queue" events   *)
(* that repeat "queued" with another position, are left out.               *)
(***************************************************************************)
EXTENDS Naturals, FiniteSets, Sequences

CONSTANTS Cells,     \* executable cells of the notebook
          MaxRuns,   \* bound: calls of runCell
          Removable, \* bound: cells that are deleted or come and go with documents
          Nobody     \* no request in the queue's slot

ASSUME CellsAssumption == "none" \notin Cells
ASSUME RunsAssumption == MaxRuns \in Nat
ASSUME RemovableAssumption == Removable \subseteq Cells
ASSUME NobodyAssumption == Nobody \notin (1..MaxRuns) \X {"stream", "http"}

VARIABLES
  \* the page
  run,        \* of each call of runCell: its cell, and the await it is at
  cells,      \* the cells of the document in the store
  running,    \* runningCellIds
  shown,      \* cellExecutionTasks: the status of the task shown for a cell
  results,    \* cellResults: the run whose result is shown, 0 for none
  kernel,     \* kernelStatus
  disturbed,  \* history: cells that were run again or removed while they ran
  \* the connections
  link,       \* the socket of a run
  up,         \* runs whose execute message is under way
  down,       \* the events under way to the page
  http,       \* the HTTP request of a run
  broken,     \* history: runs that have lost a connection
  \* the server
  loading,    \* requests in startExecutionTask, before the queue has them
  evaluated,  \* history: requests whose code was handed to the VM
  line, current, asked, outcome   \* the execution queue

pageVars == <<run, cells, running, shown, results, kernel, disturbed>>
wireVars == <<link, up, down, http, broken>>
queueVars == <<line, current, asked, outcome>>
serverVars == <<loading, evaluated, queueVars>>
vars == <<pageVars, wireVars, serverVars>>

Runs == 1..MaxRuns
Requests == Runs \X {"stream", "http"}
Queue == INSTANCE SerialExecutor WITH Jobs <- Requests, NoJob <- Nobody

Ended == {"completed", "failed", "cancelled"}
Events == {"ready", "queued", "started", "result", "error", "cancelled", "complete"}
NoRun == [cell |-> "none", step |-> "none"]
Unsettled(r) == run[r].step \in {"connecting", "sent", "posted"}
RunsOf(c) == {r \in Runs : run[r].cell = c}
Active(c) == \E r \in RunsOf(c) : Unsettled(r)

Init ==
  /\ run = [r \in Runs |-> NoRun]
  /\ cells = Cells
  /\ running = {}
  /\ shown = [c \in Cells |-> "none"]
  /\ results = [c \in Cells |-> 0]
  /\ kernel = "idle"
  /\ disturbed = {}
  /\ link = [r \in Runs |-> "none"]
  /\ up = {}
  /\ down = [r \in Runs |-> <<>>]
  /\ http = [r \in Runs |-> "none"]
  /\ broken = {}
  /\ loading = {}
  /\ evaluated = {}
  /\ line = <<>> /\ current = Nobody /\ asked = {}
  /\ outcome = [q \in Requests |-> "none"]

-----------------------------------------------------------------------------
(* The page. *)

\* runCell up to its first await: the socket is being opened.
RunCell(r, c) ==
  /\ run[r] = NoRun /\ \A q \in 1..(r - 1) : run[q] # NoRun
  /\ c \in cells
  /\ run' = [run EXCEPT ![r] = [cell |-> c, step |-> "connecting"]]
  /\ running' = running \union {c}
  /\ shown' = [shown EXCEPT ![c] = "none"]
  /\ results' = [results EXCEPT ![c] = 0]
  /\ kernel' = "running"
  /\ disturbed' = IF Active(c) THEN disturbed \union {c} ELSE disturbed
  /\ link' = [link EXCEPT ![r] = "opening"]
  /\ UNCHANGED <<cells, up, down, http, broken, serverVars>>

\* finalizeExecutionTask
Finalized(status, as) ==
  IF status = "none" \/ status \in Ended THEN status ELSE as

\* hasActiveNotebookExecution
KernelOf(ids, otherwise) == IF ids # {} THEN "running" ELSE otherwise

\* The end of runCell, with a result or in its catch block.
\* (StaysRunning: the catch block keeps the cell's flag.)
StaysRunning(r, how) ==
  LET c == run[r].cell
      ok == how = "completed"
  IN /\ run' = [run EXCEPT ![r].step = IF ok THEN "completed" ELSE "failed"]
     /\ running' = IF ok THEN running \ {c} ELSE running
     /\ shown' = [shown EXCEPT ![c] = IF how = "cancelled" THEN how ELSE Finalized(@, how)]
     /\ results' = [results EXCEPT ![c] = IF ok THEN r ELSE 0]
     /\ kernel' = KernelOf(running', IF ok THEN "idle" ELSE "stopped")
Settle(r, how) ==
  LET c == run[r].cell
      ok == how = "completed"
  IN /\ run' = [run EXCEPT ![r].step = IF ok THEN "completed" ELSE "failed"]
     /\ running' = running \ {c}
     /\ shown' = [shown EXCEPT ![c] = IF how = "cancelled" THEN how ELSE Finalized(@, how)]
     /\ results' = [results EXCEPT ![c] = IF ok THEN r ELSE 0]
     /\ kernel' = KernelOf(running', IF ok THEN "idle" ELSE "stopped")

\* The status of the task in an event.  (TypeOfEvent: the event's type is shown.)
TypeOfEvent(e, r) == e
StatusIn(e, r) ==
  CASE e = "queued" -> "queued" [] e = "started" -> "running"
    [] OTHER -> outcome[<<r, "stream">>]

\* The run ends with an event or an answer: "result", "error", "cancelled".
How(e) == CASE e = "result" -> "completed" [] e = "error" -> "failed" [] OTHER -> e

\* onEvent of a run that is not settled: "ready" sends the cell, ...
Ready(r) ==
  /\ Head(down[r]) = "ready"
  /\ run' = [run EXCEPT ![r].step = "sent"]
  /\ up' = IF link[r] = "open" THEN up \union {r} ELSE up
  /\ down' = [down EXCEPT ![r] = Tail(@)]
  /\ UNCHANGED <<cells, running, shown, results, kernel, disturbed, link>>

\* ... others show the task, ...
Show(r) ==
  /\ Head(down[r]) \in {"queued", "started", "complete"}
  /\ shown' = [shown EXCEPT ![run[r].cell] = StatusIn(Head(down[r]), r)]
  /\ down' = [down EXCEPT ![r] = Tail(@)]
  /\ UNCHANGED <<run, cells, running, results, kernel, disturbed, link, up>>

\* ... and the last one closes the socket: what comes after it is ignored.
Last(r) ==
  /\ Head(down[r]) \in {"result", "error", "cancelled"}
  /\ Settle(r, How(Head(down[r])))
  /\ link' = [link EXCEPT ![r] = "closed"]
  /\ down' = [down EXCEPT ![r] = <<>>]
  /\ UNCHANGED <<cells, disturbed, up>>

Deliver(r) ==
  /\ Unsettled(r) /\ down[r] # <<>>
  /\ Ready(r) \/ Show(r) \/ Last(r)
  /\ UNCHANGED <<http, broken, serverVars>>

\* fallbackToHttp of the error that onClose and onError make.
\* (FallsBackAlways: whatever was sent.)
FallsBackAlways(r) == TRUE
FallsBack(r) == run[r].step = "connecting"

\* onClose and onError: the messages that came before are delivered.
\* (NoticedEarly: a run whose cell was sent goes on waiting.)
NoticedEarly(r) ==
  /\ link[r] = "broken" /\ down[r] = <<>> /\ run[r].step = "connecting"
  /\ link' = [link EXCEPT ![r] = "closed"]
  /\ run' = [run EXCEPT ![r].step = "posted"]
  /\ http' = [http EXCEPT ![r] = "request"]
  /\ UNCHANGED <<cells, running, shown, results, kernel, disturbed>>
  /\ UNCHANGED <<up, down, broken, serverVars>>
Noticed(r) ==
  /\ link[r] = "broken" /\ down[r] = <<>>
  /\ link' = [link EXCEPT ![r] = "closed"]
  /\ IF FallsBack(r)
       THEN /\ run' = [run EXCEPT ![r].step = "posted"]
            /\ http' = [http EXCEPT ![r] = "request"]
            /\ UNCHANGED <<running, shown, results, kernel>>
       ELSE Settle(r, "failed") /\ UNCHANGED http
  /\ UNCHANGED <<cells, disturbed, up, down, broken, serverVars>>

\* evaluateRemoteCell returns or throws.
Answered(r) ==
  /\ run[r].step = "posted" /\ http[r] \in {"completed", "failed", "lost"}
  /\ Settle(r, IF http[r] = "completed" THEN "completed" ELSE "failed")
  /\ http' = [http EXCEPT ![r] = "none"]
  /\ UNCHANGED <<cells, disturbed, link, up, down, broken, serverVars>>

\* deleteCell
DeleteCell(c) ==
  /\ c \in cells \intersect Removable
  /\ cells' = cells \ {c}
  /\ running' = running \ {c}
  /\ shown' = [shown EXCEPT ![c] = "none"]
  /\ results' = [results EXCEPT ![c] = 0]
  /\ disturbed' = IF Active(c) THEN disturbed \union {c} ELSE disturbed
  /\ UNCHANGED <<run, kernel, wireVars, serverVars>>

\* setSessionState: a save or an opening brings another document, whose cells
\* are D; S are those that keep their results (canReuseCellResult).
NewDocument(D, S) ==
  LET gone == cells \ D IN
  /\ Cells \ Removable \subseteq D
  /\ cells' = D
  /\ running' = running \ gone
  /\ shown' = [c \in Cells |-> IF c \in gone THEN "none" ELSE shown[c]]
  /\ results' = [c \in Cells |-> IF c \in S THEN results[c] ELSE 0]
  /\ kernel' = KernelOf(running', "idle")
  /\ disturbed' = disturbed \union {c \in gone : Active(c)}
  /\ UNCHANGED <<run, wireVars, serverVars>>

-----------------------------------------------------------------------------
(* The connections. *)

\* The server accepts the socket and sends "ready".
Accept(r) ==
  /\ link[r] = "opening"
  /\ link' = [link EXCEPT ![r] = "open"]
  /\ down' = [down EXCEPT ![r] = <<"ready">>]
  /\ UNCHANGED <<pageVars, up, http, broken, serverVars>>

\* The socket breaks; of what is under way, some still arrives.
Break(r, n, arrives) ==
  /\ link[r] \in {"opening", "open"} /\ n <= Len(down[r])
  /\ link' = [link EXCEPT ![r] = "broken"]
  /\ down' = [down EXCEPT ![r] = SubSeq(@, 1, n)]
  /\ up' = IF arrives THEN up ELSE up \ {r}
  /\ broken' = broken \union {r}
  /\ UNCHANGED <<pageVars, http, serverVars>>

\* The HTTP request or its answer is lost.
Lose(r) ==
  /\ http[r] \in {"request", "served", "completed", "failed"}
  /\ http' = [http EXCEPT ![r] = "lost"]
  /\ broken' = broken \union {r}
  /\ UNCHANGED <<pageVars, link, up, down, serverVars>>

-----------------------------------------------------------------------------
(* The server. *)

\* What the client of request q hears: events on an open socket, or how the
\* task's completion was settled.
Tell(q, events, end) ==
  LET r == q[1] IN
  IF q[2] = "stream"
    THEN /\ down' = IF link[r] = "open" THEN [down EXCEPT ![r] = @ \o events] ELSE down
         /\ UNCHANGED http
    ELSE /\ http' = IF http[r] = "served" THEN [http EXCEPT ![r] = end] ELSE http
         /\ UNCHANGED down

\* The message "execute", the route /vm/:code/eval: startExecutionTask, which
\* first waits for its session.
Take(r) ==
  /\ \/ r \in up /\ up' = up \ {r} /\ loading' = loading \union {<<r, "stream">>}
        /\ UNCHANGED http
     \/ http[r] = "request" /\ http' = [http EXCEPT ![r] = "served"]
        /\ loading' = loading \union {<<r, "http">>} /\ UNCHANGED up
  /\ UNCHANGED <<pageVars, link, down, broken, evaluated, queueVars>>

Loaded(q) ==
  /\ q \in loading
  /\ loading' = loading \ {q}
  /\ Queue!Submit(q)
  /\ Tell(q, <<"queued">>, "served")
  /\ UNCHANGED <<pageVars, link, up, broken, evaluated>>

\* The VM is unknown.
LoadFails(q) ==
  /\ q \in loading
  /\ loading' = loading \ {q}
  /\ Tell(q, <<"error">>, "failed")
  /\ UNCHANGED <<pageVars, link, up, broken, evaluated, queueVars>>

\* cancelExecutionTask, for the inspector.
Cancel(q) ==
  /\ \/ Queue!Withdraw(q) /\ Tell(q, <<"cancelled", "complete">>, "failed")
     \/ Queue!AskToStop(q) /\ UNCHANGED <<down, http>>
  /\ UNCHANGED <<pageVars, link, up, broken, loading, evaluated>>

\* runExecutionTask
Serve ==
  /\ Queue!Serve
  /\ evaluated' = evaluated \union {Head(line)}
  /\ Tell(Head(line), <<"started">>, "served")
  /\ UNCHANGED <<pageVars, link, up, broken, loading>>

Ending(o) == CASE o = "completed" -> "result" [] o = "failed" -> "error" [] OTHER -> o
Finish ==
  /\ \E o \in Ended :
       /\ Queue!End(o)
       /\ Tell(current, <<Ending(o), "complete">>,
               IF o = "completed" THEN "completed" ELSE "failed")
  /\ UNCHANGED <<pageVars, link, up, broken, loading, evaluated>>

-----------------------------------------------------------------------------
Page(r) == Deliver(r) \/ Noticed(r) \/ Answered(r)
Load(q) == Loaded(q) \/ LoadFails(q)

Next ==
  \/ \E r \in Runs :
       \/ \E c \in Cells : RunCell(r, c)
       \/ Page(r)
       \/ Accept(r) \/ Take(r) \/ Lose(r)
       \/ \E n \in 0..Len(down[r]), arrives \in BOOLEAN : Break(r, n, arrives)
  \/ \E c \in Cells : DeleteCell(c)
  \/ \E D \in SUBSET Cells : \E S \in {D, {}} : NewDocument(D, S)
  \/ \E q \in Requests : Load(q) \/ Cancel(q)
  \/ Serve
  \/ Finish

Spec == Init /\ [][Next]_vars

\* The event loops run, an attempt to connect ends, what was sent arrives or the
\* connection breaks, which the browser notices.  The code of a cell is assumed
\* to end (WF of Finish); without that a run waits, as it should.
Fairness ==
  /\ \A r \in Runs : WF_vars(Page(r)) /\ WF_vars(Accept(r)) /\ WF_vars(Take(r))
  /\ \A q \in Requests : WF_vars(Load(q))
  /\ WF_vars(Serve) /\ WF_vars(Finish)

FairSpec == Spec /\ Fairness

-----------------------------------------------------------------------------
(* Properties. *)

\* Every variable keeps its type.
TypeOK ==
  /\ run \in [Runs -> [cell : Cells \union {"none"},
                       step : {"none", "connecting", "sent", "posted",
                               "completed", "failed"}]]
  /\ cells \subseteq Cells /\ running \subseteq Cells /\ disturbed \subseteq Cells
  /\ shown \in [Cells -> {"none", "queued", "running"} \union Ended]
  /\ results \in [Cells -> 0..MaxRuns]
  /\ kernel \in {"idle", "running", "stopped"}
  /\ link \in [Runs -> {"none", "opening", "open", "broken", "closed"}]
  /\ up \subseteq Runs /\ broken \subseteq Runs
  /\ down \in [Runs -> Seq(Events)]
  /\ http \in [Runs -> {"none", "request", "served", "completed", "failed", "lost"}]
  /\ loading \subseteq Requests /\ evaluated \subseteq Requests
  /\ asked \subseteq Requests /\ current \in Requests \union {Nobody}
  /\ line \in Seq(Requests)
  /\ outcome \in [Requests -> {"none", "pending"} \union Ended]

\* A run is evaluated once at most, whatever breaks: the HTTP request is made only
\* when the execute message was not sent (executeSent).  It ends as completed
\* when its task did, and if it lost no connection, only then.
RunsAreTrue ==
  \A r \in Runs :
    /\ Cardinality(evaluated \intersect {<<r, "stream">>, <<r, "http">>}) <= 1
    /\ outcome[<<r, "http">>] # "none" => r \notin up /\ outcome[<<r, "stream">>] = "none"
    /\ run[r].step = "completed" =>
         "completed" \in {outcome[<<r, "stream">>], outcome[<<r, "http">>]}
    /\ run[r].step = "failed" /\ r \notin broken =>
         "completed" \notin {outcome[<<r, "stream">>], outcome[<<r, "http">>]}

\* What the page shows is about its runs: the kernel, a cell and a task are not
\* shown as running when no run is; a cell that runs once at a time, and stays, is
\* shown as running while it does and has the result of its last run afterwards.
PageShowsTheRuns ==
  /\ kernel = "running" => \E r \in Runs : Unsettled(r)
  /\ \A c \in Cells :
       /\ c \in running \/ shown[c] \in {"queued", "running"} => Active(c)
       /\ c \notin disturbed =>
            /\ Active(c) => c \in running /\ results[c] = 0
            /\ results[c] # 0 => /\ run[results[c]].step = "completed"
                                 /\ \A r \in RunsOf(c) : r <= results[c]

\* Every run ends on the page, whatever breaks.
RunsEnd == \A r \in Runs : Unsettled(r) ~> ~Unsettled(r)
=============================================================================
