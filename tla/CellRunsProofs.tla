---------------------------- MODULE CellRunsProofs ----------------------------
(***************************************************************************)
(* Proofs about CellRuns, for any number of runs of any cells, connections *)
(* that break at any message and tasks that are cancelled at any time.     *)
(***************************************************************************)
EXTENDS CellRuns, FiniteSetTheorems, SequenceTheorems, TLAPS

Stream(r) == <<r, "stream">>
Http(r) == <<r, "http">>
Told(r, e) == \E i \in DOMAIN down[r] : down[r][i] = e

\* How far a run has come over its socket: its cell is sent once, after "ready",
\* and is on its way, with the server or known to the queue, in this order.
SocketOK(r) ==
  /\ run[r].step = "none" => link[r] = "none" /\ down[r] = <<>> /\ http[r] = "none"
  /\ run[r].step = "connecting" =>
       /\ link[r] \in {"opening", "open", "broken"}
       /\ down[r] = <<>> \/ down[r] = <<"ready">>
       /\ http[r] = "none"
  /\ run[r].step \in {"none", "connecting"} =>
       r \notin up /\ Stream(r) \notin loading /\ outcome[Stream(r)] = "none"
  /\ link[r] = "opening" => run[r].step = "connecting" /\ down[r] = <<>>
  /\ run[r].step = "sent" => link[r] \in {"open", "broken"} /\ ~Told(r, "ready")
  /\ run[r].step = "posted" => link[r] = "closed" /\ down[r] = <<>>
  /\ link[r] = "broken" => r \in broken
  /\ link[r] \in {"open", "broken"} => run[r].step \in {"connecting", "sent"}
  /\ r \in up => Stream(r) \notin loading /\ outcome[Stream(r)] = "none"
  /\ Stream(r) \in loading => outcome[Stream(r)] = "none"

\* A run that uses HTTP has given up its socket before it sent anything.
HttpOK(r) ==
  /\ http[r] # "none" \/ Http(r) \in loading \/ outcome[Http(r)] # "none" =>
       /\ run[r].step \notin {"none", "connecting", "sent"} /\ r \in broken
       /\ r \notin up /\ Stream(r) \notin loading /\ outcome[Stream(r)] = "none"
  /\ http[r] = "request" => Http(r) \notin loading /\ outcome[Http(r)] = "none"
  /\ Http(r) \in loading => outcome[Http(r)] = "none"

\* The task of the socket has not completed and never will.
Over(r) ==
  /\ r \notin up /\ Stream(r) \notin loading
  /\ outcome[Stream(r)] \in {"none", "failed", "cancelled"}

\* What the page is told, and believes, of the task.
TruthOK(r) ==
  /\ Told(r, "result") => outcome[Stream(r)] = "completed"
  /\ Told(r, "complete") => outcome[Stream(r)] \in Ended
  /\ Told(r, "error") \/ Told(r, "cancelled") => Over(r)
  /\ http[r] = "completed" => outcome[Http(r)] = "completed"
  /\ run[r].step = "completed" =>
       outcome[Stream(r)] = "completed" \/ outcome[Http(r)] = "completed"
  /\ run[r].step = "failed" /\ r \notin broken => Over(r)

RunOK(r) == SocketOK(r) /\ HttpOK(r) /\ TruthOK(r)

\* The queue holds a request once, and only while it is pending.
QueueOK ==
  /\ \A i \in DOMAIN line : outcome[line[i]] = "pending" /\ line[i] # current
  /\ current # Nobody => outcome[current] = "pending"
  /\ \A i, j \in DOMAIN line : line[i] = line[j] => i = j

EvaluatedOK == \A q \in evaluated : outcome[q] # "none"

CellInv == TypeOK /\ QueueOK /\ EvaluatedOK /\ \A r \in Runs : RunOK(r)

-----------------------------------------------------------------------------
(* The steps of the queue. *)

LEMMA RequestFacts ==
  /\ \A r \in Runs : Stream(r) \in Requests /\ Http(r) \in Requests
  /\ \A r, x : Stream(r) # Http(x)
  /\ \A r, x : Stream(r) = Stream(x) => r = x
  /\ \A r, x : Http(r) = Http(x) => r = x
  /\ \A q \in Requests : \E r \in Runs : r = q[1] /\ (q = Stream(r) \/ q = Http(r))
BY DEF Stream, Http, Requests

\* Request q of the queue goes on to outcome o.
Outcome(q, o) ==
  /\ outcome'[q] = o
  /\ \A x \in Requests : x # q => outcome'[x] = outcome[x]

QueueTypes ==
  /\ line' \in Seq(Requests) /\ current' \in Requests \union {Nobody}
  /\ asked' \subseteq Requests
  /\ outcome' \in [Requests -> {"none", "pending"} \union Ended]

LEMMA SubmitFacts ==
  ASSUME TypeOK, QueueOK, NEW q \in Requests, Queue!Submit(q)
  PROVE  QueueTypes /\ QueueOK' /\ Outcome(q, "pending") /\ outcome[q] = "none"
<1>1. /\ outcome[q] = "none" /\ line' = Append(line, q) /\ current' = current
      /\ asked' = asked
      /\ \A x \in Requests : outcome'[x] = IF x = q THEN "pending" ELSE outcome[x]
  BY DEF TypeOK, Queue!Submit
<1>2. \A i \in DOMAIN line : line[i] \in Requests /\ line[i] # q
  BY <1>1 DEF TypeOK, QueueOK
<1>3. /\ DOMAIN line = 1..Len(line) /\ Len(line) \in Nat
      /\ DOMAIN line' = 1..(Len(line) + 1)
      /\ \A i \in 1..Len(line) : line'[i] = line[i]
      /\ line'[Len(line) + 1] = q
  BY <1>1 DEF TypeOK
<1>4. \A i \in DOMAIN line' : i \in DOMAIN line \/ i = Len(line) + 1
  BY <1>3
<1>5. current # q
  BY <1>1, NobodyAssumption DEF TypeOK, QueueOK, Requests, Runs
<1>6. QueueOK'
  BY <1>1, <1>2, <1>3, <1>4, <1>5 DEF TypeOK, QueueOK
<1>7. QueueTypes
  BY <1>1 DEF QueueTypes, TypeOK, Queue!Submit
<1> QED BY <1>1, <1>6, <1>7 DEF Outcome

LEMMA WithdrawFacts ==
  ASSUME TypeOK, QueueOK, NEW q \in Requests, Queue!Withdraw(q)
  PROVE  QueueTypes /\ QueueOK' /\ Outcome(q, "cancelled") /\ outcome[q] = "pending"
<1>1. PICK i \in DOMAIN line :
        /\ line[i] = q
        /\ line' = [k \in 1..(Len(line) - 1) |-> line[IF k < i THEN k ELSE k + 1]]
  BY DEF Queue!Withdraw
<1>2. /\ DOMAIN line = 1..Len(line) /\ Len(line) \in Nat /\ i \in 1..Len(line)
      /\ DOMAIN line' = 1..(Len(line) - 1) /\ Len(line) - 1 \in Nat
      /\ current' = current /\ asked' = asked \union {q}
      /\ \A x \in Requests : outcome'[x] = IF x = q THEN "cancelled" ELSE outcome[x]
  BY <1>1 DEF TypeOK, Queue!Withdraw
<1> DEFINE old(k) == IF k < i THEN k ELSE k + 1
<1>3. ASSUME NEW k \in DOMAIN line'
      PROVE  old(k) \in DOMAIN line /\ old(k) # i /\ line'[k] = line[old(k)]
  BY <1>1, <1>2
<1>4. \A k, m \in DOMAIN line' : old(k) = old(m) => k = m
  BY <1>2
<1>5. \A k \in DOMAIN line : line[k] \in Requests
  BY DEF TypeOK
<1> HIDE DEF old
<1>6. \A k \in DOMAIN line' : line'[k] \in Requests /\ line'[k] # q
  BY <1>1, <1>3, <1>5 DEF QueueOK
<1>7. \A k \in DOMAIN line' : outcome'[line'[k]] = "pending" /\ line'[k] # current'
  BY <1>2, <1>3, <1>6 DEF QueueOK
<1>8. \A k, m \in DOMAIN line' : line'[k] = line'[m] => k = m
  BY <1>3, <1>4 DEF QueueOK
<1>9. current' # Nobody => outcome'[current'] = "pending"
  BY <1>1, <1>2 DEF QueueOK, TypeOK
<1>10. outcome[q] = "pending"
  BY <1>1 DEF QueueOK
<1>11. line' \in Seq(Requests)
  BY <1>1, <1>2, <1>6
<1>12. outcome' \in [Requests -> {"none", "pending"} \union Ended]
  BY DEF TypeOK, Queue!Withdraw, Ended
<1>13. QueueTypes
  BY <1>2, <1>11, <1>12 DEF QueueTypes, TypeOK
<1> QED BY <1>2, <1>7, <1>8, <1>9, <1>10, <1>13 DEF QueueOK, Outcome

LEMMA ServeFacts ==
  ASSUME TypeOK, QueueOK, Queue!Serve
  PROVE  /\ QueueTypes /\ QueueOK' /\ outcome' = outcome
         /\ Head(line) \in Requests /\ outcome[Head(line)] = "pending"
<1>1. /\ line # <<>> /\ line' = Tail(line) /\ current' = line[1]
      /\ outcome' = outcome /\ asked' = asked /\ Head(line) = line[1]
  BY DEF TypeOK, Queue!Serve
<1>2. /\ DOMAIN line = 1..Len(line) /\ Len(line) \in Nat /\ 1 \in DOMAIN line
      /\ DOMAIN line' = 1..(Len(line) - 1)
      /\ \A k \in DOMAIN line' : k + 1 \in DOMAIN line /\ line'[k] = line[k + 1]
  BY <1>1 DEF TypeOK
<1>3. \A k \in DOMAIN line' : k + 1 # 1
  BY <1>2
<1>4. \A k, m \in DOMAIN line' : k + 1 = m + 1 => k = m
  BY <1>2
<1>5. QueueOK'
  BY <1>1, <1>2, <1>3, <1>4 DEF QueueOK
<1>6. line[1] \in Requests /\ line' \in Seq(Requests)
  BY <1>1, <1>2 DEF TypeOK
<1>7. QueueTypes
  BY <1>1, <1>6 DEF QueueTypes, TypeOK
<1>8. outcome[line[1]] = "pending"
  BY <1>2 DEF QueueOK
<1> QED BY <1>1, <1>5, <1>6, <1>7, <1>8

LEMMA EndFacts ==
  ASSUME TypeOK, QueueOK, NEW o \in Ended, Queue!End(o)
  PROVE  /\ QueueTypes /\ QueueOK' /\ Outcome(current, o)
         /\ current \in Requests /\ outcome[current] = "pending"
<1>1. /\ current \in Requests /\ current' = Nobody /\ line' = line /\ asked' = asked
      /\ \A x \in Requests : outcome'[x] = IF x = current THEN o ELSE outcome[x]
  BY DEF TypeOK, Queue!End
<1>2. \A i \in DOMAIN line : line[i] \in Requests
  BY DEF TypeOK
<1>3. Nobody \notin Requests
  BY NobodyAssumption DEF Requests, Runs
<1>4. QueueTypes
  BY <1>1 DEF QueueTypes, TypeOK, Queue!End
<1> QED BY <1>1, <1>2, <1>3, <1>4 DEF QueueOK, Outcome

\* The queue is left alone.
LEMMA SameQueue ==
  ASSUME TypeOK, QueueOK, UNCHANGED queueVars
  PROVE  QueueTypes /\ QueueOK'
BY DEF TypeOK, QueueOK, QueueTypes, queueVars

-----------------------------------------------------------------------------
(* What the client of a request hears. *)

\* What the client of the stream of r is told: the events, or nothing.
LEMMA TellStream ==
  ASSUME TypeOK, NEW r \in Runs, NEW events \in Seq(Events), NEW end,
         Tell(Stream(r), events, end)
  PROVE  /\ http' = http /\ down' \in [Runs -> Seq(Events)]
         /\ \A x \in Runs : x # r => down'[x] = down[x]
         /\ link[r] # "open" => down'[r] = down[r]
         /\ \A e : Told(r, e)' => Told(r, e) \/ \E i \in DOMAIN events : events[i] = e
<1>1. /\ http' = http
      /\ down' = IF link[r] = "open" THEN [down EXCEPT ![r] = @ \o events] ELSE down
  BY DEF Tell, Stream
<1>2. down[r] \in Seq(Events) /\ down[r] \o events \in Seq(Events)
  BY DEF TypeOK
<1>3. CASE link[r] = "open"
  <2>1. down'[r] = down[r] \o events
    BY <1>1, <1>3 DEF TypeOK
  <2>2. ASSUME NEW i \in DOMAIN down'[r]
        PROVE  \/ i \in DOMAIN down[r] /\ down'[r][i] = down[r][i]
               \/ \E j \in DOMAIN events : down'[r][i] = events[j]
    <3>1. /\ DOMAIN down[r] = 1..Len(down[r]) /\ DOMAIN events = 1..Len(events)
          /\ Len(down[r]) \in Nat /\ Len(events) \in Nat
          /\ i \in 1..(Len(down[r]) + Len(events))
      BY <1>2, <2>1, <2>2
    <3>2. CASE i <= Len(down[r])
      BY <1>2, <2>1, <3>1, <3>2
    <3>3. CASE i > Len(down[r])
      BY <1>2, <2>1, <3>1, <3>3
    <3> QED BY <3>1, <3>2, <3>3
  <2>3. \A e : Told(r, e)' => Told(r, e) \/ \E i \in DOMAIN events : events[i] = e
    BY <2>2 DEF Told
  <2> QED BY <1>1, <1>2, <1>3, <2>3 DEF TypeOK
<1>4. CASE link[r] # "open"
  BY <1>1, <1>4 DEF TypeOK, Told
<1> QED BY <1>3, <1>4

LEMMA TellHttp ==
  ASSUME TypeOK, NEW r \in Runs, NEW events, NEW end \in {"served", "completed", "failed"},
         Tell(Http(r), events, end)
  PROVE  /\ down' = down
         /\ http' \in [Runs -> {"none", "request", "served", "completed", "failed", "lost"}]
         /\ \A x \in Runs : x # r => http'[x] = http[x]
         /\ http'[r] = http[r] \/ (http[r] = "served" /\ http'[r] = end)
BY DEF Tell, Http, TypeOK

-----------------------------------------------------------------------------
(* One run at a time. *)

\* A step that leaves run x alone, or only loses a connection of it.
Same(x) ==
  /\ run'[x] = run[x] /\ link'[x] = link[x] /\ down'[x] = down[x] /\ http'[x] = http[x]
  /\ x \in up' <=> x \in up
  /\ \A q \in {Stream(x), Http(x)} :
       (q \in loading' <=> q \in loading) /\ outcome'[q] = outcome[q]
  /\ x \in broken => x \in broken'

LEMMA SameRun ==
  ASSUME NEW x \in Runs, RunOK(x), Same(x)
  PROVE  RunOK(x)'
<1>1. \A e : Told(x, e)' <=> Told(x, e)
  BY DEF Same, Told
<1>2. SocketOK(x)'
  BY <1>1 DEF Same, RunOK, SocketOK
<1>3. HttpOK(x)'
  BY DEF Same, RunOK, HttpOK
<1>4. TruthOK(x)'
  BY <1>1 DEF Same, RunOK, TruthOK, Over
<1> QED BY <1>2, <1>3, <1>4 DEF RunOK

\* The page and the sockets are left alone.
Settled == UNCHANGED <<run, link, up, broken>>

\* The server goes on with the request of a stream.
LEMMA StreamMove ==
  ASSUME NEW r \in Runs, RunOK(r), Settled,
         Stream(r) \in loading \/ outcome[Stream(r)] = "pending",
         Stream(r) \notin loading',
         http'[r] = http[r], Http(r) \in loading' <=> Http(r) \in loading,
         outcome'[Http(r)] = outcome[Http(r)],
         link[r] # "open" => down'[r] = down[r],
         NEW events,
         \A e : Told(r, e)' => Told(r, e) \/ \E i \in DOMAIN events : events[i] = e,
         \A i \in DOMAIN events :
           /\ events[i] # "ready"
           /\ events[i] = "result" => outcome'[Stream(r)] = "completed"
           /\ events[i] = "complete" => outcome'[Stream(r)] \in Ended
           /\ events[i] \in {"error", "cancelled"} =>
                outcome'[Stream(r)] \in {"none", "failed", "cancelled"}
  PROVE  RunOK(r)'
<1>1. /\ run'[r] = run[r] /\ link'[r] = link[r] /\ (r \in up' <=> r \in up)
      /\ (r \in broken' <=> r \in broken)
  BY DEF Settled
<1>2. /\ run[r].step \notin {"none", "connecting"} /\ link[r] # "opening"
      /\ r \notin up
      /\ http[r] = "none" /\ Http(r) \notin loading /\ outcome[Http(r)] = "none"
  BY DEF RunOK, SocketOK, HttpOK
<1>3. /\ ~Told(r, "result") /\ ~Told(r, "error") /\ ~Told(r, "cancelled")
      /\ ~Told(r, "complete")
      /\ run[r].step # "completed"
      /\ ~(run[r].step = "failed" /\ r \notin broken)
  BY <1>2 DEF RunOK, TruthOK, Over, SocketOK, Ended
<1>4. SocketOK(r)'
  BY <1>1, <1>2 DEF RunOK, SocketOK
<1>5. HttpOK(r)'
  BY <1>1, <1>2 DEF RunOK, HttpOK
<1>6. TruthOK(r)'
  BY <1>1, <1>2, <1>3 DEF TruthOK, Over
<1> QED BY <1>4, <1>5, <1>6 DEF RunOK

\* The server goes on with the HTTP request of a run.
LEMMA HttpMove ==
  ASSUME NEW r \in Runs, RunOK(r), Settled, down' = down,
         Http(r) \in loading \/ outcome[Http(r)] = "pending",
         Http(r) \notin loading',
         Stream(r) \in loading' <=> Stream(r) \in loading,
         outcome'[Stream(r)] = outcome[Stream(r)],
         http'[r] = http[r] \/ http'[r] = "served" \/ http'[r] = "failed"
           \/ (http'[r] = "completed" /\ outcome'[Http(r)] = "completed")
  PROVE  RunOK(r)'
<1>1. /\ run'[r] = run[r] /\ link'[r] = link[r] /\ (r \in up' <=> r \in up)
      /\ (r \in broken' <=> r \in broken) /\ \A e : Told(r, e)' <=> Told(r, e)
  BY DEF Settled, Told
<1>2. /\ run[r].step \notin {"none", "connecting", "sent"} /\ r \in broken
      /\ r \notin up /\ Stream(r) \notin loading /\ outcome[Stream(r)] = "none"
      /\ http[r] # "request" /\ http[r] # "completed"
  BY DEF RunOK, SocketOK, HttpOK, TruthOK
<1>3. SocketOK(r)'
  BY <1>1, <1>2 DEF RunOK, SocketOK
<1>4. HttpOK(r)'
  BY <1>1, <1>2 DEF RunOK, HttpOK
<1>5. TruthOK(r)'
  BY <1>1, <1>2 DEF RunOK, TruthOK, Over, HttpOK
<1> QED BY <1>3, <1>4, <1>5 DEF RunOK

\* A step of the page or of a connection, of run r alone.
LEMMA RunStep ==
  ASSUME CellInv, NEW r \in Runs, TypeOK', UNCHANGED <<evaluated, queueVars>>,
         \A x \in Runs : x # r => Same(x), RunOK(r)'
  PROVE  CellInv'
<1>1. QueueOK'
  BY SameQueue DEF CellInv
<1>2. EvaluatedOK'
  BY DEF CellInv, EvaluatedOK, queueVars
<1>3. \A x \in Runs : RunOK(x)'
  BY SameRun DEF CellInv
<1> QED BY <1>1, <1>2, <1>3 DEF CellInv

\* A step of the page that ends, sends or starts nothing.
LEMMA PageStep ==
  ASSUME CellInv, TypeOK', UNCHANGED <<run, wireVars, serverVars>>
  PROVE  CellInv'
<1>1. \A x \in Runs : Same(x)
  BY DEF wireVars, serverVars, queueVars, Same
<1>2. QueueOK' /\ EvaluatedOK'
  BY SameQueue DEF CellInv, EvaluatedOK, serverVars, queueVars
<1>3. \A x \in Runs : RunOK(x)'
  BY <1>1, SameRun DEF CellInv
<1> QED BY <1>2, <1>3 DEF CellInv

-----------------------------------------------------------------------------
(* The page. *)

LEMMA RunCellStep ==
  ASSUME CellInv, NEW r \in Runs, NEW c \in Cells, RunCell(r, c)
  PROVE  CellInv'
<1>1. TypeOK'
  <2>1. run' \in [Runs -> [cell : Cells \union {"none"},
                          step : {"none", "connecting", "sent", "posted",
                                  "completed", "failed"}]]
    BY DEF CellInv, TypeOK, RunCell
  <2>2. shown' \in [Cells -> {"none", "queued", "running"} \union Ended]
    BY DEF CellInv, TypeOK, RunCell
  <2>3. results' \in [Cells -> 0..MaxRuns]
    BY RunsAssumption DEF CellInv, TypeOK, RunCell
  <2>4. /\ link' \in [Runs -> {"none", "opening", "open", "broken", "closed"}]
        /\ running' \subseteq Cells /\ disturbed' \subseteq Cells /\ kernel' = "running"
    BY DEF CellInv, TypeOK, RunCell
  <2> QED BY <2>1, <2>2, <2>3, <2>4
        DEF CellInv, TypeOK, RunCell, serverVars, queueVars
<1>2. \A x \in Runs : x # r => Same(x)
  BY DEF CellInv, TypeOK, RunCell, serverVars, queueVars, Same
<1>3. /\ run[r].step = "none" /\ run'[r].step = "connecting" /\ link'[r] = "opening"
      /\ UNCHANGED <<up, down, http, broken, serverVars>>
  BY DEF CellInv, TypeOK, RunCell, NoRun
<1>4. RunOK(r)
  BY DEF CellInv
<1>5. /\ down[r] = <<>> /\ http[r] = "none" /\ r \notin up /\ Stream(r) \notin loading
      /\ outcome[Stream(r)] = "none" /\ Http(r) \notin loading
      /\ outcome[Http(r)] = "none"
  BY <1>3, <1>4 DEF RunOK, SocketOK, HttpOK
<1>6. SocketOK(r)' /\ HttpOK(r)'
  BY <1>3, <1>5 DEF serverVars, queueVars, SocketOK, HttpOK
<1>7. \A e : ~Told(r, e)'
  BY <1>3, <1>5 DEF Told
<1>8. TruthOK(r)'
  BY <1>3, <1>5, <1>7 DEF serverVars, queueVars, TruthOK
<1>9. RunOK(r)'
  BY <1>6, <1>8 DEF RunOK
<1>10. UNCHANGED <<evaluated, queueVars>>
  BY <1>3 DEF serverVars
<1> QED BY <1>1, <1>2, <1>9, <1>10, RunStep

\* The types of what the end of a run changes.
LEMMA SettleTypes ==
  ASSUME TypeOK, NEW r \in Runs, NEW how \in Ended, Settle(r, how)
  PROVE  /\ run' \in [Runs -> [cell : Cells \union {"none"},
                               step : {"none", "connecting", "sent", "posted",
                                       "completed", "failed"}]]
         /\ running' \subseteq Cells
         /\ shown' \in [Cells -> {"none", "queued", "running"} \union Ended]
         /\ results' \in [Cells -> 0..MaxRuns]
         /\ kernel' \in {"idle", "running", "stopped"}
         /\ run'[r].step = (IF how = "completed" THEN how ELSE "failed")
         /\ \A x \in Runs : x # r => run'[x] = run[x]
<1>1. r \in 0..MaxRuns /\ 0 \in 0..MaxRuns
  BY RunsAssumption DEF Runs
<1>2. PICK end \in {"completed", "failed"} :
        /\ end = (IF how = "completed" THEN how ELSE "failed")
        /\ run' = [run EXCEPT ![r].step = end]
        /\ running' = running \ {run[r].cell}
  BY DEF Settle
<1>3. shown' \in [Cells -> {"none", "queued", "running"} \union Ended]
  BY DEF Settle, TypeOK, Finalized, Ended
<1>4. results' \in [Cells -> 0..MaxRuns]
  BY <1>1 DEF Settle, TypeOK
<1>5. kernel' \in {"idle", "running", "stopped"}
  BY DEF Settle, KernelOf
<1>6. /\ run \in [Runs -> [cell : Cells \union {"none"},
                         step : {"none", "connecting", "sent", "posted",
                                 "completed", "failed"}]]
      /\ running \subseteq Cells
  BY DEF TypeOK
<1>7. run' \in [Runs -> [cell : Cells \union {"none"},
                        step : {"none", "connecting", "sent", "posted",
                                "completed", "failed"}]]
  BY <1>2, <1>6
<1>8. run'[r].step = end /\ \A x \in Runs : x # r => run'[x] = run[x]
  BY <1>2, <1>6
<1> QED BY <1>2, <1>3, <1>4, <1>5, <1>6, <1>7, <1>8

LEMMA ReadyStep ==
  ASSUME CellInv, NEW r \in Runs, Deliver(r), Ready(r)
  PROVE  CellInv'
<1>1. /\ down[r] \in Seq(Events) /\ down[r] # <<>> /\ Head(down[r]) = "ready"
      /\ run'[r].step = "sent" /\ link' = link /\ down'[r] = Tail(down[r])
      /\ up' = IF link[r] = "open" THEN up \union {r} ELSE up
      /\ UNCHANGED <<http, broken, serverVars>>
  BY DEF CellInv, TypeOK, Deliver, Ready
<1>2. TypeOK'
  <2>1. run' \in [Runs -> [cell : Cells \union {"none"},
                          step : {"none", "connecting", "sent", "posted",
                                  "completed", "failed"}]]
    BY DEF CellInv, TypeOK, Ready
  <2>2. down' \in [Runs -> Seq(Events)]
    BY <1>1 DEF CellInv, TypeOK, Ready
  <2> QED BY <1>1, <2>1, <2>2 DEF CellInv, TypeOK, Ready, serverVars, queueVars
<1>3. \A x \in Runs : x # r => Same(x)
  BY <1>1 DEF CellInv, TypeOK, Deliver, Ready, serverVars, queueVars, Same
<1>4. RunOK(r)
  BY DEF CellInv
<1>5. 1 \in DOMAIN down[r] /\ down[r][1] = "ready"
  BY <1>1
<1>6. run[r].step = "connecting"
  BY <1>1, <1>4, <1>5 DEF RunOK, SocketOK, Told, Deliver, Unsettled
<1>7. /\ down[r] = <<"ready">> /\ link[r] \in {"open", "broken"} /\ http[r] = "none"
      /\ r \notin up /\ Stream(r) \notin loading /\ outcome[Stream(r)] = "none"
      /\ Http(r) \notin loading /\ outcome[Http(r)] = "none"
  BY <1>1, <1>4, <1>6 DEF RunOK, SocketOK, HttpOK
<1>8. down'[r] = <<>>
  BY <1>1, <1>7
<1>9. \A e : ~Told(r, e)'
  BY <1>8 DEF Told
<1>10. SocketOK(r)'
  BY <1>1, <1>4, <1>7, <1>8, <1>9 DEF RunOK, SocketOK, serverVars, queueVars
<1>11. HttpOK(r)' /\ TruthOK(r)'
  BY <1>1, <1>7, <1>9 DEF HttpOK, TruthOK, serverVars, queueVars
<1>12. RunOK(r)'
  BY <1>10, <1>11 DEF RunOK
<1>13. UNCHANGED <<evaluated, queueVars>>
  BY <1>1 DEF serverVars
<1> QED BY <1>2, <1>3, <1>12, <1>13, RunStep

LEMMA ShowStep ==
  ASSUME CellInv, NEW r \in Runs, Deliver(r), Show(r)
  PROVE  CellInv'
<1>1. /\ down[r] \in Seq(Events) /\ down[r] # <<>>
      /\ Head(down[r]) \in {"queued", "started", "complete"}
      /\ run' = run /\ link' = link /\ down'[r] = Tail(down[r])
      /\ UNCHANGED <<up, http, broken, serverVars>>
  BY DEF CellInv, TypeOK, Deliver, Show
<1>2. RunOK(r) /\ 1 \in DOMAIN down[r] /\ down[r][1] = Head(down[r])
  BY <1>1 DEF CellInv
<1>3. run[r].step = "sent"
  BY <1>1, <1>2 DEF RunOK, SocketOK, Deliver, Unsettled
<1>4. StatusIn(Head(down[r]), r) \in {"none", "queued", "running"} \union Ended
  BY <1>1, <1>2 DEF RunOK, TruthOK, Told, StatusIn, Stream
<1>5. shown' \in [Cells -> {"none", "queued", "running"} \union Ended]
  BY <1>4 DEF CellInv, TypeOK, Show
<1>6. down' \in [Runs -> Seq(Events)]
  BY <1>1 DEF CellInv, TypeOK, Show
<1>7. TypeOK'
  BY <1>1, <1>5, <1>6 DEF CellInv, TypeOK, Show, serverVars, queueVars
<1>8. \A x \in Runs : x # r => Same(x)
  BY <1>1 DEF CellInv, TypeOK, Show, serverVars, queueVars, Same
<1>9. \A e : Told(r, e)' => Told(r, e)
  <2>1. \A i \in DOMAIN down'[r] : i + 1 \in DOMAIN down[r] /\ down'[r][i] = down[r][i + 1]
    BY <1>1
  <2> QED BY <2>1 DEF Told
<1>10. SocketOK(r)'
  BY <1>1, <1>2, <1>3, <1>9 DEF RunOK, SocketOK, serverVars, queueVars
<1>11. HttpOK(r)'
  BY <1>1, <1>2 DEF RunOK, HttpOK, serverVars, queueVars
<1>12. TruthOK(r)'
  BY <1>1, <1>2, <1>9 DEF RunOK, TruthOK, Over, serverVars, queueVars
<1>13. UNCHANGED <<evaluated, queueVars>> /\ RunOK(r)'
  BY <1>1, <1>10, <1>11, <1>12 DEF serverVars, RunOK
<1> QED BY <1>7, <1>8, <1>13, RunStep

LEMMA LastStep ==
  ASSUME CellInv, NEW r \in Runs, Deliver(r), Last(r)
  PROVE  CellInv'
<1>1. /\ down[r] \in Seq(Events) /\ down[r] # <<>>
      /\ Head(down[r]) \in {"result", "error", "cancelled"}
      /\ Settle(r, How(Head(down[r]))) /\ How(Head(down[r])) \in Ended
      /\ link' = [link EXCEPT ![r] = "closed"] /\ down' = [down EXCEPT ![r] = <<>>]
      /\ UNCHANGED <<cells, disturbed, up, http, broken, serverVars>>
  BY DEF CellInv, TypeOK, Deliver, Last, How, Ended
<1>2. RunOK(r) /\ 1 \in DOMAIN down[r] /\ down[r][1] = Head(down[r])
  BY <1>1 DEF CellInv
<1>3. PICK how \in Ended : how = How(Head(down[r]))
  BY <1>1
<1>4. TypeOK /\ Settle(r, how)
  BY <1>1, <1>3 DEF CellInv
<1>5. /\ run' \in [Runs -> [cell : Cells \union {"none"},
                            step : {"none", "connecting", "sent", "posted",
                                    "completed", "failed"}]]
      /\ running' \subseteq Cells
      /\ shown' \in [Cells -> {"none", "queued", "running"} \union Ended]
      /\ results' \in [Cells -> 0..MaxRuns]
      /\ kernel' \in {"idle", "running", "stopped"}
      /\ run'[r].step = (IF how = "completed" THEN how ELSE "failed")
      /\ \A x \in Runs : x # r => run'[x] = run[x]
  BY <1>4, SettleTypes
<1>6. /\ link' \in [Runs -> {"none", "opening", "open", "broken", "closed"}]
      /\ down' \in [Runs -> Seq(Events)] /\ link'[r] = "closed" /\ down'[r] = <<>>
  BY <1>1 DEF CellInv, TypeOK
<1>7. TypeOK'
  BY <1>1, <1>5, <1>6 DEF CellInv, TypeOK, serverVars, queueVars
<1>8. \A x \in Runs : x # r => Same(x)
  BY <1>1, <1>5 DEF CellInv, TypeOK, serverVars, queueVars, Same
<1>9. run[r].step = "sent"
  BY <1>1, <1>2 DEF RunOK, SocketOK, Deliver, Unsettled
<1>10. /\ http[r] = "none" /\ Http(r) \notin loading /\ outcome[Http(r)] = "none"
       /\ how = "completed" => outcome[Stream(r)] = "completed"
       /\ how # "completed" => Over(r)
  BY <1>1, <1>2, <1>3, <1>9 DEF RunOK, HttpOK, TruthOK, Told, How, Ended
<1>11. \A e : ~Told(r, e)'
  BY <1>6 DEF Told
<1>12. SocketOK(r)'
  BY <1>1, <1>2, <1>5, <1>6 DEF RunOK, SocketOK, serverVars, queueVars
<1>13. HttpOK(r)' /\ TruthOK(r)'
  BY <1>1, <1>5, <1>10, <1>11 DEF HttpOK, TruthOK, Over, serverVars, queueVars
<1>14. UNCHANGED <<evaluated, queueVars>> /\ RunOK(r)'
  BY <1>1, <1>12, <1>13 DEF serverVars, RunOK
<1> QED BY <1>7, <1>8, <1>14, RunStep

LEMMA NoticedStep ==
  ASSUME CellInv, NEW r \in Runs, Noticed(r)
  PROVE  CellInv'
<1>1. /\ link[r] = "broken" /\ down[r] = <<>> /\ link' = [link EXCEPT ![r] = "closed"]
      /\ UNCHANGED <<cells, disturbed, up, down, broken, evaluated, queueVars>>
      /\ UNCHANGED serverVars
  BY DEF Noticed, serverVars
<1>2. /\ link' \in [Runs -> {"none", "opening", "open", "broken", "closed"}]
      /\ link'[r] = "closed" /\ \A x \in Runs : x # r => link'[x] = link[x]
  BY <1>1 DEF CellInv, TypeOK
<1>3. RunOK(r) /\ r \in broken /\ run[r].step # "none" /\ TypeOK
      /\ \A e : ~Told(r, e)'
  BY <1>1 DEF CellInv, RunOK, SocketOK, Told
<1>4. CASE FallsBack(r)
  <2>1. /\ run' = [run EXCEPT ![r].step = "posted"]
        /\ http' = [http EXCEPT ![r] = "request"] /\ run[r].step = "connecting"
        /\ UNCHANGED <<running, shown, results, kernel>>
    BY <1>4 DEF Noticed, FallsBack
  <2>2. TypeOK'
    <3>1. run' \in [Runs -> [cell : Cells \union {"none"},
                            step : {"none", "connecting", "sent", "posted",
                                    "completed", "failed"}]]
      <4>1. run' = [run EXCEPT ![r].step = "posted"]
        BY <2>1
      <4>2. run \in [Runs -> [cell : Cells \union {"none"},
                              step : {"none", "connecting", "sent", "posted",
                                      "completed", "failed"}]]
        BY <1>3 DEF TypeOK
      <4> QED BY <4>1, <4>2
    <3>2. http' \in [Runs -> {"none", "request", "served", "completed", "failed",
                             "lost"}]
      BY <1>3, <2>1 DEF TypeOK
    <3> QED BY <1>1, <1>2, <1>3, <2>1, <3>1, <3>2 DEF TypeOK, serverVars, queueVars
  <2>3. \A x \in Runs : x # r => Same(x)
    BY <1>1, <1>2, <1>3, <2>1 DEF TypeOK, serverVars, queueVars, Same
  <2>4. run'[r].step = "posted" /\ http'[r] = "request"
    BY <1>3, <2>1 DEF TypeOK
  <2>5. /\ r \notin up /\ Stream(r) \notin loading /\ outcome[Stream(r)] = "none"
        /\ Http(r) \notin loading /\ outcome[Http(r)] = "none"
    BY <1>3, <2>1 DEF RunOK, SocketOK, HttpOK
  <2>6. SocketOK(r)'
    BY <1>1, <1>2, <2>4, <2>5 DEF SocketOK, serverVars, queueVars
  <2>7. HttpOK(r)' /\ TruthOK(r)'
    BY <1>1, <1>3, <2>4, <2>5 DEF HttpOK, TruthOK, serverVars, queueVars
  <2>8. RunOK(r)'
    BY <2>6, <2>7 DEF RunOK
  <2> QED BY <1>1, <2>2, <2>3, <2>8, RunStep
<1>5. CASE ~FallsBack(r)
  <2>1. Settle(r, "failed") /\ http' = http /\ "failed" \in Ended
    BY <1>5 DEF Noticed, Ended
  <2>2. /\ run' \in [Runs -> [cell : Cells \union {"none"},
                              step : {"none", "connecting", "sent", "posted",
                                      "completed", "failed"}]]
        /\ running' \subseteq Cells
        /\ shown' \in [Cells -> {"none", "queued", "running"} \union Ended]
        /\ results' \in [Cells -> 0..MaxRuns]
        /\ kernel' \in {"idle", "running", "stopped"}
        /\ run'[r].step = "failed"
        /\ \A x \in Runs : x # r => run'[x] = run[x]
    BY <1>3, <2>1, SettleTypes
  <2>3. TypeOK'
    BY <1>1, <1>2, <1>3, <2>1, <2>2 DEF TypeOK, serverVars, queueVars
  <2>4. \A x \in Runs : x # r => Same(x)
    BY <1>1, <1>2, <1>3, <2>1, <2>2 DEF TypeOK, serverVars, queueVars, Same
  <2>5. SocketOK(r)'
    BY <1>1, <1>2, <1>3, <2>2 DEF RunOK, SocketOK, serverVars, queueVars
  <2>6. HttpOK(r)'
    BY <1>1, <1>3, <2>1, <2>2 DEF RunOK, HttpOK, serverVars, queueVars
  <2>7. TruthOK(r)'
    BY <1>1, <1>3, <2>1, <2>2 DEF RunOK, TruthOK, serverVars, queueVars
  <2>8. RunOK(r)'
    BY <2>5, <2>6, <2>7 DEF RunOK
  <2> QED BY <1>1, <2>3, <2>4, <2>8, RunStep
<1> QED BY <1>4, <1>5

LEMMA AnsweredStep ==
  ASSUME CellInv, NEW r \in Runs, Answered(r)
  PROVE  CellInv'
<1>1. /\ run[r].step = "posted" /\ http[r] \in {"completed", "failed", "lost"}
      /\ http' = [http EXCEPT ![r] = "none"]
      /\ UNCHANGED <<cells, disturbed, link, up, down, broken, evaluated, queueVars>>
      /\ UNCHANGED serverVars
  BY DEF Answered, serverVars
<1>2. PICK how \in Ended :
        /\ Settle(r, how)
        /\ how = IF http[r] = "completed" THEN "completed" ELSE "failed"
  BY DEF Answered, Ended
<1>3. RunOK(r) /\ TypeOK
  BY DEF CellInv
<1>4. /\ run' \in [Runs -> [cell : Cells \union {"none"},
                            step : {"none", "connecting", "sent", "posted",
                                    "completed", "failed"}]]
      /\ running' \subseteq Cells
      /\ shown' \in [Cells -> {"none", "queued", "running"} \union Ended]
      /\ results' \in [Cells -> 0..MaxRuns]
      /\ kernel' \in {"idle", "running", "stopped"}
      /\ run'[r].step = (IF how = "completed" THEN how ELSE "failed")
      /\ \A x \in Runs : x # r => run'[x] = run[x]
  BY <1>2, <1>3, SettleTypes
<1>5. /\ http' \in [Runs -> {"none", "request", "served", "completed", "failed", "lost"}]
      /\ http'[r] = "none" /\ \A x \in Runs : x # r => http'[x] = http[x]
  BY <1>1, <1>3 DEF TypeOK
<1>6. TypeOK'
  BY <1>1, <1>3, <1>4, <1>5 DEF TypeOK, serverVars, queueVars
<1>7. \A x \in Runs : x # r => Same(x)
  BY <1>1, <1>4, <1>5 DEF serverVars, queueVars, Same
<1>8. \A e : ~Told(r, e)'
  BY <1>1, <1>3 DEF RunOK, SocketOK, Told
<1>9. SocketOK(r)'
  BY <1>1, <1>3, <1>4, <1>5, <1>8 DEF RunOK, SocketOK, serverVars, queueVars
<1>10. HttpOK(r)'
  BY <1>1, <1>3, <1>4, <1>5 DEF RunOK, HttpOK, serverVars, queueVars
<1>11. r \in broken /\ (how = "completed" => outcome[Http(r)] = "completed")
  BY <1>1, <1>2, <1>3 DEF RunOK, HttpOK, TruthOK
<1>12. TruthOK(r)'
  BY <1>1, <1>4, <1>5, <1>8, <1>11 DEF TruthOK, serverVars, queueVars
<1>13. RunOK(r)'
  BY <1>9, <1>10, <1>12 DEF RunOK
<1> QED BY <1>1, <1>6, <1>7, <1>13, RunStep

LEMMA DeleteCellStep ==
  ASSUME CellInv, NEW c \in Cells, DeleteCell(c)
  PROVE  CellInv'
<1>1. results' \in [Cells -> 0..MaxRuns]
  BY RunsAssumption DEF CellInv, TypeOK, DeleteCell
<1>2. /\ cells' \subseteq Cells /\ running' \subseteq Cells /\ disturbed' \subseteq Cells
      /\ shown' \in [Cells -> {"none", "queued", "running"} \union Ended]
      /\ kernel' = kernel /\ UNCHANGED <<run, wireVars, serverVars>>
  BY DEF CellInv, TypeOK, DeleteCell
<1>3. TypeOK'
  BY <1>1, <1>2 DEF CellInv, TypeOK, wireVars, serverVars, queueVars
<1> QED BY <1>2, <1>3, PageStep

LEMMA NewDocumentStep ==
  ASSUME CellInv, NEW D \in SUBSET Cells, NEW S, NewDocument(D, S)
  PROVE  CellInv'
<1>1. results' \in [Cells -> 0..MaxRuns]
  BY RunsAssumption DEF CellInv, TypeOK, NewDocument
<1>2. /\ cells' \subseteq Cells /\ running' \subseteq Cells /\ disturbed' \subseteq Cells
      /\ shown' \in [Cells -> {"none", "queued", "running"} \union Ended]
      /\ kernel' \in {"idle", "running", "stopped"}
      /\ UNCHANGED <<run, wireVars, serverVars>>
  BY DEF CellInv, TypeOK, NewDocument, KernelOf
<1>3. TypeOK'
  BY <1>1, <1>2 DEF CellInv, TypeOK, wireVars, serverVars, queueVars
<1> QED BY <1>2, <1>3, PageStep

-----------------------------------------------------------------------------
(* The connections. *)

LEMMA AcceptStep ==
  ASSUME CellInv, NEW r \in Runs, Accept(r)
  PROVE  CellInv'
<1>1. /\ link[r] = "opening" /\ link'[r] = "open" /\ down'[r] = <<"ready">>
      /\ UNCHANGED <<run, up, http, broken, evaluated, queueVars>>
      /\ UNCHANGED serverVars
  BY DEF CellInv, TypeOK, Accept, pageVars, serverVars
<1>2. RunOK(r)
  BY DEF CellInv
<1>3. <<"ready">> \in Seq(Events)
  BY DEF Events
<1>4. TypeOK'
  BY <1>3 DEF CellInv, TypeOK, Accept, pageVars, serverVars, queueVars
<1>5. \A x \in Runs : x # r => Same(x)
  BY DEF CellInv, TypeOK, Accept, pageVars, serverVars, queueVars, Same
<1>6. /\ run[r].step = "connecting" /\ r \notin up /\ Stream(r) \notin loading
      /\ outcome[Stream(r)] = "none" /\ http[r] = "none"
      /\ Http(r) \notin loading /\ outcome[Http(r)] = "none"
  BY <1>1, <1>2 DEF RunOK, SocketOK, HttpOK
<1>7. \A e : Told(r, e)' => e = "ready"
  BY <1>1 DEF Told
<1>8. SocketOK(r)'
  BY <1>1, <1>6 DEF SocketOK, serverVars, queueVars
<1>9. HttpOK(r)' /\ TruthOK(r)'
  BY <1>1, <1>6, <1>7 DEF HttpOK, TruthOK, serverVars, queueVars
<1>10. RunOK(r)'
  BY <1>8, <1>9 DEF RunOK
<1> QED BY <1>1, <1>4, <1>5, <1>10, RunStep

LEMMA BreakStep ==
  ASSUME CellInv, NEW r \in Runs, NEW n \in 0..Len(down[r]), NEW arrives \in BOOLEAN,
         Break(r, n, arrives)
  PROVE  CellInv'
<1>1. /\ link[r] \in {"opening", "open"} /\ link'[r] = "broken"
      /\ down'[r] = SubSeq(down[r], 1, n)
      /\ up' \subseteq up /\ r \in broken' /\ broken \subseteq broken'
      /\ UNCHANGED <<run, http, evaluated, queueVars>> /\ UNCHANGED serverVars
  BY DEF CellInv, TypeOK, Break, pageVars, serverVars
<1>2. RunOK(r) /\ down[r] \in Seq(Events) /\ n \in 0..Len(down[r])
  BY DEF CellInv, TypeOK
<1>3. /\ down'[r] \in Seq(Events) /\ DOMAIN down'[r] \subseteq DOMAIN down[r]
      /\ \A i \in DOMAIN down'[r] : down'[r][i] = down[r][i]
  BY <1>1, <1>2
<1>4. TypeOK'
  <2>1. down' \in [Runs -> Seq(Events)]
    BY <1>1, <1>3 DEF CellInv, TypeOK, Break
  <2>2. link' \in [Runs -> {"none", "opening", "open", "broken", "closed"}]
        /\ up' \subseteq Runs /\ broken' \subseteq Runs
    BY DEF CellInv, TypeOK, Break
  <2> QED BY <2>1, <2>2 DEF CellInv, TypeOK, Break, pageVars, serverVars, queueVars
<1>5. \A x \in Runs : x # r => Same(x)
  BY DEF CellInv, TypeOK, Break, pageVars, serverVars, queueVars, Same
<1>6. \A e : Told(r, e)' => Told(r, e)
  BY <1>3 DEF Told
<1>7. down[r] = <<>> => down'[r] = <<>>
  BY <1>1, <1>2
<1>8. down[r] = <<"ready">> => down'[r] = <<>> \/ down'[r] = <<"ready">>
  <2>1. SUFFICES ASSUME down[r] = <<"ready">>
                 PROVE  down'[r] = <<>> \/ down'[r] = <<"ready">>
    OBVIOUS
  <2>2. Len(down[r]) = 1 /\ (n = 0 \/ n = 1) /\ "ready" \in Events
    BY <1>2, <2>1 DEF Events
  <2>3. CASE n = 0
    BY <1>1, <1>2, <1>3, <2>3
  <2>4. CASE n = 1
    <3>1. SubSeq(down[r], 1, Len(down[r])) = down[r]
      BY <1>2, SubSeqFull
    <3> QED BY <1>1, <2>1, <2>2, <2>4, <3>1
  <2> QED BY <2>2, <2>3, <2>4
<1>9. SocketOK(r)'
  BY <1>1, <1>2, <1>6, <1>7, <1>8 DEF RunOK, SocketOK, serverVars, queueVars
<1>10. HttpOK(r)'
  BY <1>1, <1>2 DEF RunOK, HttpOK, serverVars, queueVars
<1>11. TruthOK(r)'
  BY <1>1, <1>2, <1>6 DEF RunOK, TruthOK, Over, serverVars, queueVars
<1>12. RunOK(r)'
  BY <1>9, <1>10, <1>11 DEF RunOK
<1> QED BY <1>1, <1>4, <1>5, <1>12, RunStep

LEMMA LoseStep ==
  ASSUME CellInv, NEW r \in Runs, Lose(r)
  PROVE  CellInv'
<1>1. /\ http[r] \in {"request", "served", "completed", "failed"} /\ http'[r] = "lost"
      /\ r \in broken' /\ broken \subseteq broken'
      /\ UNCHANGED <<run, link, up, down, evaluated, queueVars>> /\ UNCHANGED serverVars
  BY DEF CellInv, TypeOK, Lose, pageVars, serverVars
<1>2. RunOK(r) /\ \A e : Told(r, e)' <=> Told(r, e)
  BY <1>1 DEF CellInv, Told
<1>3. TypeOK'
  BY DEF CellInv, TypeOK, Lose, pageVars, serverVars, queueVars
<1>4. \A x \in Runs : x # r => Same(x)
  BY DEF CellInv, TypeOK, Lose, pageVars, serverVars, queueVars, Same
<1>5. SocketOK(r)'
  BY <1>1, <1>2 DEF RunOK, SocketOK, HttpOK, serverVars, queueVars
<1>6. HttpOK(r)'
  BY <1>1, <1>2 DEF RunOK, HttpOK, serverVars, queueVars
<1>7. TruthOK(r)'
  BY <1>1, <1>2 DEF RunOK, TruthOK, Over, serverVars, queueVars
<1>8. RunOK(r)'
  BY <1>5, <1>6, <1>7 DEF RunOK
<1> QED BY <1>1, <1>3, <1>4, <1>8, RunStep

-----------------------------------------------------------------------------
(* The server. *)

LEMMA TakeStep ==
  ASSUME CellInv, NEW r \in Runs, Take(r)
  PROVE  CellInv'
<1>1. /\ UNCHANGED <<run, link, down, broken, evaluated, queueVars>> /\ RunOK(r) /\ TypeOK
      /\ \A e : Told(r, e)' <=> Told(r, e)
  BY DEF CellInv, Take, pageVars, Told
<1>2. Stream(r) \in Requests /\ Http(r) \in Requests
  BY RequestFacts
<1>3. CASE /\ r \in up /\ up' = up \ {r} /\ loading' = loading \union {Stream(r)}
           /\ http' = http
  <2>1. TypeOK'
    BY <1>1, <1>2, <1>3 DEF TypeOK, Take, pageVars, queueVars
  <2>2. \A x \in Runs : x # r => Same(x)
    BY <1>1, <1>3, RequestFacts DEF queueVars, Same
  <2>3. Http(r) \in loading' <=> Http(r) \in loading
    BY <1>3, RequestFacts
  <2>4. SocketOK(r)' /\ HttpOK(r)'
    BY <1>1, <1>3, <2>3 DEF RunOK, SocketOK, HttpOK, queueVars
  <2>5. TruthOK(r)'
    BY <1>1, <1>3 DEF RunOK, SocketOK, HttpOK, TruthOK, Over, queueVars
  <2>6. RunOK(r)'
    BY <2>4, <2>5 DEF RunOK
  <2> QED BY <1>1, <2>1, <2>2, <2>6, RunStep
<1>4. CASE /\ http[r] = "request" /\ http' = [http EXCEPT ![r] = "served"]
           /\ loading' = loading \union {Http(r)} /\ up' = up
  <2>1. TypeOK'
    BY <1>1, <1>2, <1>4 DEF TypeOK, Take, pageVars, queueVars
  <2>2. \A x \in Runs : x # r => Same(x)
    BY <1>1, <1>4, RequestFacts DEF TypeOK, queueVars, Same
  <2>3. (Stream(r) \in loading' <=> Stream(r) \in loading) /\ http'[r] = "served"
    BY <1>1, <1>4, RequestFacts DEF TypeOK
  <2>4. SocketOK(r)' /\ HttpOK(r)'
    BY <1>1, <1>4, <2>3 DEF RunOK, SocketOK, HttpOK, queueVars
  <2>5. TruthOK(r)'
    BY <1>1, <1>4, <2>3 DEF RunOK, TruthOK, Over, queueVars
  <2>6. RunOK(r)'
    BY <2>4, <2>5 DEF RunOK
  <2> QED BY <1>1, <2>1, <2>2, <2>6, RunStep
<1> QED BY <1>3, <1>4 DEF Take, Stream, Http

\* A step of the server with request q, whose client is told the events, or the end.
LEMMA ServerStep ==
  ASSUME CellInv, NEW q \in Requests, NEW events \in Seq(Events),
         NEW end \in {"served", "completed", "failed"},
         UNCHANGED <<pageVars, link, up, broken>>, Tell(q, events, end),
         QueueTypes, QueueOK', loading' = loading \ {q},
         evaluated' \subseteq Requests,
         \A x \in evaluated' : x \in evaluated \/ (x = q /\ outcome'[q] # "none"),
         q \in loading \/ outcome[q] = "pending",
         outcome[q] # "none" => outcome'[q] # "none",
         \A x \in Requests : x # q => outcome'[x] = outcome[x],
         end = "completed" => outcome'[q] = "completed",
         \A i \in DOMAIN events :
           /\ events[i] # "ready"
           /\ events[i] = "result" => outcome'[q] = "completed"
           /\ events[i] = "complete" => outcome'[q] \in Ended
           /\ events[i] \in {"error", "cancelled"} =>
                outcome'[q] \in {"none", "failed", "cancelled"}
  PROVE  CellInv'
<1>1. Settled /\ TypeOK
  BY DEF CellInv, pageVars, Settled
<1>2. PICK r \in Runs : r = q[1] /\ (q = Stream(r) \/ q = Http(r))
  BY RequestFacts
<1>3. RunOK(r) /\ \A x \in Runs : Stream(x) \in Requests /\ Http(x) \in Requests
  BY RequestFacts DEF CellInv
<1>4. \A x \in Runs : x # r => Stream(x) # q /\ Http(x) # q
  BY <1>2, RequestFacts
<1>5. /\ RunOK(r)' /\ \A x \in Runs : x # r => down'[x] = down[x] /\ http'[x] = http[x]
      /\ down' \in [Runs -> Seq(Events)]
      /\ http' \in [Runs -> {"none", "request", "served", "completed", "failed", "lost"}]
  <2>1. CASE q = Stream(r)
    <3>1. Tell(Stream(r), events, end)
      BY <2>1
    <3>2. /\ http' = http /\ down' \in [Runs -> Seq(Events)]
          /\ \A x \in Runs : x # r => down'[x] = down[x]
          /\ link[r] # "open" => down'[r] = down[r]
          /\ \A e : Told(r, e)' => Told(r, e) \/ \E i \in DOMAIN events : events[i] = e
      BY <1>1, <3>1, TellStream
    <3>3. /\ Http(r) \in loading' <=> Http(r) \in loading
          /\ outcome'[Http(r)] = outcome[Http(r)] /\ Stream(r) \notin loading'
      BY <1>3, <2>1, RequestFacts
    <3>4. RunOK(r)'
      BY <1>1, <1>3, <2>1, <3>2, <3>3, StreamMove
    <3> QED BY <1>1, <3>2, <3>4 DEF TypeOK
  <2>2. CASE q = Http(r)
    <3>1. Tell(Http(r), events, end)
      BY <2>2
    <3>2. /\ down' = down
          /\ http' \in [Runs -> {"none", "request", "served", "completed", "failed", "lost"}]
          /\ \A x \in Runs : x # r => http'[x] = http[x]
          /\ http'[r] = http[r] \/ (http[r] = "served" /\ http'[r] = end)
      BY <1>1, <3>1, TellHttp
    <3>3. /\ Stream(r) \in loading' <=> Stream(r) \in loading
          /\ outcome'[Stream(r)] = outcome[Stream(r)] /\ Http(r) \notin loading'
      BY <1>3, <2>2, RequestFacts
    <3>4. RunOK(r)'
      BY <1>1, <1>3, <2>2, <3>2, <3>3, HttpMove
    <3> QED BY <1>1, <3>2, <3>4 DEF TypeOK
  <2> QED BY <1>2, <2>1, <2>2
<1>6. TypeOK'
  BY <1>1, <1>5 DEF TypeOK, QueueTypes, pageVars
<1>7. \A x \in Runs : x # r => Same(x)
  BY <1>1, <1>3, <1>4, <1>5 DEF Settled, Same
<1>8. \A x \in Runs : RunOK(x)'
  BY <1>5, <1>7, SameRun DEF CellInv
<1>9. EvaluatedOK'
  BY DEF CellInv, EvaluatedOK, TypeOK
<1> QED BY <1>6, <1>8, <1>9 DEF CellInv

LEMMA LoadedStep ==
  ASSUME CellInv, NEW q \in Requests, Loaded(q)
  PROVE  CellInv'
<1>1. /\ q \in loading /\ loading' = loading \ {q} /\ evaluated' = evaluated
      /\ Queue!Submit(q) /\ Tell(q, <<"queued">>, "served")
      /\ UNCHANGED <<pageVars, link, up, broken>>
  BY DEF Loaded
<1>2. QueueTypes /\ QueueOK' /\ Outcome(q, "pending") /\ evaluated \subseteq Requests
  BY <1>1, SubmitFacts DEF CellInv, TypeOK
<1>3. PICK events \in Seq(Events) : events = <<"queued">>
  <2>1. <<"queued">> \in Seq(Events)
    BY DEF Events
  <2> QED BY <2>1
<1>4. Tell(q, events, "served") /\ \A i \in DOMAIN events : events[i] = "queued"
  BY <1>1, <1>3
<1> QED BY <1>1, <1>2, <1>4, ServerStep DEF Outcome

LEMMA LoadFailsStep ==
  ASSUME CellInv, NEW q \in Requests, LoadFails(q)
  PROVE  CellInv'
<1>1. /\ q \in loading /\ loading' = loading \ {q} /\ evaluated' = evaluated
      /\ Tell(q, <<"error">>, "failed") /\ outcome' = outcome
      /\ UNCHANGED <<pageVars, link, up, broken>> /\ UNCHANGED queueVars
  BY DEF LoadFails, queueVars
<1>2. QueueTypes /\ QueueOK' /\ evaluated \subseteq Requests
  BY <1>1, SameQueue DEF CellInv, TypeOK
<1>3. PICK events \in Seq(Events) : events = <<"error">>
  <2>1. <<"error">> \in Seq(Events)
    BY DEF Events
  <2> QED BY <2>1
<1>4. Tell(q, events, "failed") /\ \A i \in DOMAIN events : events[i] = "error"
  BY <1>1, <1>3
<1>5. outcome[q] = "none"
  <2>1. PICK r \in Runs : q = Stream(r) \/ q = Http(r)
    BY RequestFacts
  <2> QED BY <1>1, <2>1 DEF CellInv, RunOK, SocketOK, HttpOK
<1> QED BY <1>1, <1>2, <1>4, <1>5, ServerStep

\* A request that the queue has is no longer being loaded.
LEMMA PendingIsLoaded ==
  ASSUME CellInv, NEW q \in Requests, outcome[q] = "pending"
  PROVE  loading = loading \ {q}
<1>1. PICK r \in Runs : q = Stream(r) \/ q = Http(r)
  BY RequestFacts
<1>2. q \notin loading
  BY <1>1 DEF CellInv, RunOK, SocketOK, HttpOK
<1> QED BY <1>2

LEMMA CancelStep ==
  ASSUME CellInv, NEW q \in Requests, Cancel(q)
  PROVE  CellInv'
<1>1. /\ UNCHANGED <<pageVars, link, up, broken>>
      /\ loading' = loading /\ evaluated' = evaluated
  BY DEF Cancel
<1>2. CASE Queue!Withdraw(q) /\ Tell(q, <<"cancelled", "complete">>, "failed")
  <2>1. /\ QueueTypes /\ QueueOK' /\ Outcome(q, "cancelled") /\ outcome[q] = "pending"
        /\ evaluated \subseteq Requests
    BY <1>2, WithdrawFacts DEF CellInv, TypeOK
  <2>2. loading' = loading \ {q}
    BY <1>1, <2>1, PendingIsLoaded
  <2>3. PICK events \in Seq(Events) : events = <<"cancelled", "complete">>
    <3>1. <<"cancelled", "complete">> \in Seq(Events)
      BY DEF Events
    <3> QED BY <3>1
  <2>4. /\ Tell(q, events, "failed")
        /\ \A i \in DOMAIN events : events[i] \in {"cancelled", "complete"}
    BY <1>2, <2>3
  <2>5. "cancelled" \in Ended
    BY DEF Ended
  <2> QED BY <1>1, <2>1, <2>2, <2>4, <2>5, ServerStep DEF Outcome
<1>3. CASE Queue!AskToStop(q) /\ UNCHANGED <<down, http>>
  <2>1. /\ line' = line /\ current' = current /\ outcome' = outcome
        /\ asked' = asked \union {q}
    BY <1>3 DEF Queue!AskToStop
  <2>2. QueueOK' /\ EvaluatedOK'
    BY <1>1, <2>1 DEF CellInv, QueueOK, EvaluatedOK
  <2>3. TypeOK'
    BY <1>1, <1>3, <2>1 DEF CellInv, TypeOK, pageVars
  <2>4. \A x \in Runs : Same(x)
    BY <1>1, <1>3, <2>1 DEF pageVars, Same
  <2> QED BY <2>2, <2>3, <2>4, SameRun DEF CellInv
<1> QED BY <1>2, <1>3 DEF Cancel

LEMMA ServeStep ==
  ASSUME CellInv, Serve
  PROVE  CellInv'
<1>1. /\ UNCHANGED <<pageVars, link, up, broken>> /\ loading' = loading
      /\ Queue!Serve /\ evaluated' = evaluated \union {Head(line)}
      /\ Tell(Head(line), <<"started">>, "served")
  BY DEF Serve
<1>2. PICK q : q = Head(line)
  OBVIOUS
<1>3. /\ QueueTypes /\ QueueOK' /\ outcome' = outcome /\ q \in Requests
      /\ outcome[q] = "pending" /\ evaluated \subseteq Requests
  BY <1>1, <1>2, ServeFacts DEF CellInv, TypeOK
<1>4. loading' = loading \ {q}
  BY <1>1, <1>3, PendingIsLoaded
<1>5. PICK events \in Seq(Events) : events = <<"started">>
  <2>1. <<"started">> \in Seq(Events)
    BY DEF Events
  <2> QED BY <2>1
<1>6. Tell(q, events, "served") /\ \A i \in DOMAIN events : events[i] = "started"
  BY <1>1, <1>2, <1>5
<1> QED BY <1>1, <1>2, <1>3, <1>4, <1>6, ServerStep

LEMMA FinishStep ==
  ASSUME CellInv, Finish
  PROVE  CellInv'
<1>1. PICK o \in Ended :
        /\ Queue!End(o)
        /\ Tell(current, <<Ending(o), "complete">>,
                IF o = "completed" THEN "completed" ELSE "failed")
  BY DEF Finish
<1>2. /\ UNCHANGED <<pageVars, link, up, broken>>
      /\ loading' = loading /\ evaluated' = evaluated
  BY DEF Finish
<1>3. PICK q : q = current
  OBVIOUS
<1>4. /\ QueueTypes /\ QueueOK' /\ Outcome(q, o) /\ q \in Requests
      /\ outcome[q] = "pending" /\ evaluated \subseteq Requests
  BY <1>1, <1>3, EndFacts DEF CellInv, TypeOK
<1>5. loading' = loading \ {q}
  BY <1>2, <1>4, PendingIsLoaded
<1>6. /\ Ending(o) \in {"result", "error", "cancelled"}
      /\ Ending(o) = "result" => o = "completed"
      /\ Ending(o) # "result" => o \in {"failed", "cancelled"}
  BY DEF Ending, Ended
<1>7. PICK events \in Seq(Events) : events = <<Ending(o), "complete">>
  <2>1. <<Ending(o), "complete">> \in Seq(Events)
    BY <1>6 DEF Events
  <2> QED BY <2>1
<1>8. PICK end \in {"served", "completed", "failed"} :
        end = IF o = "completed" THEN "completed" ELSE "failed"
  OBVIOUS
<1>9. /\ Tell(q, events, end)
      /\ \A i \in DOMAIN events : events[i] \in {Ending(o), "complete"}
  BY <1>1, <1>3, <1>7, <1>8
<1>10. \A i \in DOMAIN events :
         /\ events[i] # "ready"
         /\ events[i] = "result" => outcome'[q] = "completed"
         /\ events[i] = "complete" => outcome'[q] \in Ended
         /\ events[i] \in {"error", "cancelled"} =>
              outcome'[q] \in {"none", "failed", "cancelled"}
  BY <1>4, <1>6, <1>9 DEF Outcome
<1>11. outcome'[q] # "none" /\ (end = "completed" => outcome'[q] = "completed")
  BY <1>4, <1>8 DEF Outcome, Ended
<1>12. /\ \A x \in evaluated' : x \in evaluated
       /\ \A x \in Requests : x # q => outcome'[x] = outcome[x]
  BY <1>2, <1>4 DEF Outcome
<1> QED BY <1>2, <1>4, <1>5, <1>9, <1>10, <1>11, <1>12, ServerStep

-----------------------------------------------------------------------------
(* The invariant. *)

LEMMA CellInit ==
  ASSUME Init
  PROVE  CellInv
<1>1. TypeOK
  BY RunsAssumption DEF Init, TypeOK, NoRun, Runs
<1>2. QueueOK /\ EvaluatedOK
  BY DEF Init, QueueOK, EvaluatedOK
<1>3. ASSUME NEW r \in Runs
      PROVE  RunOK(r)
  <2>1. /\ run[r].step = "none" /\ link[r] = "none" /\ down[r] = <<>> /\ http[r] = "none"
        /\ r \notin up /\ loading = {} /\ outcome[Stream(r)] = "none"
        /\ outcome[Http(r)] = "none"
    BY RequestFacts DEF Init, NoRun
  <2>2. \A e : ~Told(r, e)
    BY <2>1 DEF Told
  <2> QED BY <2>1, <2>2 DEF RunOK, SocketOK, HttpOK, TruthOK
<1> QED BY <1>1, <1>2, <1>3 DEF CellInv

LEMMA CellNext ==
  ASSUME CellInv, [Next]_vars
  PROVE  CellInv'
<1>1. CASE UNCHANGED vars
  <2>1. UNCHANGED <<run, wireVars, serverVars>> /\ UNCHANGED pageVars
    BY <1>1 DEF vars, pageVars
  <2>2. TypeOK'
    BY <2>1 DEF CellInv, TypeOK, pageVars, wireVars, serverVars, queueVars
  <2> QED BY <2>1, <2>2, PageStep
<1>2. ASSUME NEW r \in Runs, Page(r)
      PROVE  CellInv'
  BY <1>2, ReadyStep, ShowStep, LastStep, NoticedStep, AnsweredStep DEF Page, Deliver
<1>3. ASSUME NEW r \in Runs,
             \/ \E c \in Cells : RunCell(r, c)
             \/ Accept(r) \/ Take(r) \/ Lose(r)
             \/ \E n \in 0..Len(down[r]), arrives \in BOOLEAN : Break(r, n, arrives)
      PROVE  CellInv'
  BY <1>3, RunCellStep, AcceptStep, TakeStep, LoseStep, BreakStep
<1>4. ASSUME NEW c \in Cells, DeleteCell(c)
      PROVE  CellInv'
  BY <1>4, DeleteCellStep
<1>5. ASSUME NEW D \in SUBSET Cells, NEW S \in {D, {}}, NewDocument(D, S)
      PROVE  CellInv'
  BY <1>5, NewDocumentStep
<1>6. ASSUME NEW q \in Requests, Load(q) \/ Cancel(q)
      PROVE  CellInv'
  BY <1>6, LoadedStep, LoadFailsStep, CancelStep DEF Load
<1>7. CASE Serve \/ Finish
  BY <1>7, ServeStep, FinishStep
<1> QED BY <1>1, <1>2, <1>3, <1>4, <1>5, <1>6, <1>7 DEF Next

LEMMA CellInvImplies ==
  ASSUME CellInv
  PROVE  RunsAreTrue
<1> SUFFICES ASSUME NEW r \in Runs
             PROVE  /\ Cardinality(evaluated \intersect {Stream(r), Http(r)}) <= 1
                    /\ outcome[Http(r)] # "none" => r \notin up /\ outcome[Stream(r)] = "none"
                    /\ run[r].step = "completed" =>
                         "completed" \in {outcome[Stream(r)], outcome[Http(r)]}
                    /\ run[r].step = "failed" /\ r \notin broken =>
                         "completed" \notin {outcome[Stream(r)], outcome[Http(r)]}
  BY DEF RunsAreTrue, Stream, Http
<1>1. RunOK(r)
  BY DEF CellInv
<1>2. outcome[Stream(r)] = "none" \/ outcome[Http(r)] = "none"
  BY <1>1 DEF RunOK, HttpOK
<1>3. Cardinality(evaluated \intersect {Stream(r), Http(r)}) <= 1
  <2>1. Stream(r) \notin evaluated \/ Http(r) \notin evaluated
    BY <1>2 DEF CellInv, EvaluatedOK
  <2>2. PICK S : S = evaluated \intersect {Stream(r), Http(r)}
    OBVIOUS
  <2>3. S = {} \/ S = {Stream(r)} \/ S = {Http(r)}
    BY <2>1, <2>2
  <2>4. Cardinality(S) = 0 \/ Cardinality(S) = 1
    BY <2>3, FS_EmptySet, FS_Singleton
  <2> QED BY <2>2, <2>4
<1>4. outcome[Http(r)] # "none" => r \notin up /\ outcome[Stream(r)] = "none"
  BY <1>1 DEF RunOK, HttpOK
<1>5. run[r].step = "completed" => "completed" \in {outcome[Stream(r)], outcome[Http(r)]}
  BY <1>1 DEF RunOK, TruthOK
<1>6. run[r].step = "failed" /\ r \notin broken =>
        "completed" \notin {outcome[Stream(r)], outcome[Http(r)]}
  BY <1>1 DEF RunOK, TruthOK, HttpOK, Over
<1> QED BY <1>3, <1>4, <1>5, <1>6

\* Whatever breaks, is cancelled or is run again: the code of a run is evaluated once
\* at most (the HTTP request is made only if the socket had not sent the cell), and
\* the page reports a run as completed when its task was, and as failed, unless it
\* lost a connection, only when its task was not.
THEOREM RunsAreAlwaysTrue == Spec => []RunsAreTrue
<1>1. Init => CellInv
  BY CellInit
<1>2. CellInv /\ [Next]_vars => CellInv'
  BY CellNext
<1>3. CellInv => RunsAreTrue
  BY CellInvImplies
<1> QED BY <1>1, <1>2, <1>3, PTL DEF Spec

\* Every variable of the page, the connections and the server keeps its type.
THEOREM CellTypeCorrect == Spec => []TypeOK
<1>1. CellInv => TypeOK
  BY DEF CellInv
<1> QED BY <1>1, CellInit, CellNext, PTL DEF Spec

-----------------------------------------------------------------------------
(* What the page shows is about its runs. *)

\* The calls of runCell come one after the other, each for a cell.
RunsInOrder ==
  \A r \in Runs :
    /\ run[r].step = "none" => run[r] = NoRun
    /\ run[r].step # "none" =>
         run[r].cell \in Cells /\ \A q \in Runs : q < r => run[q].step # "none"

\* Nothing is shown as running that does not run.
FlagsOK ==
  \A c \in Cells : c \in running \/ shown[c] \in {"queued", "running"} => Active(c)
KernelOK == kernel = "running" => \E r \in Runs : Unsettled(r)

\* Of an undisturbed cell at most the last run is unfinished.
LastRuns ==
  \A c \in Cells \ disturbed :
    \A r \in RunsOf(c) : Unsettled(r) => \A q \in RunsOf(c) : q <= r

ResultsOK ==
  \A c \in Cells \ disturbed :
    /\ Active(c) => c \in running /\ results[c] = 0
    /\ results[c] # 0 => /\ run[results[c]].step = "completed"
                         /\ \A r \in RunsOf(c) : r <= results[c]

ShowInv == RunsInOrder /\ FlagsOK /\ KernelOK /\ LastRuns /\ ResultsOK

\* An unfinished run is one of a cell.
LEMMA UnsettledFacts ==
  ASSUME ShowInv, NEW r \in Runs, Unsettled(r)
  PROVE  run[r].cell \in Cells /\ r \in RunsOf(run[r].cell) /\ Active(run[r].cell)
BY DEF ShowInv, RunsInOrder, Unsettled, RunsOf, Active

\* A step that starts and ends no run, and changes nothing shown but the status of
\* an unfinished run's task.
LEMMA ShowFrame ==
  ASSUME TypeOK, ShowInv, UNCHANGED <<running, results, kernel, disturbed>>,
         \A r \in Runs : run'[r].cell = run[r].cell /\ (Unsettled(r)' <=> Unsettled(r)),
         \A r \in Runs : /\ run'[r].step = "none" => run'[r] = NoRun
                         /\ run[r].step = "none" <=> run'[r].step = "none"
                         /\ run[r].step = "completed" => run'[r].step = "completed",
         \A c \in Cells : shown'[c] \in {"queued", "running"} =>
           shown[c] \in {"queued", "running"} \/ Active(c)
  PROVE  ShowInv'
<1>1. \A c : RunsOf(c)' = RunsOf(c)
  BY DEF RunsOf
<1>2. \A c : Active(c)' <=> Active(c)
  BY <1>1 DEF Active, RunsOf
<1>3. RunsInOrder'
  BY DEF ShowInv, RunsInOrder
<1>4. FlagsOK' /\ KernelOK'
  BY <1>2 DEF ShowInv, FlagsOK, KernelOK
<1>5. LastRuns'
  BY <1>1 DEF ShowInv, LastRuns, RunsOf
<1>6. ResultsOK'
  <2> SUFFICES ASSUME NEW c \in Cells \ disturbed
               PROVE  /\ Active(c)' => c \in running /\ results[c] = 0
                      /\ results[c] # 0 => /\ run'[results[c]].step = "completed"
                                           /\ \A r \in RunsOf(c)' : r <= results[c]
    BY DEF ResultsOK
  <2>1. results[c] # 0 => results[c] \in Runs
    BY RunsAssumption DEF TypeOK, Runs
  <2> QED BY <1>1, <1>2, <2>1 DEF ShowInv, ResultsOK
<1> QED BY <1>3, <1>4, <1>5, <1>6 DEF ShowInv

\* The end of a run.
LEMMA SettleShow ==
  ASSUME TypeOK, ShowInv, NEW r \in Runs, Unsettled(r), NEW how \in Ended,
         Settle(r, how), UNCHANGED disturbed
  PROVE  ShowInv'
<1>0. PICK c \in Cells : c = run[r].cell
  BY UnsettledFacts
<1>1. c \in Cells /\ r \in RunsOf(c)
  BY <1>0, UnsettledFacts
<1>2. /\ run' = [run EXCEPT ![r].step = IF how = "completed" THEN "completed" ELSE "failed"]
      /\ running' = running \ {c}
      /\ results' = [results EXCEPT ![c] = IF how = "completed" THEN r ELSE 0]
      /\ kernel' = "running" => running' # {}
  BY <1>0 DEF Settle, KernelOf
<1>3. /\ \A x \in Runs : run'[x].cell = run[x].cell
      /\ \A x \in Runs : x # r => run'[x] = run[x]
      /\ run'[r].step = (IF how = "completed" THEN "completed" ELSE "failed")
  BY <1>2 DEF TypeOK
<1>4. \A d : RunsOf(d)' = RunsOf(d)
  BY <1>3 DEF RunsOf
<1>5. ~Unsettled(r)' /\ \A x \in Runs : x # r => (Unsettled(x)' <=> Unsettled(x))
  BY <1>3 DEF Unsettled
<1>6. \A d \in Cells : d # c => (Active(d)' <=> Active(d))
  <2>1. \A d \in Cells : \A x \in RunsOf(d) : d # c => x \in Runs /\ x # r
    BY <1>0 DEF RunsOf
  <2> QED BY <1>4, <1>5, <2>1 DEF Active
<1>7. /\ shown'[c] \notin {"queued", "running"}
      /\ \A d \in Cells : d # c => shown'[d] = shown[d] /\ results'[d] = results[d]
      /\ results'[c] = IF how = "completed" THEN r ELSE 0
  <2>1. shown' = [shown EXCEPT ![c] = IF how = "cancelled" THEN how
                                      ELSE Finalized(shown[c], how)]
    BY <1>0 DEF Settle
  <2>2. /\ shown'[c] = IF how = "cancelled" THEN how ELSE Finalized(shown[c], how)
        /\ \A d \in Cells : d # c => shown'[d] = shown[d]
    BY <1>1, <2>1 DEF TypeOK
  <2>3. shown'[c] \notin {"queued", "running"}
    BY <2>2 DEF Finalized, Ended
  <2>4. /\ results'[c] = IF how = "completed" THEN r ELSE 0
        /\ \A d \in Cells : d # c => results'[d] = results[d]
    BY <1>1, <1>2 DEF TypeOK
  <2> QED BY <2>2, <2>3, <2>4
<1>8. RunsInOrder'
  <2>1. run[r].step # "none" /\ run'[r].step # "none"
    BY <1>3 DEF Unsettled
  <2> QED BY <1>3, <2>1 DEF ShowInv, RunsInOrder
<1>9. FlagsOK'
  BY <1>2, <1>6, <1>7 DEF ShowInv, FlagsOK
<1>10. KernelOK'
  <2> SUFFICES ASSUME kernel' = "running" PROVE \E x \in Runs : Unsettled(x)'
    BY DEF KernelOK
  <2>1. PICK d \in running' : TRUE
    BY <1>2
  <2>2. d \in Cells
    BY <1>2, <2>1 DEF TypeOK
  <2> QED BY <1>9, <2>1, <2>2 DEF FlagsOK, Active, RunsOf
<1>11. LastRuns'
  <2> SUFFICES ASSUME NEW d \in Cells \ disturbed, NEW x \in RunsOf(d), Unsettled(x)',
                      NEW q \in RunsOf(d)
               PROVE  q <= x
    BY <1>4 DEF LastRuns
  <2>1. x \in Runs /\ Unsettled(x)
    BY <1>5 DEF RunsOf
  <2> QED BY <2>1 DEF ShowInv, LastRuns
<1>12. ASSUME c \notin disturbed
       PROVE  ~Active(c)' /\ \A q \in RunsOf(c) : q <= r
  <2>1. \A q \in RunsOf(c) : q <= r
    BY <1>1, <1>12 DEF ShowInv, LastRuns
  <2>2. ASSUME NEW x \in RunsOf(c), Unsettled(x)'
        PROVE  FALSE
    <3>1. x \in Runs /\ x # r /\ Unsettled(x)
      BY <1>5, <2>2 DEF RunsOf
    <3>2. r <= x /\ x <= r
      BY <1>1, <1>12, <2>1, <2>2, <3>1 DEF ShowInv, LastRuns
    <3>3. x \in Nat /\ r \in Nat
      BY <3>1 DEF Runs
    <3> QED BY <3>1, <3>2, <3>3
  <2> QED BY <1>4, <2>1, <2>2 DEF Active
<1>13. ResultsOK'
  <2> SUFFICES ASSUME NEW d \in Cells \ disturbed
               PROVE  /\ Active(d)' => d \in running' /\ results'[d] = 0
                      /\ results'[d] # 0 => /\ run'[results'[d]].step = "completed"
                                            /\ \A x \in RunsOf(d) : x <= results'[d]
    BY <1>4 DEF ResultsOK
  <2>1. CASE d = c
    BY <1>3, <1>7, <1>12, <2>1
  <2>2. CASE d # c
    <3>1. Active(d)' => d \in running' /\ results'[d] = 0
      BY <1>2, <1>6, <1>7, <2>2 DEF ShowInv, ResultsOK
    <3>2. ASSUME results[d] # 0
          PROVE  run'[results[d]].step = "completed"
      <4>1. results[d] \in Runs /\ run[results[d]].step = "completed"
        BY <3>2, RunsAssumption DEF ShowInv, ResultsOK, TypeOK, Runs
      <4>2. results[d] # r
        BY <4>1 DEF Unsettled
      <4> QED BY <1>3, <4>1, <4>2
    <3> QED BY <1>7, <2>2, <3>1, <3>2 DEF ShowInv, ResultsOK
  <2> QED BY <2>1, <2>2
<1> QED BY <1>8, <1>9, <1>10, <1>11, <1>13 DEF ShowInv

\* A run starts.
LEMMA RunCellShow ==
  ASSUME TypeOK, ShowInv, NEW r \in Runs, NEW c \in Cells, RunCell(r, c)
  PROVE  ShowInv'
<1>1. /\ run[r] = NoRun /\ \A q \in 1..(r - 1) : run[q] # NoRun
      /\ run' = [run EXCEPT ![r] = [cell |-> c, step |-> "connecting"]]
      /\ running' = running \union {c} /\ kernel' = "running"
      /\ shown' = [shown EXCEPT ![c] = "none"] /\ results' = [results EXCEPT ![c] = 0]
      /\ disturbed' = IF Active(c) THEN disturbed \union {c} ELSE disturbed
  BY DEF RunCell
<1>2. /\ run[r].step = "none" /\ run[r].cell = "none"
      /\ run'[r].step = "connecting" /\ run'[r].cell = c
      /\ \A x \in Runs : x # r => run'[x] = run[x]
  BY <1>1 DEF TypeOK, NoRun
<1>3. \A x \in Runs : run[x].step # "none" => x < r
  <2> SUFFICES ASSUME NEW x \in Runs, run[x].step # "none" PROVE x < r
    OBVIOUS
  <2>1. x # r /\ ~(r < x)
    BY <1>2 DEF ShowInv, RunsInOrder
  <2>2. x \in Nat /\ r \in Nat
    BY DEF Runs
  <2> QED BY <2>1, <2>2
<1>4. \A d \in Cells : \A x \in RunsOf(d) : x < r /\ x \in Runs /\ x # r
  <2> SUFFICES ASSUME NEW d \in Cells, NEW x \in RunsOf(d)
               PROVE  x < r /\ x \in Runs /\ x # r
    OBVIOUS
  <2>1. x \in Runs /\ run[x].cell # "none"
    BY CellsAssumption DEF RunsOf
  <2>2. run[x].step # "none"
    BY <2>1 DEF ShowInv, RunsInOrder, NoRun
  <2> QED BY <1>2, <1>3, <2>1, <2>2
<1>5. /\ RunsOf(c)' = RunsOf(c) \union {r}
      /\ \A d \in Cells : d # c => RunsOf(d)' = RunsOf(d)
  <2>1. \A d \in Cells : r \notin RunsOf(d)
    BY <1>2, CellsAssumption DEF RunsOf
  <2> QED BY <1>2, <2>1 DEF RunsOf
<1>6. Unsettled(r)' /\ \A x \in Runs : x # r => (Unsettled(x)' <=> Unsettled(x))
  BY <1>2 DEF Unsettled
<1>7. Active(c)' /\ \A d \in Cells : d # c => (Active(d)' <=> Active(d))
  BY <1>4, <1>5, <1>6 DEF Active
<1>8. RunsInOrder'
  <2>1. \A q \in Runs : q < r => run[q].step # "none"
    <3> SUFFICES ASSUME NEW q \in Runs, q < r PROVE run[q].step # "none"
      OBVIOUS
    <3>1. q \in 1..(r - 1)
      BY DEF Runs
    <3> QED BY <1>1, <3>1 DEF ShowInv, RunsInOrder
  <2>2. ASSUME NEW x \in Runs
        PROVE  /\ run'[x].step = "none" => run'[x] = NoRun
               /\ run'[x].step # "none" =>
                    /\ run'[x].cell \in Cells
                    /\ \A q \in Runs : q < x => run'[q].step # "none"
    <3>1. CASE x = r
      BY <1>2, <2>1, <3>1
    <3>2. CASE x # r
      BY <1>2, <3>2 DEF ShowInv, RunsInOrder
    <3> QED BY <3>1, <3>2
  <2> QED BY <2>2 DEF RunsInOrder
<1>9. /\ shown'[c] = "none" /\ results'[c] = 0
      /\ \A d \in Cells : d # c => shown'[d] = shown[d] /\ results'[d] = results[d]
  BY <1>1 DEF TypeOK
<1>10. FlagsOK'
  BY <1>1, <1>7, <1>9 DEF ShowInv, FlagsOK
<1>11. KernelOK'
  BY <1>6 DEF KernelOK
<1>12. ASSUME NEW d \in Cells \ disturbed'
       PROVE  /\ \A x \in RunsOf(d)' : Unsettled(x)' => \A q \in RunsOf(d)' : q <= x
              /\ Active(d)' => d \in running' /\ results'[d] = 0
              /\ results'[d] # 0 => /\ run'[results'[d]].step = "completed"
                                    /\ \A x \in RunsOf(d)' : x <= results'[d]
  <2>1. d \in Cells \ disturbed
    BY <1>1
  <2>2. CASE d = c
    <3>1. ~Active(c)
      BY <1>1, <1>12, <2>2
    <3>2. \A x \in RunsOf(c) : ~Unsettled(x)' /\ x <= r
      <4> SUFFICES ASSUME NEW x \in RunsOf(c) PROVE ~Unsettled(x)' /\ x <= r
        OBVIOUS
      <4>1. x < r /\ x \in Runs /\ x # r /\ ~Unsettled(x)
        BY <1>4, <3>1 DEF Active
      <4>2. x \in Nat /\ r \in Nat
        BY <4>1 DEF Runs
      <4> QED BY <1>6, <4>1, <4>2
    <3>3. r <= r
      BY DEF Runs
    <3> QED BY <1>1, <1>5, <1>9, <2>2, <3>2, <3>3
  <2>3. CASE d # c
    <3>1. \A x \in RunsOf(d) : Unsettled(x)' => \A q \in RunsOf(d) : q <= x
      BY <1>4, <1>6, <2>1 DEF ShowInv, LastRuns
    <3>2. Active(d)' => d \in running' /\ results'[d] = 0
      BY <1>1, <1>7, <1>9, <2>1, <2>3 DEF ShowInv, ResultsOK
    <3>3. ASSUME results'[d] # 0
          PROVE  run'[results'[d]].step = "completed"
      <4>1. results'[d] = results[d] /\ run[results[d]].step = "completed"
            /\ results[d] \in Runs
        BY <1>9, <2>1, <2>3, <3>3, RunsAssumption DEF ShowInv, ResultsOK, TypeOK, Runs
      <4> QED BY <1>2, <4>1
    <3> QED BY <1>5, <1>9, <2>1, <2>3, <3>1, <3>2, <3>3 DEF ShowInv, ResultsOK
  <2> QED BY <2>2, <2>3
<1>13. LastRuns' /\ ResultsOK'
  BY <1>12 DEF LastRuns, ResultsOK
<1> QED BY <1>8, <1>10, <1>11, <1>13 DEF ShowInv

\* Cells are removed, and results with them: what is disturbed is marked.
LEMMA RemoveShow ==
  ASSUME TypeOK, ShowInv, NEW gone, UNCHANGED run,
         running' = running \ gone,
         \A c \in Cells : shown'[c] = IF c \in gone THEN "none" ELSE shown[c],
         \A c \in Cells : results'[c] = 0 \/ (c \notin gone /\ results'[c] = results[c]),
         kernel' = "running" => running' # {} \/ kernel = "running",
         disturbed \subseteq disturbed',
         \A c \in Cells \cap gone : Active(c) => c \in disturbed'
  PROVE  ShowInv'
<1>1. /\ \A c : RunsOf(c)' = RunsOf(c)
      /\ \A r : Unsettled(r)' <=> Unsettled(r)
  BY DEF RunsOf, Unsettled
<1>2. \A c : Active(c)' <=> Active(c)
  BY <1>1 DEF Active
<1>3. RunsInOrder'
  BY DEF ShowInv, RunsInOrder
<1>4. FlagsOK'
  BY <1>2 DEF ShowInv, FlagsOK
<1>5. KernelOK'
  <2>1. CASE kernel = "running"
    BY <1>1, <2>1 DEF ShowInv, KernelOK
  <2>2. ASSUME NEW d \in running'
        PROVE  \E r \in Runs : Unsettled(r)'
    <3>1. d \in Cells /\ d \in running
      BY <2>2 DEF TypeOK
    <3> QED BY <1>1, <3>1 DEF ShowInv, FlagsOK, Active, RunsOf
  <2> QED BY <2>1, <2>2 DEF KernelOK
<1>6. LastRuns'
  BY <1>1 DEF ShowInv, LastRuns
<1>7. ResultsOK'
  BY <1>1, <1>2 DEF ShowInv, ResultsOK
<1> QED BY <1>3, <1>4, <1>5, <1>6, <1>7 DEF ShowInv

\* An event that only shows the task: the status of an unfinished run.
LEMMA DeliverShow ==
  ASSUME CellInv, ShowInv, NEW r \in Runs, Deliver(r)
  PROVE  ShowInv'
<1>0. TypeOK /\ Unsettled(r)
  BY DEF CellInv, Deliver
<1>1. CASE Ready(r)
  <2>1. /\ run' = [run EXCEPT ![r].step = "sent"]
        /\ UNCHANGED <<running, shown, results, kernel, disturbed>>
    BY <1>1 DEF Ready
  <2>2. /\ \A x \in Runs : run'[x].cell = run[x].cell
        /\ \A x \in Runs : x # r => run'[x] = run[x]
        /\ run'[r].step = "sent"
    BY <1>0, <2>1 DEF TypeOK
  <2>3. \A x \in Runs : Unsettled(x)' <=> Unsettled(x)
    BY <1>0, <2>2 DEF Unsettled
  <2>4. \A x \in Runs : /\ run'[x].step = "none" => run'[x] = NoRun
                        /\ run[x].step = "none" <=> run'[x].step = "none"
                        /\ run[x].step = "completed" => run'[x].step = "completed"
    BY <1>0, <2>2 DEF Unsettled, ShowInv, RunsInOrder
  <2> QED BY <1>0, <2>1, <2>2, <2>3, <2>4, ShowFrame
<1>2. CASE Show(r)
  <2>1. /\ shown' = [shown EXCEPT ![run[r].cell] = StatusIn(Head(down[r]), r)]
        /\ UNCHANGED <<run, running, results, kernel, disturbed>>
    BY <1>2 DEF Show
  <2>2. Active(run[r].cell)
    BY <1>0, UnsettledFacts
  <2>3. \A c \in Cells : shown'[c] \in {"queued", "running"} =>
          shown[c] \in {"queued", "running"} \/ Active(c)
    BY <1>0, <2>1, <2>2 DEF TypeOK
  <2>4. \A x \in Runs : Unsettled(x)' <=> Unsettled(x)
    BY <2>1 DEF Unsettled
  <2> QED BY <1>0, <2>1, <2>3, <2>4, ShowFrame DEF ShowInv, RunsInOrder
<1>3. CASE Last(r)
  <2>1. PICK how \in Ended : Settle(r, how)
    BY <1>3 DEF Last, How, Ended
  <2> QED BY <1>0, <1>3, <2>1, SettleShow DEF Last
<1> QED BY <1>1, <1>2, <1>3 DEF Deliver

\* A connection breaks, or an answer comes.
LEMMA EndShow ==
  ASSUME CellInv, ShowInv, NEW r \in Runs, Noticed(r) \/ Answered(r)
  PROVE  ShowInv'
<1>0. TypeOK
  BY DEF CellInv
<1>1. CASE Noticed(r) /\ FallsBack(r)
  <2>1. /\ run' = [run EXCEPT ![r].step = "posted"] /\ run[r].step = "connecting"
        /\ UNCHANGED <<running, shown, results, kernel, disturbed>>
    BY <1>1 DEF Noticed, FallsBack
  <2>2. /\ \A x \in Runs : run'[x].cell = run[x].cell
        /\ \A x \in Runs : x # r => run'[x] = run[x]
        /\ run'[r].step = "posted"
    BY <1>0, <2>1 DEF TypeOK
  <2>3. \A x \in Runs : Unsettled(x)' <=> Unsettled(x)
    BY <2>1, <2>2 DEF Unsettled
  <2>4. \A x \in Runs : /\ run'[x].step = "none" => run'[x] = NoRun
                        /\ run[x].step = "none" <=> run'[x].step = "none"
                        /\ run[x].step = "completed" => run'[x].step = "completed"
    BY <2>1, <2>2 DEF ShowInv, RunsInOrder
  <2> QED BY <1>0, <2>1, <2>2, <2>3, <2>4, ShowFrame
<1>2. CASE Noticed(r) /\ ~FallsBack(r)
  <2>1. Settle(r, "failed") /\ UNCHANGED disturbed /\ link[r] = "broken"
    BY <1>2 DEF Noticed
  <2>2. Unsettled(r)
    BY <2>1 DEF CellInv, RunOK, SocketOK, Unsettled
  <2> QED BY <1>0, <2>1, <2>2, SettleShow DEF Ended
<1>3. CASE Answered(r)
  <2>1. PICK how \in Ended : Settle(r, how)
    BY <1>3 DEF Answered, Ended
  <2>2. Unsettled(r) /\ UNCHANGED disturbed
    BY <1>3 DEF Answered, Unsettled
  <2> QED BY <1>0, <2>1, <2>2, SettleShow
<1> QED BY <1>1, <1>2, <1>3

LEMMA ShowNext ==
  ASSUME CellInv, ShowInv, [Next]_vars
  PROVE  ShowInv'
<1>0. TypeOK
  BY DEF CellInv
<1>1. ASSUME UNCHANGED pageVars
      PROVE  ShowInv'
  <2>1. \A r \in Runs : Unsettled(r)' <=> Unsettled(r)
    BY <1>1 DEF pageVars, Unsettled
  <2> QED BY <1>0, <1>1, <2>1, ShowFrame DEF pageVars, ShowInv, RunsInOrder
<1>2. ASSUME NEW r \in Runs, Page(r)
      PROVE  ShowInv'
  BY <1>2, DeliverShow, EndShow DEF Page
<1>3. ASSUME NEW r \in Runs, NEW c \in Cells, RunCell(r, c)
      PROVE  ShowInv'
  BY <1>0, <1>3, RunCellShow
<1>4. ASSUME NEW r \in Runs,
             \/ Accept(r) \/ Take(r) \/ Lose(r)
             \/ \E n \in 0..Len(down[r]), arrives \in BOOLEAN : Break(r, n, arrives)
      PROVE  ShowInv'
  BY <1>1, <1>4 DEF Accept, Take, Lose, Break
<1>5. ASSUME NEW c \in Cells, DeleteCell(c)
      PROVE  ShowInv'
  <2>1. PICK gone : gone = {c}
    OBVIOUS
  <2>2. /\ UNCHANGED run /\ running' = running \ gone /\ kernel' = kernel
        /\ disturbed' = IF Active(c) THEN disturbed \union {c} ELSE disturbed
    BY <1>5, <2>1 DEF DeleteCell
  <2>3. /\ \A d \in Cells : shown'[d] = IF d \in gone THEN "none" ELSE shown[d]
        /\ \A d \in Cells :
             results'[d] = 0 \/ (d \notin gone /\ results'[d] = results[d])
    BY <1>0, <1>5, <2>1 DEF DeleteCell, TypeOK
  <2>4. \A d \in Cells \cap gone : Active(d) => d \in disturbed'
    BY <2>1, <2>2
  <2> QED BY <1>0, <2>2, <2>3, <2>4, RemoveShow
<1>6. ASSUME NEW D \in SUBSET Cells, NEW S \in {D, {}}, NewDocument(D, S)
      PROVE  ShowInv'
  <2>1. PICK gone : gone = cells \ D
    OBVIOUS
  <2>2. /\ UNCHANGED run /\ running' = running \ gone
        /\ kernel' = KernelOf(running', "idle")
        /\ disturbed' = disturbed \union {c \in gone : Active(c)}
    BY <1>6, <2>1 DEF NewDocument
  <2>3. /\ \A d \in Cells : shown'[d] = IF d \in gone THEN "none" ELSE shown[d]
        /\ \A d \in Cells :
             results'[d] = 0 \/ (d \notin gone /\ results'[d] = results[d])
    BY <1>6, <2>1 DEF NewDocument
  <2>4. kernel' = "running" => running' # {}
    BY <2>2 DEF KernelOf
  <2> QED BY <1>0, <2>2, <2>3, <2>4, RemoveShow
<1>7. ASSUME NEW q \in Requests, Load(q) \/ Cancel(q)
      PROVE  ShowInv'
  BY <1>1, <1>7 DEF Load, Loaded, LoadFails, Cancel
<1>8. CASE Serve \/ Finish
  BY <1>1, <1>8 DEF Serve, Finish
<1>9. CASE UNCHANGED vars
  BY <1>1, <1>9 DEF vars
<1> QED BY <1>2, <1>3, <1>4, <1>5, <1>6, <1>7, <1>8, <1>9 DEF Next

\* The page never shows a kernel, a cell or a task as running that is not, whatever
\* breaks, is deleted, is cancelled or is replaced by another document; and a cell
\* that runs once at a time, and stays, is shown as running while it runs and has
\* the result of its last run afterwards (runCell and setSessionState, ui.ts).
THEOREM PageIsTrue == Spec => []PageShowsTheRuns
<1>1. Init => ShowInv
  BY DEF Init, ShowInv, RunsInOrder, FlagsOK, KernelOK, LastRuns, ResultsOK, NoRun,
         Active, Unsettled, RunsOf
<1>2. ShowInv => PageShowsTheRuns
  BY DEF ShowInv, FlagsOK, KernelOK, ResultsOK, PageShowsTheRuns
<1> QED BY <1>1, <1>2, CellInit, CellNext, ShowNext, PTL DEF Spec
=============================================================================
