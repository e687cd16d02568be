---------------------------- MODULE SocketsProofs ----------------------------
(***************************************************************************)
(* Proofs about the WebSockets of the server.  ExecutionStream: for any    *)
(* number of sockets and tasks, and clients that execute as much at once   *)
(* as they like.  ServerSockets, which shares no variable with it: for any *)
(* number of sockets of any kinds and any number of capture processes,     *)
(* with kits that fail and time out.                                       *)
(***************************************************************************)
EXTENDS ExecutionStream, ServerSockets, TLAPS

-----------------------------------------------------------------------------
(* Executions over a socket (ExecutionStream).                               *)


\* An open socket without an active task has no subscription either.
Tidy == \A s \in Streams \ closed : active[s] = Nil => unsubscribe[s] = Nil

SocketInv == TypeOK /\ ActiveIsLive /\ Tidy

\* The queue's variables.
QueueOK ==
  /\ line \in Seq(Tasks)
  /\ current \in Tasks \union {Nil}
  /\ asked \subseteq Tasks
  /\ outcome \in [Tasks -> Outcomes \union {"none", "pending"}]

-----------------------------------------------------------------------------
(* The steps of the queue. *)

LEMMA SubmitFacts ==
  ASSUME QueueOK, NEW t \in Tasks, Queue!Submit(t)
  PROVE  /\ QueueOK'
         /\ outcome[t] = "none"
         /\ outcome' = [outcome EXCEPT ![t] = "pending"]
BY DEF QueueOK, Queue!Submit

LEMMA WithdrawFacts ==
  ASSUME QueueOK, NEW t \in Tasks, Queue!Withdraw(t)
  PROVE  QueueOK' /\ outcome' = [outcome EXCEPT ![t] = "cancelled"]
<1>1. PICK i \in DOMAIN line :
        /\ line[i] = t
        /\ line' = [k \in 1..(Len(line) - 1) |-> line[IF k < i THEN k ELSE k + 1]]
  BY DEF Queue!Withdraw
<1>2. Len(line) \in Nat /\ DOMAIN line = 1..Len(line)
      /\ \A k \in 1..Len(line) : line[k] \in Tasks
  BY DEF QueueOK
<1>3. Len(line) - 1 \in Nat
  BY <1>1, <1>2
<1>4. \A k \in 1..(Len(line) - 1) : line[IF k < i THEN k ELSE k + 1] \in Tasks
  BY <1>1, <1>2
<1>5. line' \in Seq(Tasks)
  BY <1>1, <1>3, <1>4
<1> QED BY <1>5 DEF QueueOK, Queue!Withdraw, Outcomes

LEMMA ServeFacts ==
  ASSUME QueueOK, Queue!Serve
  PROVE  QueueOK' /\ UNCHANGED outcome
BY DEF QueueOK, Queue!Serve

LEMMA EndFacts ==
  ASSUME QueueOK, NEW o \in Outcomes, Queue!End(o)
  PROVE  /\ QueueOK'
         /\ current \in Tasks
         /\ outcome' = [outcome EXCEPT ![current] = o]
BY DEF QueueOK, Queue!End

-----------------------------------------------------------------------------
(* A socket takes a task, and a task ends. *)

LEMMA TakeKeeps ==
  ASSUME SocketInv, NEW t \in Tasks, NEW s \in Streams, Take(s, t),
         stream' \in [Tasks -> Streams \union {Nil}], stream'[t] = s,
         \A x \in Tasks : x # t => stream'[x] = stream[x],
         stream[t] = Nil \/ t \in starting,
         starting' \subseteq (starting \union {t}) \ {t},
         UNCHANGED <<closed, told>>
  PROVE  SocketInv'
<1>1. QueueOK' /\ outcome[t] = "none" /\ outcome' = [outcome EXCEPT ![t] = "pending"]
  BY SubmitFacts DEF QueueOK, SocketInv, TypeOK, Take
<1>2. /\ listening' = listening \union {t}
      /\ active' = [active EXCEPT ![s] = t]
      /\ unsubscribe' = [unsubscribe EXCEPT ![s] = t]
  BY DEF Take
<1>3. \A x \in Tasks : outcome'[x] = IF x = t THEN "pending" ELSE outcome[x]
  BY <1>1 DEF SocketInv, TypeOK
<1>4. TypeOK'
  <2>1. starting' \subseteq {x \in Tasks : stream'[x] # Nil /\ outcome'[x] = "none"}
    BY <1>3 DEF SocketInv, TypeOK
  <2>2. listening' \subseteq {x \in Tasks : stream'[x] # Nil /\ outcome'[x] # "none"}
    BY <1>2, <1>3, NilAssumption DEF SocketInv, TypeOK
  <2>3. told' \subseteq {x \in Tasks : stream'[x] # Nil}
    BY NilAssumption DEF SocketInv, TypeOK
  <2> QED BY <1>1, <1>2, <2>1, <2>2, <2>3 DEF SocketInv, TypeOK, QueueOK
<1>5. ASSUME NEW s2 \in Streams \ closed', active'[s2] # Nil
      PROVE  /\ stream'[active'[s2]] = s2
             /\ outcome'[active'[s2]] = "pending"
             /\ active'[s2] \in listening'
             /\ unsubscribe'[s2] = active'[s2]
  <2>1. CASE s2 = s
    BY <1>2, <1>3, <2>1 DEF SocketInv, TypeOK
  <2>2. CASE s2 # s
    <3>1. active'[s2] = active[s2] /\ unsubscribe'[s2] = unsubscribe[s2]
      BY <1>2, <2>2 DEF SocketInv, TypeOK
    <3>2. /\ stream[active[s2]] = s2 /\ outcome[active[s2]] = "pending"
          /\ active[s2] \in listening /\ unsubscribe[s2] = active[s2]
          /\ active[s2] \in Tasks
      BY <1>5, <3>1 DEF SocketInv, ActiveIsLive, TypeOK
    <3>3. active[s2] # t
      BY <1>1, <3>2
    <3> QED BY <1>2, <1>3, <3>1, <3>2, <3>3
  <2> QED BY <2>1, <2>2
<1>6. Tidy'
  BY <1>2, NilAssumption DEF SocketInv, TypeOK, Tidy
<1> QED BY <1>4, <1>5, <1>6 DEF SocketInv, ActiveIsLive

LEMMA CompleteKeeps ==
  ASSUME SocketInv, NEW t \in Tasks, NEW o \in Outcomes, QueueOK',
         outcome' = [outcome EXCEPT ![t] = o], outcome[t] = "pending",
         Complete(t), UNCHANGED <<closed, stream, starting>>
  PROVE  SocketInv'
<1> DEFINE s == stream[t]
<1>1. \A x \in Tasks : outcome'[x] = IF x = t THEN o ELSE outcome[x]
  BY DEF SocketInv, TypeOK
<1>2. o # "none"
  BY DEF Outcomes
<1>3. starting' \subseteq {x \in Tasks : stream'[x] # Nil /\ outcome'[x] = "none"}
  BY <1>1 DEF SocketInv, TypeOK
<1>4. CASE t \in listening /\ s \notin closed
  <2>1. /\ told' = told \union {t}
        /\ active' = [active EXCEPT ![s] = Nil]
        /\ unsubscribe' = [unsubscribe EXCEPT ![s] = Nil]
        /\ listening' = listening \ {unsubscribe[s]}
    BY <1>4 DEF Complete
  <2>2. s \in Streams
    BY <1>4 DEF SocketInv, TypeOK
  <2>3. TypeOK'
    BY <1>1, <1>2, <1>3, <1>4, <2>1, <2>2 DEF SocketInv, TypeOK, QueueOK
  <2>4. ASSUME NEW s2 \in Streams \ closed', active'[s2] # Nil
        PROVE  /\ stream'[active'[s2]] = s2
               /\ outcome'[active'[s2]] = "pending"
               /\ active'[s2] \in listening'
               /\ unsubscribe'[s2] = active'[s2]
    <3>1. s2 # s /\ active'[s2] = active[s2] /\ unsubscribe'[s2] = unsubscribe[s2]
      BY <2>1, <2>2, <2>4 DEF SocketInv, TypeOK
    <3>2. /\ stream[active[s2]] = s2 /\ outcome[active[s2]] = "pending"
          /\ active[s2] \in listening /\ unsubscribe[s2] = active[s2]
          /\ active[s2] \in Tasks
      BY <2>4, <3>1 DEF SocketInv, ActiveIsLive, TypeOK
    <3>3. active[s2] # t
      BY <3>1, <3>2
    <3>4. active[s2] # unsubscribe[s]
      <4>1. unsubscribe[s] = Nil \/ stream[unsubscribe[s]] = s
        BY <1>4, <2>2 DEF SocketInv, ActiveIsLive, Tidy
      <4> QED BY <3>1, <3>2, <4>1, NilAssumption
    <3> QED BY <1>1, <2>1, <3>1, <3>2, <3>3, <3>4
  <2>5. Tidy'
    BY <2>1, <2>2 DEF SocketInv, Tidy, TypeOK
  <2> QED BY <2>3, <2>4, <2>5 DEF SocketInv, ActiveIsLive
<1>5. CASE ~(t \in listening /\ s \notin closed)
  <2>1. UNCHANGED <<told, listening, active, unsubscribe>>
    BY <1>5 DEF Complete
  <2>2. TypeOK'
    BY <1>1, <1>2, <1>3, <2>1 DEF SocketInv, TypeOK, QueueOK
  <2>3. ASSUME NEW s2 \in Streams \ closed, active[s2] # Nil
        PROVE  active[s2] \in Tasks /\ active[s2] # t
    BY <1>5, <2>3 DEF SocketInv, ActiveIsLive, TypeOK
  <2>4. ActiveIsLive' /\ Tidy'
    BY <1>1, <2>1, <2>3 DEF SocketInv, ActiveIsLive, Tidy
  <2> QED BY <2>2, <2>4 DEF SocketInv
<1> QED BY <1>4, <1>5

-----------------------------------------------------------------------------
(* The queue holds a task once, and only while it is pending. *)

PendingOK ==
  /\ \A i \in DOMAIN line : outcome[line[i]] = "pending"
  /\ current # Nil => outcome[current] = "pending"
  /\ \A i, j \in DOMAIN line : line[i] = line[j] => i = j
  /\ \A i \in DOMAIN line : line[i] # current

LEMMA SubmitKeeps ==
  ASSUME QueueOK, PendingOK, NEW t \in Tasks, Queue!Submit(t)
  PROVE  PendingOK'
<1>1. /\ outcome[t] = "none" /\ line' = Append(line, t) /\ current' = current
      /\ \A x \in Tasks : outcome'[x] = IF x = t THEN "pending" ELSE outcome[x]
  BY DEF QueueOK, Queue!Submit
<1>2. \A i \in DOMAIN line : line[i] \in Tasks /\ line[i] # t
  BY <1>1 DEF QueueOK, PendingOK
<1>3. /\ DOMAIN line = 1..Len(line) /\ Len(line) \in Nat
      /\ DOMAIN line' = 1..(Len(line) + 1)
      /\ \A i \in 1..Len(line) : line'[i] = line[i]
      /\ line'[Len(line) + 1] = t
  BY <1>1 DEF QueueOK
<1>4. \A i \in DOMAIN line' : i \in DOMAIN line \/ i = Len(line) + 1
  BY <1>3
<1>5. current # t
  BY <1>1, NilAssumption DEF PendingOK
<1> QED BY <1>1, <1>2, <1>3, <1>4, <1>5 DEF PendingOK, QueueOK

LEMMA WithdrawKeeps ==
  ASSUME QueueOK, PendingOK, NEW t \in Tasks, Queue!Withdraw(t)
  PROVE  PendingOK' /\ outcome[t] = "pending"
<1>1. PICK i \in DOMAIN line :
        /\ line[i] = t
        /\ line' = [k \in 1..(Len(line) - 1) |-> line[IF k < i THEN k ELSE k + 1]]
  BY DEF Queue!Withdraw
<1>2. /\ DOMAIN line = 1..Len(line) /\ Len(line) \in Nat /\ i \in 1..Len(line)
      /\ DOMAIN line' = 1..(Len(line) - 1)
      /\ current' = current
      /\ \A x \in Tasks : x # t => outcome'[x] = outcome[x]
  BY <1>1 DEF QueueOK, Queue!Withdraw
<1> DEFINE old(k) == IF k < i THEN k ELSE k + 1
<1>3. ASSUME NEW k \in DOMAIN line'
      PROVE  old(k) \in DOMAIN line /\ old(k) # i /\ line'[k] = line[old(k)]
  BY <1>1, <1>2
<1>4. \A k, m \in DOMAIN line' : old(k) = old(m) => k = m
  BY <1>2
<1>5. \A k \in DOMAIN line : line[k] \in Tasks
  BY DEF QueueOK
<1> HIDE DEF old
<1>6. \A k \in DOMAIN line' : line'[k] \in Tasks /\ line'[k] # t
  BY <1>1, <1>3, <1>5 DEF PendingOK
<1>7. \A k \in DOMAIN line' : outcome'[line'[k]] = "pending" /\ line'[k] # current'
  BY <1>2, <1>3, <1>6 DEF PendingOK
<1>8. \A k, m \in DOMAIN line' : line'[k] = line'[m] => k = m
  BY <1>3, <1>4 DEF PendingOK
<1>9. current' # Nil => outcome'[current'] = "pending"
  BY <1>1, <1>2 DEF PendingOK, QueueOK
<1> QED BY <1>1, <1>7, <1>8, <1>9 DEF PendingOK

LEMMA ServeKeeps ==
  ASSUME QueueOK, PendingOK, Queue!Serve
  PROVE  PendingOK'
<1>1. /\ line # <<>> /\ line' = Tail(line) /\ current' = line[1]
      /\ outcome' = outcome
  BY DEF QueueOK, Queue!Serve
<1>2. /\ DOMAIN line = 1..Len(line) /\ Len(line) \in Nat /\ 1 \in DOMAIN line
      /\ DOMAIN line' = 1..(Len(line) - 1)
      /\ \A k \in DOMAIN line' : k + 1 \in DOMAIN line /\ line'[k] = line[k + 1]
  BY <1>1 DEF QueueOK
<1>3. \A k \in DOMAIN line' : k + 1 # 1
  BY <1>2
<1>4. \A k, m \in DOMAIN line' : k + 1 = m + 1 => k = m
  BY <1>2
<1> QED BY <1>1, <1>2, <1>3, <1>4 DEF PendingOK

LEMMA EndKeeps ==
  ASSUME QueueOK, PendingOK, NEW o \in Outcomes, Queue!End(o)
  PROVE  PendingOK' /\ current \in Tasks /\ outcome[current] = "pending"
<1>1. /\ current \in Tasks /\ current' = Nil /\ line' = line
      /\ \A x \in Tasks : x # current => outcome'[x] = outcome[x]
  BY DEF QueueOK, Queue!End
<1>2. \A i \in DOMAIN line : line[i] \in Tasks
  BY DEF QueueOK
<1> QED BY <1>1, <1>2, NilAssumption DEF PendingOK

-----------------------------------------------------------------------------
(* Every step keeps the inductive invariant. *)

\* The tasks of the queue came with execute messages.
Sent == \A t \in Tasks : outcome[t] # "none" => stream[t] # Nil

StreamInv == SocketInv /\ PendingOK /\ Sent

LEMMA InitStream == Init => StreamInv
<1> SUFFICES ASSUME Init PROVE StreamInv
  OBVIOUS
<1>1. TypeOK
  BY DEF Init, Queue!Init, TypeOK
<1>2. ActiveIsLive /\ Tidy
  BY DEF Init, ActiveIsLive, Tidy
<1>3. PendingOK
  BY DEF Init, Queue!Init, PendingOK
<1>4. Sent
  BY DEF Init, Queue!Init, Sent
<1> QED BY <1>1, <1>2, <1>3, <1>4 DEF StreamInv, SocketInv

LEMMA ExecuteKeeps ==
  ASSUME StreamInv, NEW s \in Streams, NEW t \in Tasks, NEW loaded \in BOOLEAN,
         Execute(s, t, loaded)
  PROVE  StreamInv'
<1>1. /\ stream[t] = Nil
      /\ stream' = [stream EXCEPT ![t] = s]
      /\ UNCHANGED <<closed, told>>
  BY DEF Execute
<1>2. /\ stream' \in [Tasks -> Streams \union {Nil}]
      /\ stream'[t] = s
      /\ \A x \in Tasks : x # t => stream'[x] = stream[x]
      /\ s # Nil
  BY <1>1, NilAssumption DEF StreamInv, SocketInv, TypeOK
<1>3. outcome[t] = "none" /\ t \notin starting /\ t \notin listening
  BY <1>1 DEF StreamInv, SocketInv, TypeOK, Sent
<1>4. QueueOK /\ SocketInv /\ PendingOK /\ Sent
  BY DEF StreamInv, SocketInv, TypeOK, QueueOK
<1>5. CASE loaded
  <2>1. Take(s, t) /\ starting' = starting
    BY <1>5 DEF Execute
  <2>2. SocketInv'
    BY <1>1, <1>2, <1>3, <1>4, <2>1, TakeKeeps
  <2>3. PendingOK'
    BY <1>4, <2>1, SubmitKeeps DEF Take
  <2>4. Sent'
    BY <1>2, <1>4, <2>1, SubmitFacts DEF Take, Sent, QueueOK
  <2> QED BY <2>2, <2>3, <2>4 DEF StreamInv
<1>6. CASE ~loaded
  <2>1. /\ starting' = starting \union {t}
        /\ UNCHANGED <<queueVars, listening, active, unsubscribe>>
    BY <1>6 DEF Execute
  <2>2. TypeOK'
    BY <1>1, <1>2, <1>3, <1>4, <2>1 DEF SocketInv, TypeOK, queueVars
  <2>3. ActiveIsLive' /\ Tidy'
    <3>1. ASSUME NEW x \in Streams \ closed, active[x] # Nil
          PROVE  active[x] \in Tasks /\ active[x] # t
      BY <1>3, <1>4, <3>1 DEF SocketInv, ActiveIsLive, TypeOK
    <3> QED BY <1>1, <1>2, <1>4, <2>1, <3>1
            DEF SocketInv, ActiveIsLive, Tidy, queueVars
  <2>4. PendingOK' /\ Sent'
    BY <1>2, <1>4, <2>1 DEF PendingOK, Sent, queueVars
  <2> QED BY <2>2, <2>3, <2>4 DEF StreamInv, SocketInv
<1> QED BY <1>5, <1>6

LEMMA LoadedKeeps ==
  ASSUME StreamInv, NEW t \in Tasks, Loaded(t)
  PROVE  StreamInv'
<1>1. /\ t \in starting /\ Take(stream[t], t) /\ starting' = starting \ {t}
      /\ UNCHANGED <<closed, told, stream>>
  BY DEF Loaded
<1>2. QueueOK /\ SocketInv /\ PendingOK /\ Sent
  BY DEF StreamInv, SocketInv, TypeOK, QueueOK
<1>3. stream[t] \in Streams /\ stream \in [Tasks -> Streams \union {Nil}]
  BY <1>1 DEF StreamInv, SocketInv, TypeOK
<1>4. SocketInv'
  BY <1>1, <1>2, <1>3, TakeKeeps
<1>5. PendingOK' /\ Sent'
  BY <1>1, <1>2, <1>3, SubmitKeeps, SubmitFacts, NilAssumption
  DEF Take, Sent, QueueOK
<1> QED BY <1>4, <1>5 DEF StreamInv

LEMMA LoadFailsKeeps ==
  ASSUME StreamInv, NEW t \in Tasks, LoadFails(t)
  PROVE  StreamInv'
BY DEF StreamInv, SocketInv, TypeOK, ActiveIsLive, Tidy, PendingOK, Sent, LoadFails,
       queueVars, socketVars

LEMMA CancelKeeps ==
  ASSUME StreamInv, NEW t \in Tasks, Cancel(t)
  PROVE  StreamInv'
<1>1. QueueOK /\ SocketInv /\ PendingOK /\ Sent /\ UNCHANGED <<closed, stream, starting>>
  BY DEF StreamInv, SocketInv, TypeOK, QueueOK, Cancel
<1>2. CASE Queue!Withdraw(t) /\ Complete(t)
  <2>1. /\ QueueOK' /\ PendingOK' /\ outcome[t] = "pending"
        /\ outcome' = [outcome EXCEPT ![t] = "cancelled"]
    BY <1>1, <1>2, WithdrawFacts, WithdrawKeeps
  <2>2. SocketInv'
    BY <1>1, <1>2, <2>1, CompleteKeeps DEF Outcomes
  <2>3. Sent'
    BY <1>1, <2>1 DEF Sent, QueueOK
  <2> QED BY <2>1, <2>2, <2>3 DEF StreamInv
<1>3. CASE /\ Queue!AskToStop(t)
           /\ UNCHANGED <<told, listening, active, unsubscribe>>
  BY <1>1, <1>3 DEF StreamInv, SocketInv, TypeOK, ActiveIsLive, Tidy, PendingOK, Sent,
                    Queue!AskToStop
<1> QED BY <1>2, <1>3 DEF Cancel

LEMMA CloseKeeps ==
  ASSUME StreamInv, NEW s \in Streams, Close(s)
  PROVE  StreamInv'
<1>1. /\ s \notin closed
      /\ closed' = closed \union {s}
      /\ active' = [active EXCEPT ![s] = Nil]
      /\ unsubscribe' = [unsubscribe EXCEPT ![s] = Nil]
      /\ listening' = listening \ {unsubscribe[s]}
      /\ UNCHANGED <<queueVars, stream, starting, told>>
  BY DEF Close
<1>2. TypeOK'
  BY <1>1 DEF StreamInv, SocketInv, TypeOK, queueVars
<1>3. ASSUME NEW x \in Streams \ closed'
      PROVE  /\ x \in Streams \ closed /\ x # s
             /\ active'[x] = active[x] /\ unsubscribe'[x] = unsubscribe[x]
             /\ active[x] # Nil => active[x] # unsubscribe[s]
  <2>1. x \in Streams \ closed /\ x # s
    BY <1>1
  <2>2. active'[x] = active[x] /\ unsubscribe'[x] = unsubscribe[x]
    BY <1>1, <2>1 DEF StreamInv, SocketInv, TypeOK
  <2>3. unsubscribe[s] = Nil \/ stream[unsubscribe[s]] = s
    BY <1>1 DEF StreamInv, SocketInv, ActiveIsLive, Tidy
  <2>4. active[x] # Nil => stream[active[x]] = x
    BY <2>1 DEF StreamInv, SocketInv, ActiveIsLive
  <2> QED BY <2>1, <2>2, <2>3, <2>4
<1>4. ActiveIsLive' /\ Tidy'
  BY <1>1, <1>3 DEF StreamInv, SocketInv, ActiveIsLive, Tidy, queueVars
<1>5. PendingOK' /\ Sent'
  BY <1>1 DEF StreamInv, PendingOK, Sent, queueVars
<1> QED BY <1>2, <1>4, <1>5 DEF StreamInv, SocketInv

LEMMA QueueServesKeeps ==
  ASSUME StreamInv, Serve
  PROVE  StreamInv'
<1>1. QueueOK /\ PendingOK
  BY DEF StreamInv, SocketInv, TypeOK, QueueOK
<1>2. /\ QueueOK' /\ PendingOK' /\ outcome' = outcome
      /\ UNCHANGED <<socketVars, stream, starting, listening, told>>
  BY <1>1, ServeFacts, ServeKeeps DEF Serve
<1> QED BY <1>2 DEF StreamInv, SocketInv, TypeOK, QueueOK, ActiveIsLive, Tidy, Sent,
                    socketVars

LEMMA TaskEndsKeeps ==
  ASSUME StreamInv, NEW o \in Outcomes, End(o)
  PROVE  StreamInv'
<1>1. QueueOK /\ SocketInv /\ PendingOK /\ Sent
  BY DEF StreamInv, SocketInv, TypeOK, QueueOK
<1>2. Queue!End(o) /\ Complete(current) /\ UNCHANGED <<closed, stream, starting>>
  BY DEF End
<1>3. /\ QueueOK' /\ PendingOK' /\ current \in Tasks /\ outcome[current] = "pending"
      /\ outcome' = [outcome EXCEPT ![current] = o]
  BY <1>1, <1>2, EndFacts, EndKeeps
<1>4. SocketInv'
  BY <1>1, <1>2, <1>3, CompleteKeeps
<1>5. Sent'
  BY <1>1, <1>2, <1>3 DEF Sent, QueueOK
<1> QED BY <1>3, <1>4, <1>5 DEF StreamInv

LEMMA StreamInvariant == Spec => []StreamInv
<1>1. StreamInv /\ Next => StreamInv'
  BY ExecuteKeeps, LoadedKeeps, LoadFailsKeeps, CancelKeeps, CloseKeeps,
     QueueServesKeeps, TaskEndsKeeps
  DEF Next
<1>2. StreamInv /\ UNCHANGED vars => StreamInv'
  BY DEF StreamInv, SocketInv, TypeOK, ActiveIsLive, Tidy, PendingOK, Sent, vars,
         queueVars, socketVars
<1> QED BY InitStream, <1>1, <1>2, PTL DEF Spec

\* The variables keep their types; in particular a message that waits for its VM
\* is not in the queue, and only tasks of the queue have listeners.
THEOREM StreamTypeCorrect == Spec => []TypeOK
<1>1. StreamInv => TypeOK
  BY DEF StreamInv, SocketInv
<1> QED BY <1>1, StreamInvariant, PTL

\* No interleaving of messages, loads, cancellations and closing sockets leaves an
\* open socket with an active task that ended or that it no longer listens to,
\* even though two tasks of one socket may be unfinished at a time.
THEOREM StreamsAreFreed == Spec => []ActiveIsLive
<1>1. StreamInv => ActiveIsLive
  BY DEF StreamInv, SocketInv
<1> QED BY <1>1, StreamInvariant, PTL

-----------------------------------------------------------------------------
(* A client that waits for its answers is told every end.                    *)

\* The tasks of open sockets whose client waits for its answers.
Awaited(t) == stream[t] \in (Streams \cap Patient) \ closed

\* A task the client was told the end of is over: nothing waits for it, and nothing
\* listens to it.  The one it was not told of is about to become a task of the
\* queue, or is one and is listened to by the subscription of its own socket.
Awaits(t) ==
  IF t \in told
    THEN t \notin listening \union starting /\ outcome[t] # "pending"
    ELSE /\ \/ t \in starting
            \/ outcome[t] = "pending" /\ t \in listening /\ unsubscribe[stream[t]] = t
         /\ \A u \in Tasks \ told : stream[u] = stream[t] => u = t
PatientInv == \A t \in Tasks : Awaited(t) => Awaits(t)

\* The subscription of an open socket is one of its own tasks.
LEMMA OwnSubscription ==
  ASSUME SocketInv, NEW s \in Streams \ closed
  PROVE  unsubscribe[s] = Nil \/ stream[unsubscribe[s]] = s
BY DEF SocketInv, ActiveIsLive, Tidy

\* A socket takes the one task its client waits for.
LEMMA TakePatient ==
  ASSUME StreamInv, PatientInv, NEW t \in Tasks, NEW s \in Streams, Take(s, t),
         stream'[t] = s, \A x \in Tasks : x # t => stream'[x] = stream[x],
         t \notin told, starting' = starting \ {t},
         s \in Patient \ closed => \A u \in Tasks \ told : stream'[u] = s => u = t,
         UNCHANGED <<closed, told>>
  PROVE  PatientInv'
<1>1. /\ outcome[t] = "none" /\ outcome' = [outcome EXCEPT ![t] = "pending"]
      /\ listening' = listening \union {t}
      /\ unsubscribe' = [unsubscribe EXCEPT ![s] = t]
  BY SubmitFacts DEF Take, StreamInv, SocketInv, TypeOK, QueueOK
<1>2. /\ \A x \in Tasks : outcome'[x] = IF x = t THEN "pending" ELSE outcome[x]
      /\ \A x \in Streams : unsubscribe'[x] = IF x = s THEN t ELSE unsubscribe[x]
  BY <1>1 DEF StreamInv, SocketInv, TypeOK
<1> SUFFICES ASSUME NEW x \in Tasks, Awaited(x)' PROVE Awaits(x)'
  BY DEF PatientInv
<1>3. stream'[x] \in Streams /\ stream'[x] \in Patient \ closed
  BY DEF Awaited
<1>4. CASE x = t
  BY <1>1, <1>2, <1>3, <1>4 DEF Awaits
<1>5. CASE x # t
  <2>1. stream'[x] = stream[x] /\ Awaits(x)
    BY <1>3, <1>5 DEF Awaited, PatientInv
  <2>2. CASE x \in told
    BY <1>1, <1>2, <1>5, <2>1, <2>2 DEF Awaits
  <2>3. CASE x \notin told
    <3>1. stream[x] # s
      BY <1>3, <1>5, <2>1, <2>3
    <3>2. /\ x \in starting'
             \/ /\ outcome'[x] = "pending" /\ x \in listening'
                /\ unsubscribe'[stream'[x]] = x
          /\ \A u \in Tasks \ told : stream'[u] = stream'[x] => u = x
      BY <1>1, <1>2, <1>3, <1>5, <2>1, <2>3, <3>1 DEF Awaits
    <3> QED BY <2>3, <3>2 DEF Awaits
  <2> QED BY <2>2, <2>3
<1> QED BY <1>4, <1>5

\* The end of a pending task is told to its socket.
LEMMA CompletePatient ==
  ASSUME StreamInv, PatientInv, NEW t \in Tasks, NEW o \in Outcomes,
         outcome' = [outcome EXCEPT ![t] = o], outcome[t] = "pending",
         Complete(t), UNCHANGED <<closed, stream, starting>>
  PROVE  PatientInv'
<1> DEFINE s == stream[t]
<1>1. \A x \in Tasks : outcome'[x] = IF x = t THEN o ELSE outcome[x]
  BY DEF StreamInv, SocketInv, TypeOK
<1>2. o # "pending"
  BY DEF Outcomes
<1>3. t \notin starting
  BY DEF StreamInv, SocketInv, TypeOK
<1> SUFFICES ASSUME NEW x \in Tasks, Awaited(x)' PROVE Awaits(x)'
  BY DEF PatientInv
<1>4. Awaited(x) /\ Awaits(x) /\ stream[x] \in Streams \ closed
  BY DEF Awaited, PatientInv
<1>5. CASE t \in listening /\ s \notin closed
  <2>1. /\ told' = told \union {t}
        /\ unsubscribe' = [unsubscribe EXCEPT ![s] = Nil]
        /\ listening' = listening \ {unsubscribe[s]}
    BY <1>5 DEF Complete
  <2>2. s \in Streams \ closed
    BY <1>5 DEF StreamInv, SocketInv, TypeOK
  <2>3. unsubscribe[s] = Nil \/ stream[unsubscribe[s]] = s
    BY <2>2, OwnSubscription DEF StreamInv
  <2>4. CASE x = t
    <3>1. unsubscribe[s] = t
      BY <1>3, <1>4, <2>4 DEF Awaits
    <3> QED BY <1>1, <1>2, <1>3, <2>1, <2>4, <3>1 DEF Awaits
  <2>5. CASE x # t /\ x \in told
    BY <1>1, <1>4, <2>1, <2>5 DEF Awaits
  <2>6. CASE x # t /\ x \notin told
    <3>1. stream[x] # s
      <4>1. t \notin told => stream[x] # s
        BY <1>4, <2>6 DEF Awaits
      <4>2. t \in told => ~Awaited(t)
        BY DEF PatientInv, Awaits
      <4>3. stream[x] = s => Awaited(t)
        BY <1>4 DEF Awaited
      <4> QED BY <4>1, <4>2, <4>3
    <3>2. x # unsubscribe[s]
      BY <2>3, <3>1, NilAssumption
    <3>3. unsubscribe'[stream[x]] = unsubscribe[stream[x]]
      BY <1>4, <2>1, <3>1 DEF StreamInv, SocketInv, TypeOK
    <3> QED BY <1>1, <1>4, <2>1, <2>6, <3>2, <3>3 DEF Awaits
  <2> QED BY <2>4, <2>5, <2>6
<1>6. CASE ~(t \in listening /\ s \notin closed)
  <2>1. UNCHANGED <<told, listening, unsubscribe>>
    BY <1>6 DEF Complete
  <2>2. x # t
    BY <1>3, <1>4, <1>6 DEF Awaits
  <2> QED BY <1>1, <1>4, <2>1, <2>2 DEF Awaits
<1> QED BY <1>5, <1>6

\* Every step keeps it.
LEMMA NextPatient ==
  ASSUME StreamInv, PatientInv, [Next]_vars
  PROVE  PatientInv'
<1>0. TypeOK
  BY DEF StreamInv, SocketInv
<1>1. ASSUME NEW s \in Streams, NEW t \in Tasks, NEW loaded \in BOOLEAN,
             Execute(s, t, loaded)
      PROVE  PatientInv'
  <2>1. /\ stream[t] = Nil /\ stream' = [stream EXCEPT ![t] = s] /\ s \notin closed
        /\ s \in Patient => Unanswered(s) = {}
        /\ UNCHANGED <<closed, told>>
    BY <1>1 DEF Execute
  <2>2. /\ t \notin told \union starting \union listening
        /\ stream'[t] = s /\ \A x \in Tasks : x # t => stream'[x] = stream[x]
    BY <1>0, <2>1, NilAssumption DEF TypeOK
  <2>3. s \in Patient => \A u \in Tasks \ told : stream'[u] = s => u = t
    BY <2>1, <2>2 DEF Unanswered
  <2>4. CASE loaded
    <3>1. Take(s, t) /\ starting' = starting
      BY <1>1, <2>4 DEF Execute
    <3>2. starting' = starting \ {t}
      BY <2>2, <3>1
    <3> QED BY <2>1, <2>2, <2>3, <3>1, <3>2, TakePatient
  <2>5. CASE ~loaded
    <3>1. /\ starting' = starting \union {t}
          /\ UNCHANGED <<outcome, listening, unsubscribe>>
      BY <1>1, <2>5 DEF Execute, queueVars
    <3> SUFFICES ASSUME NEW x \in Tasks, Awaited(x)' PROVE Awaits(x)'
      BY DEF PatientInv
    <3>2. CASE x = t
      <4>1. x \in starting' /\ x \notin told'
        BY <2>1, <2>2, <3>1, <3>2
      <4>2. \A u \in Tasks \ told' : stream'[u] = stream'[x] => u = x
        BY <2>1, <2>2, <2>3, <3>2 DEF Awaited
      <4> QED BY <4>1, <4>2 DEF Awaits
    <3>3. CASE x # t
      <4>1. stream'[x] = stream[x] /\ Awaits(x)
        BY <2>1, <2>2, <3>3 DEF Awaited, PatientInv
      <4>2. CASE x \in told
        BY <2>1, <3>1, <3>3, <4>1, <4>2 DEF Awaits
      <4>3. CASE x \notin told
        <5>1. stream[x] # s
          BY <2>1, <2>3, <3>3, <4>1, <4>3 DEF Awaited
        <5>2. \A u \in Tasks \ told : stream'[u] = stream[x] => u = x
          BY <2>2, <4>1, <4>3, <5>1 DEF Awaits
        <5>3. \/ x \in starting'
              \/ /\ outcome'[x] = "pending" /\ x \in listening'
                 /\ unsubscribe'[stream'[x]] = x
          BY <3>1, <4>1, <4>3 DEF Awaits
        <5> QED BY <2>1, <4>1, <4>3, <5>2, <5>3 DEF Awaits
      <4> QED BY <4>2, <4>3
    <3> QED BY <3>2, <3>3
  <2> QED BY <2>4, <2>5
<1>2. ASSUME NEW t \in Tasks, Loaded(t)
      PROVE  PatientInv'
  <2>1. /\ t \in starting /\ Take(stream[t], t) /\ starting' = starting \ {t}
        /\ UNCHANGED <<closed, told, stream>>
    BY <1>2 DEF Loaded
  <2>2. stream[t] \in Streams
    BY <1>0, <2>1 DEF TypeOK
  <2>3. CASE stream[t] \in Patient \ closed
    <3>1. Awaits(t)
      BY <2>2, <2>3 DEF PatientInv, Awaited
    <3>2. t \notin told /\ \A u \in Tasks \ told : stream[u] = stream[t] => u = t
      BY <2>1, <3>1 DEF Awaits
    <3> QED BY <2>1, <2>2, <3>2, TakePatient
  <2>4. CASE stream[t] \notin Patient \ closed
    <3>1. /\ outcome[t] = "none" /\ outcome' = [outcome EXCEPT ![t] = "pending"]
          /\ listening' = listening \union {t}
          /\ unsubscribe' = [unsubscribe EXCEPT ![stream[t]] = t]
      BY <1>0, <2>1, SubmitFacts DEF Take, TypeOK, QueueOK
    <3> SUFFICES ASSUME NEW x \in Tasks, Awaited(x)' PROVE Awaits(x)'
      BY DEF PatientInv
    <3>2. x # t /\ stream[x] # stream[t] /\ Awaits(x) /\ stream[x] \in Streams
      BY <2>1, <2>4 DEF Awaited, PatientInv
    <3>3. /\ outcome'[x] = outcome[x]
          /\ unsubscribe'[stream[x]] = unsubscribe[stream[x]]
      BY <1>0, <3>1, <3>2 DEF TypeOK
    <3> QED BY <2>1, <3>1, <3>2, <3>3 DEF Awaits
  <2> QED BY <2>3, <2>4
<1>3. ASSUME NEW t \in Tasks, LoadFails(t)
      PROVE  PatientInv'
  <2>1. /\ t \in starting /\ starting' = starting \ {t} /\ told' = told \union {t}
        /\ UNCHANGED <<outcome, unsubscribe, closed, listening, stream>>
    BY <1>3 DEF LoadFails, queueVars, socketVars
  <2>2. t \notin listening /\ outcome[t] = "none"
    BY <1>0, <2>1 DEF TypeOK
  <2> SUFFICES ASSUME NEW x \in Tasks, Awaited(x)' PROVE Awaits(x)'
    BY DEF PatientInv
  <2>3. Awaits(x)
    BY <2>1 DEF Awaited, PatientInv
  <2> QED BY <2>1, <2>2, <2>3 DEF Awaits
<1>4. ASSUME NEW t \in Tasks, Cancel(t)
      PROVE  PatientInv'
  <2>1. CASE Queue!Withdraw(t) /\ Complete(t)
    <3>1. outcome[t] = "pending" /\ outcome' = [outcome EXCEPT ![t] = "cancelled"]
      BY <2>1, WithdrawFacts, WithdrawKeeps DEF StreamInv, SocketInv, TypeOK, QueueOK
    <3> QED BY <1>4, <2>1, <3>1, CompletePatient DEF Cancel, Outcomes
  <2>2. CASE /\ Queue!AskToStop(t)
             /\ UNCHANGED <<told, listening, active, unsubscribe>>
    BY <1>4, <2>2 DEF Cancel, Queue!AskToStop, PatientInv, Awaited, Awaits
  <2> QED BY <1>4, <2>1, <2>2 DEF Cancel
<1>5. ASSUME NEW s \in Streams, Close(s)
      PROVE  PatientInv'
  <2>1. /\ s \notin closed /\ closed' = closed \union {s}
        /\ unsubscribe' = [unsubscribe EXCEPT ![s] = Nil]
        /\ listening' = listening \ {unsubscribe[s]}
        /\ UNCHANGED <<outcome, stream, starting, told>>
    BY <1>5 DEF Close, queueVars
  <2>2. unsubscribe[s] = Nil \/ stream[unsubscribe[s]] = s
    BY <2>1, OwnSubscription DEF StreamInv
  <2> SUFFICES ASSUME NEW x \in Tasks, Awaited(x)' PROVE Awaits(x)'
    BY DEF PatientInv
  <2>3. Awaits(x) /\ stream[x] # s /\ stream[x] \in Streams
    BY <2>1 DEF Awaited, PatientInv
  <2>4. x # unsubscribe[s] /\ unsubscribe'[stream[x]] = unsubscribe[stream[x]]
    BY <1>0, <2>1, <2>2, <2>3, NilAssumption DEF TypeOK
  <2> QED BY <2>1, <2>3, <2>4 DEF Awaits
<1>6. CASE Serve
  BY <1>6, ServeFacts DEF Serve, socketVars, StreamInv, SocketInv, TypeOK, QueueOK,
     PatientInv, Awaited, Awaits
<1>7. ASSUME NEW o \in Outcomes, End(o)
      PROVE  PatientInv'
  <2>1. /\ current \in Tasks /\ outcome[current] = "pending"
        /\ outcome' = [outcome EXCEPT ![current] = o]
    BY <1>7, EndFacts, EndKeeps DEF End, StreamInv, SocketInv, TypeOK, QueueOK
  <2> QED BY <1>7, <2>1, CompletePatient DEF End
<1>8. CASE UNCHANGED vars
  BY <1>8 DEF vars, queueVars, socketVars, PatientInv, Awaited, Awaits
<1> QED BY <1>1, <1>2, <1>3, <1>4, <1>5, <1>6, <1>7, <1>8 DEF Next

\* A client that waits for each answer before it executes more is told the end of
\* every task, by events of the queue that any other client's cancellation, load or
\* closed socket may come between, and no listener of such a task outlives it
\* (execution-stream's subscription, which one socket keeps one of).
THEOREM ListenersLast == Spec => []ListenersServe
<1>1. Init => PatientInv
  BY NilAssumption DEF Init, PatientInv, Awaited
<1>2. ASSUME StreamInv, PatientInv
      PROVE  EndIsTold
  <2> SUFFICES ASSUME NEW t \in Tasks, Ended(t), stream[t] \in Patient \ closed,
                      t \notin told
               PROVE  FALSE
    BY DEF EndIsTold
  <2>1. Awaited(t) /\ t \notin starting
    BY <1>2 DEF Awaited, StreamInv, Sent, SocketInv, TypeOK, Ended
  <2> QED BY <1>2, <2>1 DEF PatientInv, Awaits, Ended
<1>3. ASSUME StreamInv, PatientInv
      PROVE  NoStaleListener
  <2> SUFFICES ASSUME NEW t \in listening, Ended(t), stream[t] \in Patient \ closed
               PROVE  FALSE
    BY DEF NoStaleListener
  <2>1. t \in Tasks /\ stream[t] \in Streams
    BY <1>3 DEF StreamInv, SocketInv, TypeOK
  <2>2. Awaited(t) /\ t \in told
    BY <1>2, <1>3, <2>1 DEF Awaited, EndIsTold
  <2> QED BY <1>3, <2>1, <2>2 DEF PatientInv, Awaits
<1>4. StreamInv /\ PatientInv => ListenersServe
  BY <1>2, <1>3 DEF ListenersServe
<1>5. Spec => []PatientInv
  BY <1>1, StreamInvariant, NextPatient, PTL DEF Spec
<1> QED BY <1>4, <1>5, StreamInvariant, PTL

-----------------------------------------------------------------------------
(* Screencasts, terminals, inspectors and audio (ServerSockets).             *)


\* Where the handler of a socket can be, by its kind.
PlaceOK(s) ==
  /\ sock[s] = "none" => work[s] = "none"
  /\ work[s] = "none" =>
       op[s] = "none" /\ s \notin stop /\ timers[s] = {} /\ held[s] = "none"
  /\ work[s] = "starting" => kind[s] \in {"browser", "terminal"}
  /\ work[s] \in {"tabs", "resetting"} => kind[s] = "browser"
  /\ work[s] = "watching" => kind[s] = "terminal"
  /\ work[s] \in {"reading", "waiting"} => kind[s] = "inspector"
  /\ kind[s] = "audio" => work[s] = "none"
  /\ op[s] # "none" => kind[s] = "browser"
  /\ "poll" \in timers[s] => kind[s] = "inspector"
  /\ kind[s] = "browser" /\ work[s] \notin {"none", "starting"} /\ s \notin late =>
       op[s] \in {"done", "failed"}

\* Whatever a socket holds has somebody who will let go of it.
OwnedOK(s) ==
  /\ s \in stop => ~Closed(s)
  /\ kind[s] = "inspector" /\ sock[s] \in {"open", "closing"} => s \in stop
  /\ held[s] = "on" /\ s \notin late =>
       s \in stop \/ (kind[s] = "browser" /\ work[s] = "starting")
  /\ timers[s] # {} /\ s \notin late =>
       \/ s \in stop
       \/ /\ timers[s] \subseteq {"watchdog"}
          /\ (kind[s] = "browser" /\ work[s] = "starting") \/ op[s] = "failed"
  /\ sock[s] = "open" /\ s \in stop /\ kind[s] = "browser" => "watchdog" \in timers[s]

SocketOK(s) == PlaceOK(s) /\ OwnedOK(s)

\* The capture process that runs, those that end, and who hears them.
AudioOK ==
  /\ \A s \in clients : kind[s] = "audio" /\ sock[s] \in {"open", "closing"}
  /\ \A p \in Captures :
         process[p] \in {"running", "dead"} /\ p \notin killed => p = capture
  /\ \A p \in killed : process[p] # "none"
  /\ \A p \in killed : process[p] \in {"running", "dead"} /\ p # stopped => overlap
  /\ capture # None => capture \notin killed /\ process[capture] # "none" /\ clients # {}
  /\ capture = None => \A s \in clients : sock[s] # "open"
  /\ stopped # None => stopped \in killed
  /\ alarmed => overlap

SocketsInv == SocketTypesOK /\ (\A s \in Sockets : SocketOK(s)) /\ AudioOK

-----------------------------------------------------------------------------
(* What a step leaves of a socket that it is not about. *)

\* A step takes nothing away from socket t but what it holds, and may close it.
Quiet(t) ==
  /\ kind'[t] = kind[t] /\ work'[t] = work[t] /\ op'[t] = op[t]
  /\ timers'[t] = timers[t]
  /\ t \in stop' <=> t \in stop
  /\ t \in late => t \in late'
  /\ sock'[t] = sock[t] \/ (sock[t] = "open" /\ sock'[t] = "closing")
  /\ held'[t] = held[t] \/ (held[t] # "none" /\ held'[t] \in {"stopping", "off"})

LEMMA QuietIsOK ==
  ASSUME NEW t, SocketOK(t), Quiet(t)
  PROVE  SocketOK(t)'
BY DEF SocketOK, PlaceOK, OwnedOK, Quiet, Closed

LEMMA CloseFacts ==
  ASSUME SocketTypesOK, NEW S, Closing(S)
  PROVE  /\ sock' \in [Sockets -> {"none", "open", "closing", "closed"}]
         /\ \A t \in Sockets :
              /\ sock'[t] = sock[t] \/ (sock[t] = "open" /\ sock'[t] = "closing")
              /\ t \in S => sock'[t] # "open"
BY DEF SocketTypesOK, Closing

LEMMA StopFacts ==
  ASSUME SocketTypesOK, NEW s \in Sockets, held' = Stopping(held, s)
  PROVE  /\ held' \in [Sockets -> {"none", "on", "stopping", "off"}]
         /\ \A t \in Sockets :
              held'[t] = held[t] \/ (t = s /\ held[t] = "on" /\ held'[t] = "stopping")
         /\ held'[s] # "on"
BY DEF SocketTypesOK, Stopping

LEMMA AllOffFacts ==
  ASSUME SocketTypesOK, AllOff
  PROVE  /\ held' \in [Sockets -> {"none", "on", "stopping", "off"}]
         /\ \A t \in Sockets :
              held'[t] = held[t] \/ (held[t] # "none" /\ held'[t] = "off")
BY DEF SocketTypesOK, AllOff

-----------------------------------------------------------------------------
(* The sockets. *)

LEMMA SocketStep ==
  ASSUME SocketTypesOK, \A t \in Sockets : SocketOK(t), [SocketsNext]_serverVars
  PROVE  \A t \in Sockets : SocketOK(t)'
<1>1. ASSUME NEW s \in Sockets, Open(s)
      PROVE  \A t \in Sockets : SocketOK(t)'
  <2>1. \A t \in Sockets \ {s} : Quiet(t)
    BY <1>1 DEF SocketTypesOK, Quiet, Open, Kinds, handlerVars, kitVars, audioVars
  <2>2. SocketOK(s)'
    BY <1>1 DEF SocketTypesOK, SocketOK, PlaceOK, OwnedOK, Closed, Open, Kinds,
       handlerVars, kitVars, audioVars
  <2> QED BY <2>1, <2>2, QuietIsOK
<1>2. ASSUME NEW s \in Sockets, Leave(s)
      PROVE  \A t \in Sockets : SocketOK(t)'
  <2>1. /\ \A t \in Sockets :
         sock'[t] = sock[t] \/ (sock[t] = "open" /\ sock'[t] = "closing")
        /\ sock'[s] # "open"
    BY <1>2, CloseFacts DEF Leave
  <2>2. \A t \in Sockets \ {s} : Quiet(t)
    BY <1>2, <2>1 DEF SocketTypesOK, Quiet, Leave, handlerVars, kitVars, audioVars
  <2>3. SocketOK(s)'
    BY <1>2, <2>1 DEF SocketTypesOK, SocketOK, PlaceOK, OwnedOK, Closed, Leave,
       handlerVars, kitVars, audioVars
  <2> QED BY <2>2, <2>3, QuietIsOK
<1>3. ASSUME NEW s \in Sockets, CloseHandler(s)
      PROVE  \A t \in Sockets : SocketOK(t)'
  <2>1. /\ \A t \in Sockets :
         held'[t] = held[t] \/ (held[t] = "on" /\ held'[t] = "stopping")
        /\ s \in stop => held'[s] # "on"
    BY <1>3, StopFacts DEF SocketTypesOK, CloseHandler
  <2>2. \A t \in Sockets \ {s} : Quiet(t)
    BY <1>3, <2>1 DEF SocketTypesOK, Quiet, CloseHandler, handlerVars, kitVars, audioVars
  <2>3. SocketOK(s)'
    BY <1>3, <2>1 DEF SocketTypesOK, SocketOK, PlaceOK, OwnedOK, Closed, CloseHandler,
       handlerVars, kitVars, audioVars
  <2> QED BY <2>2, <2>3, QuietIsOK
<1>4. ASSUME NEW s \in Sockets, Resolved(s)
      PROVE  \A t \in Sockets : SocketOK(t)'
  <2>1. /\ \A t \in Sockets :
         held'[t] = held[t] \/ (held[t] = "on" /\ held'[t] = "stopping")
        /\ handle # None => held'[handle] # "on"
    BY <1>4, StopFacts DEF SocketTypesOK, Resolved
  <2>2. \A t \in Sockets \ {s} : Quiet(t)
    BY <1>4, <2>1 DEF SocketTypesOK, Quiet, Resolved, handlerVars, kitVars, audioVars
  <2>3. SocketOK(s)'
    BY <1>4, <2>1 DEF SocketTypesOK, SocketOK, PlaceOK, OwnedOK, Closed, Resolved,
       handlerVars, kitVars, audioVars
  <2> QED BY <2>2, <2>3, QuietIsOK
<1>5. ASSUME NEW s \in Sockets, Attach(s)
      PROVE  \A t \in Sockets : SocketOK(t)'
  <2>1. \A t \in Sockets \ {s} : Quiet(t)
    BY <1>5 DEF SocketTypesOK, Quiet, Attach, handlerVars, kitVars, audioVars
  <2>2. SocketOK(s)'
    BY <1>5 DEF SocketTypesOK, SocketOK, PlaceOK, OwnedOK, Closed, Attach, handlerVars,
       kitVars, audioVars
  <2> QED BY <2>1, <2>2, QuietIsOK
<1>6. ASSUME NEW s \in Sockets, Started(s)
      PROVE  \A t \in Sockets : SocketOK(t)'
  <2>1. \A t \in Sockets \ {s} : Quiet(t)
    BY <1>6 DEF SocketTypesOK, Quiet, Started, handlerVars, kitVars, audioVars
  <2>2. SocketOK(s)'
    BY <1>6 DEF SocketTypesOK, SocketOK, PlaceOK, OwnedOK, Closed, Started, handlerVars,
       kitVars, audioVars
  <2> QED BY <2>1, <2>2, QuietIsOK
<1>7. ASSUME NEW s \in Sockets, \E resets \in BOOLEAN : OpFails(s, resets)
      PROVE  \A t \in Sockets : SocketOK(t)'
  <2>1. /\ \A t \in Sockets :
         sock'[t] = sock[t] \/ (sock[t] = "open" /\ sock'[t] = "closing")
        /\ sock'[s] # "open" \/ UNCHANGED sock
    BY <1>7, CloseFacts DEF OpFails, Reject, Fails
  <2>2. \A t \in Sockets \ {s} : Quiet(t)
    BY <1>7, <2>1 DEF SocketTypesOK, Quiet, OpFails, Reject, Fails, handlerVars, kitVars,
       audioVars
  <2>3. SocketOK(s)'
    BY <1>7, <2>1 DEF SocketTypesOK, SocketOK, PlaceOK, OwnedOK, Closed, OpFails, Reject,
       Fails, handlerVars, kitVars, audioVars
  <2> QED BY <2>2, <2>3, QuietIsOK
<1>8. ASSUME NEW s \in Sockets, Timeout(s)
      PROVE  \A t \in Sockets : SocketOK(t)'
  <2>1. \A t \in Sockets \ {s} : Quiet(t)
    BY <1>8 DEF SocketTypesOK, Quiet, Timeout, Reject, handlerVars, kitVars, audioVars
  <2>2. SocketOK(s)'
    BY <1>8 DEF SocketTypesOK, SocketOK, PlaceOK, OwnedOK, Closed, Timeout, Reject,
       handlerVars, kitVars, audioVars
  <2> QED BY <2>1, <2>2, QuietIsOK
<1>9. ASSUME NEW s \in Sockets, \E closes \in BOOLEAN : ResetDone(s, closes)
      PROVE  \A t \in Sockets : SocketOK(t)'
  <2>1. \A t \in Sockets :
         sock'[t] = sock[t] \/ (sock[t] = "open" /\ sock'[t] = "closing")
    BY <1>9, CloseFacts DEF ResetDone, Fails
  <2>2. \A t \in Sockets :
         held'[t] = held[t] \/ (held[t] # "none" /\ held'[t] \in {"stopping", "off"})
    BY <1>9, StopFacts, AllOffFacts DEF SocketTypesOK, ResetDone, Fails
  <2>3. sock'[s] # "open"
    BY <1>9, CloseFacts DEF ResetDone, Fails
  <2>4. \A t \in Sockets \ {s} : Quiet(t)
    BY <1>9, <2>1, <2>2 DEF SocketTypesOK, Quiet, ResetDone, Fails, handlerVars, kitVars,
       audioVars
  <2>5. SocketOK(s)'
    BY <1>9, <2>1, <2>2, <2>3 DEF SocketTypesOK, SocketOK, PlaceOK, OwnedOK, Closed,
       ResetDone, Fails, handlerVars, kitVars, audioVars
  <2> QED BY <2>4, <2>5, QuietIsOK
<1>10. ASSUME NEW s \in Sockets, Casting(s)
      PROVE  \A t \in Sockets : SocketOK(t)'
  <2>1. /\ \A t \in Sockets :
         held'[t] = held[t] \/ (held[t] = "on" /\ held'[t] = "stopping")
        /\ Closed(s) => held'[s] # "on"
    BY <1>10, StopFacts DEF SocketTypesOK, Casting
  <2>2. \A t \in Sockets \ {s} : Quiet(t)
    BY <1>10, <2>1 DEF SocketTypesOK, Quiet, Casting, handlerVars, kitVars, audioVars
  <2>3. SocketOK(s)'
    BY <1>10, <2>1 DEF SocketTypesOK, SocketOK, PlaceOK, OwnedOK, Closed, Casting,
       handlerVars, kitVars, audioVars
  <2> QED BY <2>2, <2>3, QuietIsOK
<1>11. ASSUME NEW s \in Sockets, \E ok \in BOOLEAN : Tabs(s, ok)
      PROVE  \A t \in Sockets : SocketOK(t)'
  <2>1. /\ \A t \in Sockets :
         sock'[t] = sock[t] \/ (sock[t] = "open" /\ sock'[t] = "closing")
        /\ sock'[s] # "open" \/ UNCHANGED sock
    BY <1>11, CloseFacts DEF Tabs, Fails
  <2>2. \A t \in Sockets \ {s} : Quiet(t)
    BY <1>11, <2>1 DEF SocketTypesOK, Quiet, Tabs, Fails, handlerVars, kitVars, audioVars
  <2>3. SocketOK(s)'
    BY <1>11, <2>1 DEF SocketTypesOK, SocketOK, PlaceOK, OwnedOK, Closed, Tabs, Fails,
       handlerVars, kitVars, audioVars
  <2> QED BY <2>2, <2>3, QuietIsOK
<1>12. ASSUME NEW s \in Sockets, StopDone(s)
      PROVE  \A t \in Sockets : SocketOK(t)'
  <2>1. \A t \in Sockets \ {s} : Quiet(t)
    BY <1>12 DEF SocketTypesOK, Quiet, StopDone, handlerVars, kitVars, audioVars
  <2>2. SocketOK(s)'
    BY <1>12 DEF SocketTypesOK, SocketOK, PlaceOK, OwnedOK, Closed, StopDone, handlerVars,
       kitVars, audioVars
  <2> QED BY <2>1, <2>2, QuietIsOK
<1>13. ASSUME NEW s \in Sockets, Frame(s)
      PROVE  \A t \in Sockets : SocketOK(t)'
  <2>1. \A t \in Sockets \ {s} : Quiet(t)
    BY <1>13 DEF SocketTypesOK, Quiet, Frame, handlerVars, kitVars, audioVars
  <2>2. SocketOK(s)'
    BY <1>13 DEF SocketTypesOK, SocketOK, PlaceOK, OwnedOK, Closed, Frame, handlerVars,
       kitVars, audioVars
  <2> QED BY <2>1, <2>2, QuietIsOK
<1>14. ASSUME NEW s \in Sockets, Stalled(s)
      PROVE  \A t \in Sockets : SocketOK(t)'
  <2>1. /\ \A t \in Sockets :
         sock'[t] = sock[t] \/ (sock[t] = "open" /\ sock'[t] = "closing")
        /\ sock'[s] # "open"
    BY <1>14, CloseFacts DEF Stalled
  <2>2. \A t \in Sockets \ {s} : Quiet(t)
    BY <1>14, <2>1 DEF SocketTypesOK, Quiet, Stalled, handlerVars, kitVars, audioVars
  <2>3. SocketOK(s)'
    BY <1>14, <2>1 DEF SocketTypesOK, SocketOK, PlaceOK, OwnedOK, Closed, Stalled,
       handlerVars, kitVars, audioVars
  <2> QED BY <2>2, <2>3, QuietIsOK
<1>15. ASSUME NEW s \in Sockets, \E ok \in BOOLEAN : Terminal(s, ok)
      PROVE  \A t \in Sockets : SocketOK(t)'
  <2>1. /\ \A t \in Sockets :
         sock'[t] = sock[t] \/ (sock[t] = "open" /\ sock'[t] = "closing")
        /\ sock'[s] # "open" \/ UNCHANGED sock
    BY <1>15, CloseFacts DEF Terminal, Fails
  <2>2. \A t \in Sockets \ {s} : Quiet(t)
    BY <1>15, <2>1 DEF SocketTypesOK, Quiet, Terminal, Fails, handlerVars, kitVars,
       audioVars
  <2>3. SocketOK(s)'
    BY <1>15, <2>1 DEF SocketTypesOK, SocketOK, PlaceOK, OwnedOK, Closed, Terminal, Fails,
       handlerVars, kitVars, audioVars
  <2> QED BY <2>2, <2>3, QuietIsOK
<1>16. ASSUME NEW s \in Sockets, ShellExits(s)
      PROVE  \A t \in Sockets : SocketOK(t)'
  <2>1. \A t \in Sockets \ {s} : Quiet(t)
    BY <1>16 DEF SocketTypesOK, Quiet, ShellExits, handlerVars, kitVars, audioVars
  <2>2. SocketOK(s)'
    BY <1>16 DEF SocketTypesOK, SocketOK, PlaceOK, OwnedOK, Closed, ShellExits,
       handlerVars, kitVars, audioVars
  <2> QED BY <2>1, <2>2, QuietIsOK
<1>17. ASSUME NEW s \in Sockets, Watched(s)
      PROVE  \A t \in Sockets : SocketOK(t)'
  <2>1. /\ \A t \in Sockets :
         sock'[t] = sock[t] \/ (sock[t] = "open" /\ sock'[t] = "closing")
        /\ sock'[s] # "open" \/ UNCHANGED sock
    BY <1>17, CloseFacts DEF Watched, Fails
  <2>2. \A t \in Sockets \ {s} : Quiet(t)
    BY <1>17, <2>1 DEF SocketTypesOK, Quiet, Watched, Fails, handlerVars, kitVars, audioVars
  <2>3. SocketOK(s)'
    BY <1>17, <2>1 DEF SocketTypesOK, SocketOK, PlaceOK, OwnedOK, Closed, Watched, Fails,
       handlerVars, kitVars, audioVars
  <2> QED BY <2>2, <2>3, QuietIsOK
<1>18. ASSUME NEW s \in Sockets, Read(s)
      PROVE  \A t \in Sockets : SocketOK(t)'
  <2>1. \A t \in Sockets \ {s} : Quiet(t)
    BY <1>18 DEF SocketTypesOK, Quiet, Read, handlerVars, kitVars, audioVars
  <2>2. SocketOK(s)'
    BY <1>18 DEF SocketTypesOK, SocketOK, PlaceOK, OwnedOK, Closed, Read, handlerVars,
       kitVars, audioVars
  <2> QED BY <2>1, <2>2, QuietIsOK
<1>19. ASSUME NEW s \in Sockets, Poll(s)
      PROVE  \A t \in Sockets : SocketOK(t)'
  <2>1. \A t \in Sockets \ {s} : Quiet(t)
    BY <1>19 DEF SocketTypesOK, Quiet, Poll, handlerVars, kitVars, audioVars
  <2>2. SocketOK(s)'
    BY <1>19 DEF SocketTypesOK, SocketOK, PlaceOK, OwnedOK, Closed, Poll, handlerVars,
       kitVars, audioVars
  <2> QED BY <2>1, <2>2, QuietIsOK
<1>20. ASSUME NEW s \in Sockets, \E p \in Captures : Subscribe(s, p)
      PROVE  \A t \in Sockets : SocketOK(t)'
  <2>1. \A t \in Sockets \ {s} : Quiet(t)
    BY <1>20 DEF SocketTypesOK, Quiet, Subscribe, handlerVars, kitVars, audioVars
  <2>2. SocketOK(s)'
    BY <1>20 DEF SocketTypesOK, SocketOK, PlaceOK, OwnedOK, Closed, Subscribe, handlerVars,
       kitVars, audioVars
  <2> QED BY <2>1, <2>2, QuietIsOK
<1>21. ASSUME NEW s \in Sockets, Refused(s)
      PROVE  \A t \in Sockets : SocketOK(t)'
  <2>1. \A t \in Sockets \ {s} : Quiet(t)
    BY <1>21 DEF SocketTypesOK, Quiet, Refused, handlerVars, kitVars, audioVars
  <2>2. SocketOK(s)'
    BY <1>21 DEF SocketTypesOK, SocketOK, PlaceOK, OwnedOK, Closed, Refused, handlerVars,
       kitVars, audioVars
  <2> QED BY <2>1, <2>2, QuietIsOK
<1>22. CASE BrowserGone
  <2>1. \A t \in Sockets :
          held'[t] = held[t] \/ (held[t] # "none" /\ held'[t] = "off")
    BY <1>22, AllOffFacts DEF BrowserGone
  <2>2. \A t \in Sockets : Quiet(t)
    BY <1>22, <2>1 DEF Quiet, BrowserGone, audioVars
  <2> QED BY <2>2, QuietIsOK
<1>23. ASSUME NEW p \in Captures, Dies(p)
      PROVE  \A t \in Sockets : SocketOK(t)'
  BY <1>23, QuietIsOK DEF Dies, handlerVars, kitVars, Quiet
<1>24. ASSUME NEW p \in Captures, Reap(p)
      PROVE  \A t \in Sockets : SocketOK(t)'
  <2>1. \A t \in Sockets :
          sock'[t] = sock[t] \/ (sock[t] = "open" /\ sock'[t] = "closing")
    BY <1>24, CloseFacts DEF Reap
  <2>2. \A t \in Sockets : Quiet(t)
    BY <1>24, <2>1 DEF Quiet, Reap, kitVars
  <2> QED BY <2>2, QuietIsOK
<1>25. CASE UNCHANGED serverVars
  BY <1>25, QuietIsOK DEF serverVars, handlerVars, kitVars, audioVars, Quiet
<1> QED BY <1>1, <1>2, <1>3, <1>4, <1>5, <1>6, <1>7, <1>8, <1>9, <1>10, <1>11,
           <1>12, <1>13, <1>14, <1>15, <1>16, <1>17, <1>18, <1>19, <1>20, <1>21,
           <1>22, <1>23, <1>24, <1>25
       DEF SocketsNext, Kit, Browser, Audio

-----------------------------------------------------------------------------
(* The types. *)

LEMMA TypeStep ==
  ASSUME SocketTypesOK, [SocketsNext]_serverVars
  PROVE  SocketTypesOK'
<1>1. ASSUME NEW s \in Sockets, Open(s)
      PROVE  SocketTypesOK'
  BY <1>1 DEF SocketTypesOK, Open, Kinds, handlerVars, kitVars, audioVars
<1>2. ASSUME NEW s \in Sockets, Leave(s)
      PROVE  SocketTypesOK'
  BY <1>2, CloseFacts DEF SocketTypesOK, Leave, handlerVars, kitVars, audioVars
<1>3. ASSUME NEW s \in Sockets, CloseHandler(s)
      PROVE  SocketTypesOK'
  <2>1. /\ sock' \in [Sockets -> {"none", "open", "closing", "closed"}]
        /\ stop' \subseteq Sockets
        /\ timers' \in [Sockets -> SUBSET {"watchdog", "tabs", "poll"}]
    BY <1>3 DEF SocketTypesOK, CloseHandler
  <2>2. held' \in [Sockets -> {"none", "on", "stopping", "off"}]
    BY <1>3, StopFacts DEF SocketTypesOK, CloseHandler
  <2>3. /\ clients' \subseteq Sockets
        /\ capture' \in Captures \union {None} /\ stopped' \in Captures \union {None}
        /\ killed' \subseteq Captures /\ overlap' \in BOOLEAN
    BY <1>3 DEF SocketTypesOK, CloseHandler, Unsubscribe
  <2> QED BY <1>3, <2>1, <2>2, <2>3 DEF SocketTypesOK, CloseHandler, kitVars
<1>4. ASSUME NEW s \in Sockets, Resolved(s)
      PROVE  SocketTypesOK'
  BY <1>4, StopFacts DEF SocketTypesOK, Resolved, handlerVars, kitVars, audioVars
<1>5. ASSUME NEW s \in Sockets, Attach(s)
      PROVE  SocketTypesOK'
  BY <1>5 DEF SocketTypesOK, Attach, handlerVars, kitVars, audioVars
<1>6. ASSUME NEW s \in Sockets, Started(s)
      PROVE  SocketTypesOK'
  BY <1>6 DEF SocketTypesOK, Started, handlerVars, kitVars, audioVars
<1>7. ASSUME NEW s \in Sockets, \E resets \in BOOLEAN : OpFails(s, resets)
      PROVE  SocketTypesOK'
  BY <1>7, CloseFacts DEF SocketTypesOK, OpFails, Reject, Fails, handlerVars, kitVars,
     audioVars
<1>8. ASSUME NEW s \in Sockets, Timeout(s)
      PROVE  SocketTypesOK'
  BY <1>8 DEF SocketTypesOK, Timeout, Reject, handlerVars, kitVars, audioVars
<1>9. ASSUME NEW s \in Sockets, \E closes \in BOOLEAN : ResetDone(s, closes)
      PROVE  SocketTypesOK'
  BY <1>9, CloseFacts, StopFacts, AllOffFacts DEF SocketTypesOK, ResetDone, Fails,
     handlerVars, kitVars, audioVars
<1>10. ASSUME NEW s \in Sockets, Casting(s)
      PROVE  SocketTypesOK'
  BY <1>10, StopFacts DEF SocketTypesOK, Casting, handlerVars, kitVars, audioVars
<1>11. ASSUME NEW s \in Sockets, \E ok \in BOOLEAN : Tabs(s, ok)
      PROVE  SocketTypesOK'
  BY <1>11, CloseFacts DEF SocketTypesOK, Tabs, Fails, handlerVars, kitVars, audioVars
<1>12. ASSUME NEW s \in Sockets, StopDone(s)
      PROVE  SocketTypesOK'
  BY <1>12 DEF SocketTypesOK, StopDone, handlerVars, kitVars, audioVars
<1>13. ASSUME NEW s \in Sockets, Frame(s)
      PROVE  SocketTypesOK'
  BY <1>13 DEF SocketTypesOK, Frame, handlerVars, kitVars, audioVars
<1>14. ASSUME NEW s \in Sockets, Stalled(s)
      PROVE  SocketTypesOK'
  BY <1>14, CloseFacts DEF SocketTypesOK, Stalled, handlerVars, kitVars, audioVars
<1>15. ASSUME NEW s \in Sockets, \E ok \in BOOLEAN : Terminal(s, ok)
      PROVE  SocketTypesOK'
  BY <1>15, CloseFacts DEF SocketTypesOK, Terminal, Fails, handlerVars, kitVars, audioVars
<1>16. ASSUME NEW s \in Sockets, ShellExits(s)
      PROVE  SocketTypesOK'
  BY <1>16 DEF SocketTypesOK, ShellExits, handlerVars, kitVars, audioVars
<1>17. ASSUME NEW s \in Sockets, Watched(s)
      PROVE  SocketTypesOK'
  BY <1>17, CloseFacts DEF SocketTypesOK, Watched, Fails, handlerVars, kitVars, audioVars
<1>18. ASSUME NEW s \in Sockets, Read(s)
      PROVE  SocketTypesOK'
  BY <1>18 DEF SocketTypesOK, Read, handlerVars, kitVars, audioVars
<1>19. ASSUME NEW s \in Sockets, Poll(s)
      PROVE  SocketTypesOK'
  BY <1>19 DEF SocketTypesOK, Poll, handlerVars, kitVars, audioVars
<1>20. ASSUME NEW s \in Sockets, \E p \in Captures : Subscribe(s, p)
      PROVE  SocketTypesOK'
  BY <1>20 DEF SocketTypesOK, Subscribe, handlerVars, kitVars, audioVars
<1>21. ASSUME NEW s \in Sockets, Refused(s)
      PROVE  SocketTypesOK'
  BY <1>21 DEF SocketTypesOK, Refused, handlerVars, kitVars, audioVars
<1>22. CASE BrowserGone
  BY <1>22, AllOffFacts DEF SocketTypesOK, BrowserGone, handlerVars, kitVars, audioVars
<1>23. ASSUME NEW p \in Captures, Dies(p)
      PROVE  SocketTypesOK'
  BY <1>23 DEF SocketTypesOK, Dies, handlerVars, kitVars, audioVars
<1>24. ASSUME NEW p \in Captures, Reap(p)
      PROVE  SocketTypesOK'
  <2>1. sock' \in [Sockets -> {"none", "open", "closing", "closed"}]
    BY <1>24, CloseFacts DEF SocketTypesOK, Reap
  <2>2. /\ capture' \in Captures \union {None} /\ stopped' \in Captures \union {None}
        /\ alarmed' \in BOOLEAN
        /\ process' \in [Captures -> {"none", "running", "dead", "reaped"}]
    BY <1>24 DEF SocketTypesOK, Reap
  <2> QED BY <1>24, <2>1, <2>2 DEF SocketTypesOK, Reap, kitVars
<1>25. CASE UNCHANGED serverVars
  BY <1>25 DEF SocketTypesOK, serverVars, handlerVars, kitVars, audioVars
<1> QED BY <1>1, <1>2, <1>3, <1>4, <1>5, <1>6, <1>7, <1>8, <1>9, <1>10, <1>11,
           <1>12, <1>13, <1>14, <1>15, <1>16, <1>17, <1>18, <1>19, <1>20, <1>21,
           <1>22, <1>23, <1>24, <1>25
       DEF SocketsNext, Kit, Browser, Audio

-----------------------------------------------------------------------------
(* The audio capture. *)

\* Steps of other sockets.
LEMMA QuietAudio ==
  ASSUME SocketTypesOK, AudioOK, UNCHANGED <<kind, audioVars>>,
         \A t \in Sockets : \/ sock'[t] = sock[t]
                            \/ sock[t] = "open" /\ sock'[t] = "closing"
                            \/ t \notin clients
  PROVE  AudioOK'
BY DEF SocketTypesOK, AudioOK, audioVars

LEMMA AudioStep ==
  ASSUME SocketTypesOK, AudioOK, [SocketsNext]_serverVars
  PROVE  AudioOK'
<1>1. ASSUME NEW s \in Sockets, Open(s)
      PROVE  AudioOK'
  BY <1>1, QuietAudio DEF SocketTypesOK, AudioOK, Open, Kinds, handlerVars, kitVars,
     audioVars
<1>2. ASSUME NEW s \in Sockets, Leave(s)
      PROVE  AudioOK'
  BY <1>2, CloseFacts, QuietAudio DEF SocketTypesOK, AudioOK, Leave, handlerVars, kitVars,
     audioVars
<1>3. ASSUME NEW s \in Sockets, CloseHandler(s)
      PROVE  AudioOK'
  <2>1. CASE kind[s] = "audio"
    <3>1. /\ clients' = clients \ {s} /\ UNCHANGED <<kind, process, alarmed>>
          /\ \A t \in Sockets \ {s} : sock'[t] = sock[t]
      BY <1>3, <2>1 DEF SocketTypesOK, CloseHandler, Unsubscribe
    <3>2. CASE clients' = {} /\ capture # None
      <4>1. /\ capture' = None /\ stopped' = capture /\ killed' = killed \union {capture}
            /\ overlap' = (overlap \/ stopped # None)
        BY <1>3, <2>1, <3>2 DEF CloseHandler, Unsubscribe
      <4>2. \A p \in killed' : process[p] # "none"
                 /\ (process[p] \in {"running", "dead"} /\ p # stopped' => overlap')
        BY <3>2, <4>1, NoneAssumption DEF SocketTypesOK, AudioOK
      <4>3. \A p \in Captures :
              process[p] \in {"running", "dead"} => p \in killed'
        BY <3>2, <4>1 DEF SocketTypesOK, AudioOK
      <4> QED BY <3>1, <3>2, <4>1, <4>2, <4>3 DEF SocketTypesOK, AudioOK
    <3>3. CASE ~(clients' = {} /\ capture # None)
      <4>1. UNCHANGED <<capture, stopped, killed, overlap>>
        BY <1>3, <2>1, <3>3 DEF CloseHandler, Unsubscribe
      <4> QED BY <3>1, <3>3, <4>1 DEF SocketTypesOK, AudioOK
    <3> QED BY <3>2, <3>3
  <2>2. CASE kind[s] # "audio"
    <3>1. s \notin clients /\ \A t \in Sockets : t # s => sock'[t] = sock[t]
      BY <1>3, <2>2 DEF SocketTypesOK, AudioOK, CloseHandler
    <3> QED BY <1>3, <2>2, <3>1, QuietAudio DEF CloseHandler, audioVars
  <2> QED BY <2>1, <2>2
<1>4. ASSUME NEW s \in Sockets, Resolved(s)
      PROVE  AudioOK'
  BY <1>4, QuietAudio DEF SocketTypesOK, AudioOK, Resolved, handlerVars, kitVars, audioVars
<1>5. ASSUME NEW s \in Sockets, Attach(s)
      PROVE  AudioOK'
  BY <1>5, QuietAudio DEF SocketTypesOK, AudioOK, Attach, handlerVars, kitVars, audioVars
<1>6. ASSUME NEW s \in Sockets, Started(s)
      PROVE  AudioOK'
  BY <1>6, QuietAudio DEF SocketTypesOK, AudioOK, Started, handlerVars, kitVars, audioVars
<1>7. ASSUME NEW s \in Sockets, \E resets \in BOOLEAN : OpFails(s, resets)
      PROVE  AudioOK'
  BY <1>7, CloseFacts, QuietAudio DEF SocketTypesOK, AudioOK, OpFails, Reject, Fails,
     handlerVars, kitVars, audioVars
<1>8. ASSUME NEW s \in Sockets, Timeout(s)
      PROVE  AudioOK'
  BY <1>8, QuietAudio DEF SocketTypesOK, AudioOK, Timeout, Reject, handlerVars, kitVars,
     audioVars
<1>9. ASSUME NEW s \in Sockets, \E closes \in BOOLEAN : ResetDone(s, closes)
      PROVE  AudioOK'
  BY <1>9, CloseFacts, QuietAudio DEF SocketTypesOK, AudioOK, ResetDone, Fails,
     handlerVars, kitVars, audioVars
<1>10. ASSUME NEW s \in Sockets, Casting(s)
      PROVE  AudioOK'
  BY <1>10, QuietAudio DEF SocketTypesOK, AudioOK, Casting, handlerVars, kitVars, audioVars
<1>11. ASSUME NEW s \in Sockets, \E ok \in BOOLEAN : Tabs(s, ok)
      PROVE  AudioOK'
  BY <1>11, CloseFacts, QuietAudio DEF SocketTypesOK, AudioOK, Tabs, Fails, handlerVars,
     kitVars, audioVars
<1>12. ASSUME NEW s \in Sockets, StopDone(s)
      PROVE  AudioOK'
  BY <1>12, QuietAudio DEF SocketTypesOK, AudioOK, StopDone, handlerVars, kitVars, audioVars
<1>13. ASSUME NEW s \in Sockets, Frame(s)
      PROVE  AudioOK'
  BY <1>13, QuietAudio DEF SocketTypesOK, AudioOK, Frame, handlerVars, kitVars, audioVars
<1>14. ASSUME NEW s \in Sockets, Stalled(s)
      PROVE  AudioOK'
  BY <1>14, CloseFacts, QuietAudio DEF SocketTypesOK, AudioOK, Stalled, handlerVars,
     kitVars, audioVars
<1>15. ASSUME NEW s \in Sockets, \E ok \in BOOLEAN : Terminal(s, ok)
      PROVE  AudioOK'
  BY <1>15, CloseFacts, QuietAudio DEF SocketTypesOK, AudioOK, Terminal, Fails,
     handlerVars, kitVars, audioVars
<1>16. ASSUME NEW s \in Sockets, ShellExits(s)
      PROVE  AudioOK'
  BY <1>16, QuietAudio DEF SocketTypesOK, AudioOK, ShellExits, handlerVars, kitVars,
     audioVars
<1>17. ASSUME NEW s \in Sockets, Watched(s)
      PROVE  AudioOK'
  BY <1>17, CloseFacts, QuietAudio DEF SocketTypesOK, AudioOK, Watched, Fails, handlerVars,
     kitVars, audioVars
<1>18. ASSUME NEW s \in Sockets, Read(s)
      PROVE  AudioOK'
  BY <1>18, QuietAudio DEF SocketTypesOK, AudioOK, Read, handlerVars, kitVars, audioVars
<1>19. ASSUME NEW s \in Sockets, Poll(s)
      PROVE  AudioOK'
  BY <1>19, QuietAudio DEF SocketTypesOK, AudioOK, Poll, handlerVars, kitVars, audioVars
<1>20. ASSUME NEW s \in Sockets, \E p \in Captures : Subscribe(s, p)
      PROVE  AudioOK'
  BY <1>20, NoneAssumption DEF SocketTypesOK, AudioOK, Subscribe, handlerVars, kitVars,
     audioVars
<1>21. ASSUME NEW s \in Sockets, Refused(s)
      PROVE  AudioOK'
  BY <1>21, QuietAudio DEF SocketTypesOK, AudioOK, Refused, handlerVars, kitVars, audioVars
<1>22. CASE BrowserGone
  BY <1>22, QuietAudio DEF BrowserGone
<1>23. ASSUME NEW p \in Captures, Dies(p)
      PROVE  AudioOK'
  BY <1>23 DEF SocketTypesOK, AudioOK, Dies, handlerVars, kitVars, audioVars
<1>24. ASSUME NEW p \in Captures, Reap(p)
      PROVE  AudioOK'
  <2>1. CASE stopped = p
    BY <1>24, <2>1, NoneAssumption DEF SocketTypesOK, AudioOK, Reap, handlerVars, kitVars,
       audioVars
  <2>2. CASE stopped # p
    <3>1. \A t \in Sockets :
            /\ sock'[t] = sock[t] \/ (sock[t] = "open" /\ sock'[t] = "closing")
            /\ t \in clients => sock'[t] # "open"
      BY <1>24, <2>2, CloseFacts DEF Reap
    <3> QED BY <1>24, <2>2, <3>1 DEF SocketTypesOK, AudioOK, Reap, handlerVars, kitVars,
           audioVars
  <2> QED BY <2>1, <2>2
<1>25. CASE UNCHANGED serverVars
  BY <1>25, QuietAudio DEF serverVars, handlerVars, kitVars, audioVars
<1> QED BY <1>1, <1>2, <1>3, <1>4, <1>5, <1>6, <1>7, <1>8, <1>9, <1>10, <1>11,
           <1>12, <1>13, <1>14, <1>15, <1>16, <1>17, <1>18, <1>19, <1>20, <1>21,
           <1>22, <1>23, <1>24, <1>25
       DEF SocketsNext, Kit, Browser, Audio

-----------------------------------------------------------------------------
(* The theorem. *)

LEMMA InitOK == SocketsInit => SocketsInv
<1> SUFFICES ASSUME SocketsInit PROVE SocketsInv
  OBVIOUS
<1>1. SocketTypesOK
  BY DEF SocketsInit, SocketTypesOK
<1>2. \A s \in Sockets : SocketOK(s)
  BY DEF SocketsInit, SocketOK, PlaceOK, OwnedOK, Closed
<1>3. AudioOK
  BY DEF SocketsInit, AudioOK
<1> QED BY <1>1, <1>2, <1>3 DEF SocketsInv

LEMMA InvGivesSocketsOK == SocketsInv => SocketsOK
<1> SUFFICES ASSUME SocketsInv PROVE SocketsOK
  OBVIOUS
<1>1. ClosedKeepsNothing
  BY DEF SocketsInv, ClosedKeepsNothing, SocketOK, PlaceOK, OwnedOK, Closed, SocketTypesOK
<1>2. OneCapture
  BY DEF SocketsInv, OneCapture, AudioOK, SocketTypesOK, Closed
<1> QED BY <1>1, <1>2 DEF SocketsInv, SocketsOK

\* Sockets of the server (index.ts, websocket.ts, browser-audio.ts): one that was
\* closed at any point of its start keeps no timer, screencast or terminal once its
\* handler is over, an open page has its watchdog, and there is one audio capture for
\* those who hear it and none else, for any number of sockets and processes.
THEOREM SocketsAlwaysOK == SocketsSpec => []SocketsOK
<1>1. SocketsInit => SocketsInv
  BY InitOK
<1>2. SocketsInv /\ [SocketsNext]_serverVars => SocketsInv'
  BY TypeStep, SocketStep, AudioStep DEF SocketsInv
<1>3. SocketsInv => SocketsOK
  BY InvGivesSocketsOK
<1> QED BY <1>1, <1>2, <1>3, PTL DEF SocketsSpec
==============================================================================
