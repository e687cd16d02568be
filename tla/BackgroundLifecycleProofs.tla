---------------------- MODULE BackgroundLifecycleProofs ----------------------
(* Theorems about BackgroundLifecycle. *)
EXTENDS BackgroundLifecycle, Integers, FiniteSetTheorems, SequenceTheorems, TLAPS

-----------------------------------------------------------------------------
(* Types. *)

Messages == {"running"} \union Final
Threads == {"none"} \union Ending \union Live

CallsOK ==
  /\ calls \in [Admins -> [op : {"none", "stop", "restart", "halt"},
                           on : SUBSET Launched, waiting : SUBSET Handles]]
  /\ \A a \in Admins : calls[a].waiting \subseteq calls[a].on

\* What a command is about remains launched.
LEMMA CallsKept ==
  ASSUME TypeOK, Launched \subseteq Launched', UNCHANGED calls
  PROVE  CallsOK'
  BY DEF TypeOK, CallsOK

LEMMA SpawnTypes ==
  ASSUME TypeOK, NEW N \in SUBSET Handles,
         NEW scriptOf \in [N -> Scripts \union {Nil}], Spawn(N, scriptOf)
  PROVE  /\ script' \in [Handles -> Scripts \union {Nil}]
         /\ status' \in [Handles -> Statuses]
         /\ thread' \in [Handles -> Threads]
         /\ Launched' = Launched \union N
  BY DEF TypeOK, Spawn, Live, Ending, Final, Launched, Statuses, Threads

LEMMA StopTypes ==
  ASSUME TypeOK, NEW a \in Admins, NEW op \in {"stop", "restart", "halt"},
         NEW H \in SUBSET workers, StopHandles(a, op, H),
         UNCHANGED <<phase, workers, script, thread>>
  PROVE  TypeOK'
  <1> DEFINE running == {h \in H : status[h] \notin Final}
  <1>1. Launched' = Launched
    BY DEF Launched
  <1>2. H \subseteq Launched /\ H \subseteq Handles
    BY DEF TypeOK, Launched
  <1>3. StopRunning(a, op, H, running) /\ running \subseteq H
    BY DEF StopHandles
  <1> HIDE DEF running
  <1>4. CallsOK'
    BY <1>1, <1>2, <1>3 DEF TypeOK, StopRunning, CallsOK
  <1>5. status' \in [Handles -> Statuses]
    BY <1>3 DEF TypeOK, StopRunning, Statuses
  <1>6. <<>> \in Seq(Messages)
    OBVIOUS
  <1>7. /\ mail' \in [Handles -> Seq(Messages)]
        /\ \A h \in Handles \ Launched' : mail'[h] = <<>>
    BY <1>1, <1>3, <1>6 DEF TypeOK, StopRunning, Messages
  <1>8. told' \subseteq Launched'
    BY <1>1, <1>2, <1>3 DEF TypeOK, StopRunning
  <1>9. QED
    BY <1>1, <1>4, <1>5, <1>7, <1>8 DEF TypeOK, CallsOK, Messages

LEMMA ReturnTypes ==
  ASSUME TypeOK, NEW a \in Admins, calls' = [calls EXCEPT ![a] = Idle],
         Launched \subseteq Launched'
  PROVE  CallsOK'
  BY DEF TypeOK, Idle, CallsOK

\* The steps of a thread.
ThreadStep(h) ==
  Loads(h) \/ Finishes(h) \/ Crashes(h) \/ Quits(h) \/ Dies(h) \/ Killed(h)

LEMMA MovesTypes ==
  ASSUME TypeOK, NEW h \in Handles, NEW from \in SUBSET (Live \union Ending),
         NEW to \in Live \union Ending,
         NEW message \in Seq(Messages), Moves(h, from, to, message)
  PROVE  TypeOK'
  <1>1. mail' \in [Handles -> Seq(Messages)]
    <2>1. mail[h] \o message \in Seq(Messages)
      BY DEF TypeOK, Messages
    <2>2. QED
      BY <2>1 DEF TypeOK, Moves, Messages
  <1>2. thread' \in [Handles -> Threads]
    BY DEF TypeOK, Moves, Threads
  <1>3. h \in Launched /\ Launched' = Launched
    BY DEF TypeOK, Moves, Live, Ending, Launched
  <1>4. \A k \in Handles \ Launched' : mail'[k] = <<>>
    BY <1>3 DEF TypeOK, Moves
  <1>5. CallsOK'
    BY <1>3, CallsKept DEF Moves
  <1>6. QED
    BY <1>1, <1>2, <1>3, <1>4, <1>5 DEF TypeOK, Moves, CallsOK, Messages, Threads

LEMMA ThreadMoves ==
  ASSUME NEW h \in Handles, ThreadStep(h)
  PROVE  \E from \in SUBSET (Live \union Ending), to \in Live \union Ending,
            message \in Seq(Messages) : Moves(h, from, to, message)
  <1> DEFINE M == Seq(Messages)
  <1>1. /\ <<"running">> \in M /\ <<"stopped">> \in M
        /\ <<"error">> \in M /\ <<>> \in M
    BY DEF Final, Messages
  <1> HIDE DEF M
  <1>2. CASE Loads(h)
    BY <1>1, <1>2 DEF Loads, Live, M
  <1>3. CASE Finishes(h)
    BY <1>1, <1>3 DEF Finishes, Live, Ending, M
  <1>4. CASE Quits(h)
    BY <1>1, <1>4 DEF Quits, Live, Ending, M
  <1>5. CASE Dies(h)
    BY <1>1, <1>5 DEF Dies, Live, Ending, M
  <1>6. CASE Killed(h)
    BY <1>1, <1>6 DEF Killed, Ending, M
  <1>7. CASE Crashes(h)
    BY <1>1, <1>7 DEF Crashes, Ending, M
  <1>8. QED
    BY <1>2, <1>3, <1>4, <1>5, <1>6, <1>7 DEF ThreadStep

LEMMA TypeStep == TypeOK /\ [Next]_vars => TypeOK'
  <1> SUFFICES ASSUME TypeOK, [Next]_vars PROVE TypeOK'
    OBVIOUS
  <1>1. CASE Boot
    <2>1. PICK N \in SUBSET Handles :
            \E f \in Bijection(N, Scripts) : Spawn(N, f) /\ workers' = N
      BY <1>1 DEF Boot
    <2>2. PICK scriptOf \in Bijection(N, Scripts) : Spawn(N, scriptOf) /\ workers' = N
      BY <2>1
    <2>3. scriptOf \in [N -> Scripts \union {Nil}]
      BY DEF Bijection, Injection
    <2>4. /\ script' \in [Handles -> Scripts \union {Nil}]
          /\ status' \in [Handles -> Statuses]
          /\ thread' \in [Handles -> Threads]
          /\ Launched' = Launched \union N
      BY <2>2, <2>3, SpawnTypes
    <2>5. CallsOK'
      BY <1>1, <2>4, CallsKept DEF Boot
    <2>6. QED
      BY <1>1, <2>2, <2>4, <2>5 DEF Boot, TypeOK, CallsOK, Threads
  <1>2. ASSUME NEW a \in Admins, Serve(a) PROVE TypeOK'
    <2>1. ASSUME NEW op \in {"stop", "restart"}, NEW target, Command(a, op, target)
          PROVE  TypeOK'
      <3>1. PICK h \in workers : StopHandles(a, op, {h})
        BY <2>1 DEF Command
      <3>2. QED
        BY <2>1, <3>1, StopTypes DEF Command
    <2>2. CASE Halt(a)
      BY <2>2, StopTypes DEF Halt
    <2>3. CASE StopReturns(a) \/ HaltReturns(a)
      <3>1. UNCHANGED <<workers, status, told, threadVars>>
        BY <2>3 DEF StopReturns, HaltReturns
      <3>2. Launched' = Launched
        BY <3>1 DEF Launched, threadVars
      <3>3. CallsOK' /\ phase' \in {"off", "booting", "up", "over"}
        BY <2>3, <3>2, ReturnTypes DEF StopReturns, HaltReturns, TypeOK
      <3>4. QED
        BY <3>1, <3>2, <3>3 DEF TypeOK, CallsOK, threadVars
    <2>4. CASE RestartReturns(a)
      <3>0. PICK h \in calls[a].on :
              \E new \in Handles : /\ Spawn({new}, [n \in {new} |-> script[h]])
                                   /\ workers' = (workers \ {h}) \union {new}
        BY <2>4 DEF RestartReturns
      <3>1. PICK new \in Handles : /\ Spawn({new}, [n \in {new} |-> script[h]])
                                   /\ workers' = (workers \ {h}) \union {new}
        BY <3>0
      <3>2. script[h] \in Scripts \union {Nil}
        BY DEF TypeOK, Launched
      <3>3. [n \in {new} |-> script[h]] \in [{new} -> Scripts \union {Nil}]
        BY <3>2
      <3>4. CallsOK'
        BY <2>4, <3>1, <3>3, SpawnTypes, ReturnTypes DEF RestartReturns
      <3>5. /\ script' \in [Handles -> Scripts \union {Nil}]
            /\ status' \in [Handles -> Statuses]
            /\ thread' \in [Handles -> Threads]
            /\ Launched' = Launched \union {new}
        BY <3>1, <3>3, SpawnTypes
      <3>6. QED
        BY <2>4, <3>1, <3>4, <3>5 DEF RestartReturns, TypeOK, CallsOK, Threads
    <2>5. ASSUME NEW h \in Handles, StopRecorded(a, h) PROVE TypeOK'
      <3>1. Launched' = Launched
        BY <2>5 DEF StopRecorded, Launched, threadVars
      <3>2. status' \in [Handles -> Statuses]
        BY <2>5 DEF StopRecorded, TypeOK, Statuses, Final
      <3>3. CallsOK'
        BY <2>5, <3>1 DEF StopRecorded, TypeOK, CallsOK
      <3>4. QED
        BY <2>5, <3>1, <3>2, <3>3 DEF StopRecorded, TypeOK, CallsOK, threadVars
    <2>6. QED
      BY <1>2, <2>1, <2>2, <2>3, <2>4, <2>5 DEF Serve
  <1>3. ASSUME NEW h \in Handles, Work(h) PROVE TypeOK'
    <2>1. CASE ThreadStep(h)
      BY <2>1, ThreadMoves, MovesTypes
    <2>2. CASE Deliver(h)
      <3>1. mail[h] \in Seq(Messages) /\ mail[h] # <<>>
        BY <2>2 DEF Deliver, TypeOK, Messages
      <3>2. Head(mail[h]) \in Messages /\ Tail(mail[h]) \in Seq(Messages)
        BY <3>1
      <3>3. h \in Launched /\ Launched' = Launched
        BY <2>2, <3>1 DEF Deliver, Launched, TypeOK
      <3>4. CallsOK'
        BY <2>2, <3>3, CallsKept DEF Deliver
      <3>5. QED
        BY <2>2, <3>2, <3>3, <3>4 DEF Deliver, TypeOK, CallsOK, Messages, Statuses
    <2>3. CASE Unreadable(h)
      <3>1. Launched' = Launched
        BY <2>3 DEF Unreadable, Launched, threadVars
      <3>2. QED
        BY <2>3, <3>1, CallsKept
        DEF Unreadable, TypeOK, CallsOK, threadVars, Final, Statuses
    <2>4. QED
      BY <1>3, <2>1, <2>2, <2>3 DEF Work, ThreadStep
  <1>4. CASE Start \/ BootFails \/ UNCHANGED vars
    <2>1. UNCHANGED <<workers, status, told, calls, threadVars>>
      BY <1>4 DEF Start, BootFails, vars
    <2>2. Launched' = Launched
      BY <2>1 DEF threadVars, Launched
    <2>3. phase' \in {"off", "booting", "up", "over"}
      BY <1>4 DEF Start, BootFails, vars, TypeOK
    <2>4. QED
      BY <2>1, <2>2, <2>3 DEF threadVars, TypeOK
  <1>5. QED
    BY <1>1, <1>2, <1>3, <1>4 DEF Next

LEMMA TypeInit == Init => TypeOK
  BY DEF Init, TypeOK, Idle, Final, Live, Ending, Launched, Statuses

\* Every variable keeps its type, whatever commands, threads and faults do.
THEOREM LifecycleTypeCorrect == Spec => []TypeOK
  BY TypeInit, TypeStep, PTL DEF Spec

-----------------------------------------------------------------------------
(* What is reported of a worker that ended.  Its last message, or its status if   *)
(* none is left, says that it ended; of one that was told to end nothing is heard *)
(* any more, and its status says so unless a command is about to record it.       *)

Gone == {"dead", "ending", "lingering"}

Reported(h) ==
  /\ h \in told => mail[h] = <<>> /\ (Awaited(h) \/ status[h] \in Final)
  /\ thread[h] \in Gone /\ h \notin told /\ script[h] \notin Quitting =>
       /\ mail[h] # <<>> => mail[h][Len(mail[h])] \in Final
       /\ mail[h] = <<>> => status[h] \in Final
ReportInv == \A h \in Handles : Reported(h)

\* A thread that ends without being told to says so, unless it quits, and one that
\* lingers has said so.
LEMMA ThreadReported ==
  ASSUME TypeOK, ReportInv, NEW h \in Handles, ThreadStep(h)
  PROVE  ReportInv'
  <1>1. SUFFICES ASSUME NEW k \in Handles PROVE Reported(k)'
    BY DEF ReportInv
  <1>2. Reported(k) /\ mail[k] \in Seq(Messages)
    BY DEF ReportInv, TypeOK, Messages
  <1>3. /\ UNCHANGED <<script, status, told, calls>>
        /\ h \in told => mail'[h] = mail[h]
        /\ k # h => thread'[k] = thread[k] /\ mail'[k] = mail[k]
    BY DEF ThreadStep, Loads, Finishes, Crashes, Quits, Dies, Killed, Moves, TypeOK
  <1>4. Awaited(k)' = Awaited(k)
    BY <1>3 DEF Awaited
  <1>5. CASE k # h
    BY <1>2, <1>3, <1>4, <1>5 DEF Reported
  <1>6. CASE k = h /\ h \in told
    BY <1>2, <1>3, <1>4, <1>6 DEF Reported
  <1>7. CASE k = h /\ h \notin told /\ Loads(h)
    BY <1>3, <1>7 DEF Loads, Moves, Reported, Gone, TypeOK
  <1>8. CASE k = h /\ h \notin told /\ (Quits(h) \/ Killed(h))
    BY <1>3, <1>8 DEF Quits, Killed, Moves, Reported
  <1>9. CASE k = h /\ h \notin told /\ Dies(h)
    <2>1. thread[h] \in Gone /\ mail'[h] = mail[h]
      BY <1>2, <1>9 DEF Dies, Moves, Gone, TypeOK
    <2>2. QED
      BY <1>2, <1>3, <1>9, <2>1 DEF Reported
  <1>10. CASE k = h /\ h \notin told /\ (Finishes(h) \/ Crashes(h))
    <2>1. PICK m \in {"stopped", "error"} : mail'[h] = mail[h] \o <<m>>
      BY <1>10 DEF Finishes, Crashes, Moves, TypeOK
    <2>2. mail'[h] # <<>> /\ mail'[h][Len(mail'[h])] = m
      BY <1>2, <1>10, <2>1
    <2>3. QED
      BY <1>3, <1>10, <2>2 DEF Reported, Final
  <1>11. QED
    BY <1>5, <1>6, <1>7, <1>8, <1>9, <1>10 DEF ThreadStep

\* A command tells the workers to end that are not known to have ended, and goes on to
\* record it.
LEMMA StopReported ==
  ASSUME TypeOK, ReportInv, NEW a \in Admins, NEW op, NEW H \in SUBSET Handles,
         calls[a] = Idle, StopHandles(a, op, H), UNCHANGED <<script, thread>>
  PROVE  ReportInv'
  <1>1. SUFFICES ASSUME NEW k \in Handles PROVE Reported(k)'
    BY DEF ReportInv
  <1> DEFINE running == {h \in H : status[h] \notin Final}
  <1>2. /\ calls' = [calls EXCEPT ![a] = [op |-> op, on |-> H, waiting |-> running]]
        /\ told' = told \union running
        /\ k \in running => mail'[k] = <<>>
        /\ k \notin running => status'[k] = status[k] /\ mail'[k] = mail[k]
    BY DEF StopHandles, StopRunning
  <1>3. calls \in [Admins -> [op : {"none", "stop", "restart", "halt"},
                              on : SUBSET Launched, waiting : SUBSET Handles]]
    BY DEF TypeOK
  <1>4. calls'[a].waiting = running /\ \A b \in Admins \ {a} : calls'[b] = calls[b]
    BY <1>2, <1>3
  <1>5. Awaited(k) \/ k \in running => Awaited(k)'
    BY <1>4 DEF Awaited, Idle
  <1>6. Reported(k)
    BY DEF ReportInv
  <1> HIDE DEF running
  <1>7. QED
    BY <1>2, <1>5, <1>6 DEF Reported

LEMMA SpawnReported ==
  ASSUME TypeOK, ReportInv, NEW N \in SUBSET Handles, NEW scriptOf,
         Spawn(N, scriptOf), UNCHANGED <<mail, told>>,
         \A k \in Handles : Awaited(k) => Awaited(k)'
  PROVE  ReportInv'
  <1>1. SUFFICES ASSUME NEW k \in Handles PROVE Reported(k)'
    BY DEF ReportInv
  <1>2. CASE k \in N
    <2>1. k \notin told /\ thread'[k] = "loading"
      BY <1>2 DEF Spawn, TypeOK, Launched
    <2>2. QED
      BY <2>1 DEF Reported, Gone
  <1>3. CASE k \notin N
    <2>1. script'[k] = script[k] /\ status'[k] = status[k] /\ thread'[k] = thread[k]
      BY <1>3 DEF Spawn
    <2>2. QED
      BY <2>1 DEF ReportInv, Reported
  <1>4. QED
    BY <1>2, <1>3

\* A command that is done awaits nothing.
LEMMA ReadyAwaited ==
  ASSUME TypeOK, NEW a \in Admins, NEW op, Ready(a, op),
         calls' = [calls EXCEPT ![a] = Idle]
  PROVE  \A k \in Handles : Awaited(k) => Awaited(k)'
  BY DEF TypeOK, Ready, Awaited, Idle

LEMMA ReportStep == TypeOK /\ ReportInv /\ [Next]_vars => ReportInv'
  <1> SUFFICES ASSUME TypeOK, ReportInv, [Next]_vars PROVE ReportInv'
    OBVIOUS
  <1>1. CASE Boot
    <2>1. PICK N \in SUBSET Handles :
            \E f \in Bijection(N, Scripts) : Spawn(N, f) /\ workers' = N
      BY <1>1 DEF Boot
    <2>2. PICK scriptOf \in Bijection(N, Scripts) : Spawn(N, scriptOf)
      BY <2>1
    <2>3. UNCHANGED <<mail, told, calls>>
      BY <1>1 DEF Boot
    <2>4. QED
      BY <2>2, <2>3, SpawnReported DEF Awaited
  <1>2. ASSUME NEW a \in Admins, Serve(a) PROVE ReportInv'
    <2>1. ASSUME NEW op \in {"stop", "restart"}, NEW target, Command(a, op, target)
          PROVE  ReportInv'
      <3>1. PICK h \in workers : StopHandles(a, op, {h})
        BY <2>1 DEF Command
      <3>2. {h} \in SUBSET Handles
        BY DEF TypeOK, Launched
      <3>3. QED
        BY <2>1, <3>1, <3>2, StopReported DEF Command
    <2>2. CASE Halt(a)
      BY <2>2, StopReported DEF Halt, TypeOK, Launched
    <2>3. CASE StopReturns(a) \/ HaltReturns(a)
      <3>1. /\ UNCHANGED <<script, thread, mail, status, told>>
            /\ \A k \in Handles : Awaited(k) => Awaited(k)'
        BY <2>3, ReadyAwaited DEF StopReturns, HaltReturns, threadVars
      <3>2. QED
        BY <3>1 DEF ReportInv, Reported
    <2>4. CASE RestartReturns(a)
      <3>1. PICK h \in calls[a].on, new \in Handles :
              Spawn({new}, [n \in {new} |-> script[h]])
        BY <2>4 DEF RestartReturns
      <3>2. \A k \in Handles : Awaited(k) => Awaited(k)'
        BY <2>4, ReadyAwaited DEF RestartReturns
      <3>3. QED
        BY <2>4, <3>1, <3>2, SpawnReported DEF RestartReturns
    <2>5. ASSUME NEW h \in Handles, StopRecorded(a, h) PROVE ReportInv'
      <3>1. /\ UNCHANGED <<script, thread, mail, told>>
            /\ status'[h] = "stopped"
            /\ \A k \in Handles \ {h} : status'[k] = status[k]
        BY <2>5 DEF StopRecorded, TypeOK, threadVars
      <3>2. \A k \in Handles \ {h} : Awaited(k) => Awaited(k)'
        BY <2>5 DEF StopRecorded, TypeOK, Awaited
      <3>3. QED
        BY <3>1, <3>2 DEF ReportInv, Reported, Final
    <2>6. QED
      BY <1>2, <2>1, <2>2, <2>3, <2>4, <2>5 DEF Serve
  <1>3. ASSUME NEW h \in Handles, Work(h) PROVE ReportInv'
    <2>1. CASE ThreadStep(h)
      BY <2>1, ThreadReported
    <2>2. CASE Deliver(h)
      <3>1. mail[h] \in Seq(Messages) /\ mail[h] # <<>>
        BY <2>2 DEF Deliver, TypeOK, Messages
      <3>2. /\ status'[h] = Head(mail[h]) /\ mail'[h] = Tail(mail[h])
            /\ \A k \in Handles \ {h} : status'[k] = status[k] /\ mail'[k] = mail[k]
            /\ UNCHANGED <<thread, script, told, calls>>
        BY <2>2 DEF Deliver, TypeOK
      <3>3. Tail(mail[h]) = <<>> => Head(mail[h]) = mail[h][Len(mail[h])]
        <4>1. Len(Tail(mail[h])) = Len(mail[h]) - 1 /\ Len(mail[h]) \in Nat
          BY <3>1
        <4>2. Head(mail[h]) = mail[h][1]
          BY <3>1
        <4>3. Tail(mail[h]) = <<>> => Len(Tail(mail[h])) = 0
          BY <3>1, EmptySeq, Tail(mail[h]) \in Seq(Messages)
        <4>4. Tail(mail[h]) = <<>> => Len(mail[h]) = 1
          BY <4>1, <4>3
        <4>5. QED
          BY <4>2, <4>4
      <3>4. Tail(mail[h]) # <<>> =>
              Tail(mail[h])[Len(Tail(mail[h]))] = mail[h][Len(mail[h])]
        BY <3>1
      <3>5. h \notin told
        BY <3>1 DEF ReportInv, Reported
      <3>6. Reported(h)'
        BY <3>1, <3>2, <3>3, <3>4, <3>5 DEF ReportInv, Reported
      <3>7. QED
        BY <3>2, <3>6 DEF ReportInv, Reported, Awaited
    <2>3. CASE Unreadable(h)
      BY <2>3 DEF Unreadable, ReportInv, Reported, TypeOK, Awaited, threadVars, Final
    <2>4. QED
      BY <1>3, <2>1, <2>2, <2>3 DEF Work, ThreadStep
  <1>4. CASE Start \/ BootFails \/ UNCHANGED vars
    <2>1. UNCHANGED <<status, told, calls, threadVars>>
      BY <1>4 DEF Start, BootFails, vars
    <2>2. QED
      BY <2>1 DEF threadVars, ReportInv, Reported, Awaited
  <1>5. QED
    BY <1>1, <1>2, <1>3, <1>4 DEF Next

LEMMA ReportInit == Init => ReportInv
  BY DEF Init, ReportInv, Reported, Gone

\* A worker whose thread is dead is reported as ended once its messages are delivered
\* and no command is at work on it, unless its script may exit by itself.
THEOREM DeathIsReported == Spec => []DeadIsReported
  <1>1. ReportInv => DeadIsReported
    BY DEF ReportInv, Reported, DeadIsReported, Gone
  <1>2. QED
    BY <1>1, ReportInit, ReportStep, LifecycleTypeCorrect, PTL DEF Spec

-----------------------------------------------------------------------------
(* What a command may rely on for a script without faults.  A worker that is      *)
(* reported as ended, or about to be, is not left to itself, and neither is one   *)
(* that a command is about.                                                       *)

Heard(h) ==
  /\ thread[h] # "lingering"
  /\ status[h] \in Final => ~Going(h) /\ mail[h] = <<>>
  /\ \A i \in 1 .. Len(mail[h]) :
       mail[h][i] \in Final => ~Going(h) /\ i = Len(mail[h])
Handled(a, h) ==
  /\ ~Going(h) /\ mail[h] = <<>>
  /\ h \notin calls[a].waiting => status[h] \in Final

EndInv ==
  /\ \A h \in Handles : script[h] \notin Faulty => Heard(h)
  /\ \A a \in Admins : \A h \in calls[a].on : script[h] \notin Faulty => Handled(a, h)

\* A worker of which all this holds is silent from the moment it has ended.
LEMMA ThreadHeard ==
  ASSUME TypeOK, NEW h \in Handles, script[h] \notin Faulty, Heard(h), ThreadStep(h)
  PROVE  /\ Heard(h)'
         /\ ~Going(h) => ~Going(h)' /\ mail'[h] = mail[h]
         /\ status'[h] = status[h]
  <1>1. /\ mail[h] \in Seq(Messages)
        /\ UNCHANGED <<script, status, told, calls>>
    BY DEF ThreadStep, Loads, Finishes, Crashes, Quits, Dies, Killed, Moves, TypeOK,
           Messages
  <1>2. CASE h \in told
    <2>1. mail' = mail /\ ~Going(h) /\ ~Going(h)'
      BY <1>1, <1>2
      DEF ThreadStep, Loads, Finishes, Crashes, Quits, Dies, Killed, Moves, Going
    <2>2. thread'[h] # "lingering"
      BY DEF ThreadStep, Loads, Finishes, Crashes, Quits, Dies, Killed, Moves, TypeOK,
             Faulty
    <2>3. QED
      BY <1>1, <2>1, <2>2 DEF Heard
  <1>3. CASE h \notin told /\ Dies(h)
    <2>1. thread'[h] = "dead" /\ mail'[h] = mail[h] \o <<>>
      BY <1>3 DEF Dies, Moves, TypeOK
    <2>2. mail'[h] = mail[h]
      BY <1>1, <2>1
    <2>3. QED
      BY <1>1, <2>1, <2>2 DEF Heard, Going, Live
  <1>4. CASE h \notin told /\ (Quits(h) \/ Killed(h))
    <2>1. thread'[h] = "dead" /\ mail'[h] = mail[h] \o <<>>
      BY <1>4 DEF Quits, Killed, Moves, TypeOK
    <2>2. mail'[h] = mail[h]
      BY <1>1, <2>1
    <2>3. QED
      BY <1>1, <2>1, <2>2 DEF Heard, Going, Live
  <1>5. CASE h \notin told /\ (Loads(h) \/ Finishes(h) \/ Crashes(h))
    <2>1. Going(h)
      BY <1>5 DEF Loads, Finishes, Crashes, Moves, Going, Live
    <2>2. PICK m \in Messages : mail'[h] = mail[h] \o <<m>>
      BY <1>5 DEF Loads, Finishes, Crashes, Moves, TypeOK, Messages, Final
    <2>3. status[h] \notin Final /\ \A i \in 1 .. Len(mail[h]) : mail[h][i] \notin Final
      BY <2>1 DEF Heard
    <2>4. /\ Len(mail'[h]) = Len(mail[h]) + 1
          /\ \A i \in 1 .. Len(mail[h]) : mail'[h][i] = mail[h][i]
          /\ mail'[h][Len(mail[h]) + 1] = m
      BY <1>1, <2>2
    <2>5. m \in Final => thread'[h] = "ending"
      <3>1. CASE Loads(h)
        <4>1. mail'[h] = mail[h] \o <<"running">>
          BY <1>5, <3>1 DEF Loads, Moves, TypeOK
        <4>2. m = "running"
          BY <1>1, <2>2, <4>1
        <4>3. QED
          BY <4>2 DEF Final
      <3>2. CASE Finishes(h) \/ Crashes(h)
        BY <3>2 DEF Finishes, Crashes, Moves, TypeOK, Faulty
      <3>3. QED
        BY <1>5, <3>1, <3>2
    <2>6. ASSUME NEW i \in 1 .. Len(mail'[h]), mail'[h][i] \in Final
          PROVE  ~Going(h)' /\ i = Len(mail'[h])
      <3>1. i = Len(mail[h]) + 1
        BY <1>1, <2>3, <2>4, <2>6
      <3>2. QED
        BY <2>4, <2>5, <2>6, <3>1 DEF Going, Live
    <2>7. thread'[h] # "lingering"
      BY <1>5 DEF Loads, Finishes, Crashes, Moves, TypeOK, Faulty
    <2>8. Heard(h)'
      BY <1>1, <2>3, <2>6, <2>7 DEF Heard
    <2>9. QED
      BY <1>1, <2>1, <2>8
  <1>6. QED
    BY <1>2, <1>3, <1>4, <1>5 DEF ThreadStep

LEMMA ThreadEnd ==
  ASSUME TypeOK, EndInv, NEW h \in Handles, ThreadStep(h)
  PROVE  EndInv'
  <1>1. /\ UNCHANGED <<script, status, told, calls>>
        /\ \A k \in Handles \ {h} : mail'[k] = mail[k] /\ thread'[k] = thread[k]
    BY DEF ThreadStep, Loads, Finishes, Crashes, Quits, Dies, Killed, Moves, TypeOK
  <1>2. script[h] \notin Faulty =>
          /\ Heard(h)'
          /\ ~Going(h) => ~Going(h)' /\ mail'[h] = mail[h]
    BY ThreadHeard DEF EndInv
  <1>3. \A k \in Handles : script'[k] \notin Faulty => Heard(k)'
    BY <1>1, <1>2 DEF EndInv, Heard, Going
  <1>4. ASSUME NEW a \in Admins, NEW k \in calls'[a].on, script'[k] \notin Faulty
        PROVE  Handled(a, k)'
    <2>1. Handled(a, k) /\ k \in Handles
      BY <1>1, <1>4 DEF EndInv, TypeOK, Launched
    <2>2. QED
      BY <1>1, <1>2, <1>4, <2>1 DEF Handled, Going
  <1>5. QED
    BY <1>3, <1>4 DEF EndInv

LEMMA StopEnd ==
  ASSUME TypeOK, EndInv, NEW a \in Admins, NEW op, NEW H \in SUBSET Handles,
         StopHandles(a, op, H), UNCHANGED <<script, thread>>
  PROVE  EndInv'
  <1> DEFINE running == {h \in H : status[h] \notin Final}
  <1>1. /\ calls' = [calls EXCEPT ![a] = [op |-> op, on |-> H, waiting |-> running]]
        /\ told' = told \union running
        /\ \A h \in Handles \ running : status'[h] = status[h] /\ mail'[h] = mail[h]
        /\ \A h \in running : status'[h] = "stopping" /\ mail'[h] = <<>>
    BY DEF StopHandles, StopRunning
  <1>2. /\ calls'[a].on = H /\ calls'[a].waiting = running
        /\ \A b \in Admins \ {a} : calls'[b] = calls[b]
    BY <1>1 DEF TypeOK
  <1>3. \A h \in H \ running : status[h] \in Final
    OBVIOUS
  <1>4. \A h \in running : status[h] \notin Final
    OBVIOUS
  <1> HIDE DEF running
  <1>5. ASSUME NEW h \in Handles, script'[h] \notin Faulty PROVE Heard(h)'
    <2>1. Heard(h)
      BY <1>5 DEF EndInv
    <2>2. CASE h \in running
      <3>1. mail'[h] = <<>> /\ status'[h] \notin Final
        BY <1>1, <2>2 DEF Final
      <3>2. QED
        BY <2>1, <3>1 DEF Heard
    <2>3. CASE h \notin running
      BY <1>1, <2>1, <2>3 DEF Heard, Going
    <2>4. QED
      BY <2>2, <2>3
  <1>6. ASSUME NEW b \in Admins, NEW h \in calls'[b].on, script'[h] \notin Faulty
        PROVE  Handled(b, h)'
    <2>0. h \in Handles
      BY <1>2, <1>6 DEF TypeOK, Launched
    <2>1. CASE h \in running
      <3>1. mail'[h] = <<>> /\ ~Going(h)'
        BY <1>1, <2>1 DEF Going
      <3>2. h \notin calls'[b].waiting => status'[h] \in Final
        <4>1. CASE b = a
          BY <1>2, <2>1, <4>1
        <4>2. CASE b # a
          BY <1>2, <1>4, <1>6, <2>1, <4>2 DEF EndInv, Handled
        <4>3. QED
          BY <4>1, <4>2
      <3>3. QED
        BY <3>1, <3>2 DEF Handled
    <2>2. CASE h \notin running /\ b = a
      <3>1. Heard(h) /\ status[h] \in Final
        BY <1>2, <1>3, <1>6, <2>0, <2>2 DEF EndInv
      <3>2. QED
        BY <1>1, <2>0, <2>2, <3>1 DEF Heard, Handled, Going
    <2>3. CASE h \notin running /\ b # a
      <3>1. Handled(b, h) /\ calls'[b] = calls[b]
        BY <1>2, <1>6, <2>3 DEF EndInv
      <3>2. QED
        BY <1>1, <2>0, <2>3, <3>1 DEF Handled, Going
    <2>4. QED
      BY <2>1, <2>2, <2>3
  <1>7. QED
    BY <1>5, <1>6 DEF EndInv

LEMMA SpawnEnd ==
  ASSUME TypeOK, EndInv, NEW N \in SUBSET Handles, NEW scriptOf,
         Spawn(N, scriptOf), UNCHANGED <<mail, told>>,
         \A a \in Admins : calls'[a] \in {calls[a], Idle}
  PROVE  EndInv'
  <1>1. /\ N \intersect Launched = {}
        /\ \A h \in Handles \ N : /\ script'[h] = script[h] /\ status'[h] = status[h]
                                  /\ thread'[h] = thread[h]
        /\ \A h \in N : /\ status'[h] = "starting" /\ mail'[h] = <<>>
                        /\ thread'[h] = "loading"
    BY DEF Spawn, Launched, TypeOK
  <1>2. ASSUME NEW h \in Handles, script'[h] \notin Faulty PROVE Heard(h)'
    <2>1. CASE h \in N
      BY <1>1, <2>1 DEF Heard, Final
    <2>2. CASE h \notin N
      BY <1>1, <1>2, <2>2 DEF EndInv, Heard, Going
    <2>3. QED
      BY <2>1, <2>2
  <1>3. ASSUME NEW a \in Admins, NEW h \in calls'[a].on, script'[h] \notin Faulty
        PROVE  Handled(a, h)'
    <2>1. calls'[a] = calls[a]
      BY <1>3 DEF Idle
    <2>2. h \in Launched /\ h \in Handles \ N
      BY <1>1, <1>3, <2>1 DEF TypeOK, Launched
    <2>3. Handled(a, h)
      BY <1>1, <1>3, <2>1, <2>2 DEF EndInv
    <2>4. QED
      BY <1>1, <2>1, <2>2, <2>3 DEF Handled, Going
  <1>4. QED
    BY <1>2, <1>3 DEF EndInv

LEMMA EndStep == TypeOK /\ EndInv /\ [Next]_vars => EndInv'
  <1> SUFFICES ASSUME TypeOK, EndInv, [Next]_vars PROVE EndInv'
    OBVIOUS
  <1>1. CASE Boot
    <2>1. PICK N \in SUBSET Handles :
            \E f \in Bijection(N, Scripts) : Spawn(N, f) /\ workers' = N
      BY <1>1 DEF Boot
    <2>2. PICK scriptOf \in Bijection(N, Scripts) : Spawn(N, scriptOf)
      BY <2>1
    <2>3. QED
      BY <1>1, <2>2, SpawnEnd DEF Boot
  <1>2. ASSUME NEW a \in Admins, Serve(a) PROVE EndInv'
    <2>1. ASSUME NEW op \in {"stop", "restart"}, NEW target, Command(a, op, target)
          PROVE  EndInv'
      <3>1. PICK h \in workers : StopHandles(a, op, {h})
        BY <2>1 DEF Command
      <3>2. {h} \in SUBSET Handles
        BY DEF TypeOK, Launched
      <3>3. QED
        BY <2>1, <3>1, <3>2, StopEnd DEF Command
    <2>2. CASE Halt(a)
      BY <2>2, StopEnd DEF Halt, TypeOK, Launched
    <2>3. CASE StopReturns(a) \/ HaltReturns(a)
      <3>1. /\ UNCHANGED <<script, thread, mail, status, told>>
            /\ calls' = [calls EXCEPT ![a] = Idle]
        BY <2>3 DEF StopReturns, HaltReturns, threadVars
      <3>2. \A b \in Admins : calls'[b] \in {calls[b], Idle}
        BY <3>1 DEF TypeOK
      <3>3. \A b \in Admins : \A h \in calls'[b].on :
              h \in calls[b].on /\ calls'[b] = calls[b]
        BY <3>2 DEF Idle
      <3>4. QED
        BY <3>1, <3>3 DEF EndInv, Heard, Handled, Going
    <2>4. CASE RestartReturns(a)
      <3>1. PICK h \in calls[a].on, new \in Handles :
              Spawn({new}, [n \in {new} |-> script[h]])
        BY <2>4 DEF RestartReturns
      <3>2. \A b \in Admins : calls'[b] \in {calls[b], Idle}
        BY <2>4 DEF RestartReturns, TypeOK
      <3>3. QED
        BY <2>4, <3>1, <3>2, SpawnEnd DEF RestartReturns
    <2>5. ASSUME NEW h \in Handles, StopRecorded(a, h) PROVE EndInv'
      <3>1. /\ UNCHANGED <<script, thread, mail, told>>
            /\ status'[h] = "stopped" /\ h \in calls[a].on
            /\ \A k \in Handles \ {h} : status'[k] = status[k]
            /\ \A b \in Admins : /\ calls'[b].on = calls[b].on
                                 /\ calls[b].waiting \ {h} \subseteq calls'[b].waiting
        BY <2>5 DEF StopRecorded, TypeOK, threadVars
      <3>2. ASSUME NEW k \in Handles, script[k] \notin Faulty PROVE Heard(k)'
        BY <3>1, <3>2 DEF EndInv, Heard, Handled, Going
      <3>3. ASSUME NEW b \in Admins, NEW k \in calls[b].on, script[k] \notin Faulty
            PROVE  Handled(b, k)'
        <4>1. Handled(b, k) /\ k \in Handles
          BY <3>3 DEF EndInv, TypeOK, Launched
        <4>2. QED
          BY <3>1, <4>1 DEF Handled, Going, Final
      <3>4. QED
        BY <3>1, <3>2, <3>3 DEF EndInv
    <2>6. QED
      BY <1>2, <2>1, <2>2, <2>3, <2>4, <2>5 DEF Serve
  <1>3. ASSUME NEW h \in Handles, Work(h) PROVE EndInv'
    <2>1. CASE ThreadStep(h)
      BY <2>1, ThreadEnd
    <2>2. CASE Deliver(h)
      <3>1. mail[h] \in Seq(Messages) /\ mail[h] # <<>>
        BY <2>2 DEF Deliver, TypeOK, Messages
      <3>2. /\ status'[h] = Head(mail[h]) /\ mail'[h] = Tail(mail[h])
            /\ \A k \in Handles \ {h} : status'[k] = status[k] /\ mail'[k] = mail[k]
            /\ UNCHANGED <<script, thread, told, calls>>
            /\ \A a \in Admins : calls[a].on = {}
        BY <2>2 DEF Deliver, TypeOK, NoCommand, Idle
      <3>3. /\ Head(mail[h]) = mail[h][1] /\ 1 \in 1 .. Len(mail[h])
            /\ Tail(mail[h]) \in Seq(Messages)
            /\ Len(Tail(mail[h])) = Len(mail[h]) - 1 /\ Len(mail[h]) \in Nat
        BY <3>1
      <3>4. \A i \in 1 .. Len(Tail(mail[h])) :
              i + 1 \in 1 .. Len(mail[h]) /\ Tail(mail[h])[i] = mail[h][i + 1]
        BY <3>1
      <3>5. ASSUME script[h] \notin Faulty PROVE Heard(h)'
        <4>1. Heard(h)
          BY <3>5 DEF EndInv
        <4>2. ASSUME Head(mail[h]) \in Final PROVE ~Going(h)' /\ Tail(mail[h]) = <<>>
          <5>1. ~Going(h) /\ Len(mail[h]) = 1
            BY <3>3, <4>1, <4>2 DEF Heard
          <5>2. ~Going(h)'
            BY <3>2, <5>1 DEF Going
          <5>3. Len(Tail(mail[h])) = 0
            BY <3>3, <5>1
          <5>4. Tail(mail[h]) = <<>>
            BY <3>3, <5>3, EmptySeq
          <5>5. QED
            BY <5>2, <5>4
        <4>3. ASSUME NEW i \in 1 .. Len(Tail(mail[h])), Tail(mail[h])[i] \in Final
              PROVE  ~Going(h)' /\ i = Len(Tail(mail[h]))
          <5>1. i + 1 \in 1 .. Len(mail[h]) /\ mail[h][i + 1] \in Final
            BY <3>4, <4>3
          <5>2. ~Going(h) /\ i + 1 = Len(mail[h])
            BY <4>1, <5>1 DEF Heard
          <5>3. QED
            BY <3>2, <3>3, <5>2 DEF Going
        <4>4. QED
          BY <3>2, <4>1, <4>2, <4>3 DEF Heard
      <3>6. \A k \in Handles : script'[k] \notin Faulty => Heard(k)'
        BY <3>2, <3>5 DEF EndInv, Heard, Going
      <3>7. QED
        BY <3>2, <3>6 DEF EndInv
    <2>3. CASE Unreadable(h)
      <3>1. /\ UNCHANGED <<script, thread, mail, told, calls>> /\ script[h] \in Faulty
            /\ \A k \in Handles \ {h} : status'[k] = status[k]
            /\ \A a \in Admins : calls[a].on = {}
        BY <2>3 DEF Unreadable, Faulty, TypeOK, threadVars, NoCommand, Idle
      <3>2. \A k \in Handles : script'[k] \notin Faulty => Heard(k)'
        BY <3>1 DEF EndInv, Heard, Going
      <3>3. QED
        BY <3>1, <3>2 DEF EndInv
    <2>4. QED
      BY <1>3, <2>1, <2>2, <2>3 DEF Work, ThreadStep
  <1>4. CASE Start \/ BootFails \/ UNCHANGED vars
    <2>1. UNCHANGED <<status, told, calls, threadVars>>
      BY <1>4 DEF Start, BootFails, vars
    <2>2. QED
      BY <2>1 DEF threadVars, EndInv, Heard, Handled, Going
  <1>5. QED
    BY <1>1, <1>2, <1>3, <1>4 DEF Next

LEMMA EndInit == Init => EndInv
  BY DEF Init, EndInv, Heard, Final, Idle

\* Only the ends of stop and stopWorker make a caller return.
LEMMA OnlyReturns ==
  ASSUME TypeOK, [Next]_vars, NEW a \in Admins, Returns(a)
  PROVE  StopReturns(a) \/ HaltReturns(a)
  <1>1. calls[a] # Idle /\ calls'[a] # calls[a] /\ calls'[a].op = "none"
    BY DEF Returns, Idle
  <1>2. ~(Start \/ Boot \/ BootFails) /\ ~UNCHANGED vars
    BY <1>1 DEF Start, Boot, BootFails, vars
  <1>3. \A h \in Handles : ~Work(h)
    BY <1>1 DEF Work, Loads, Finishes, Crashes, Quits, Dies, Killed, Moves, Deliver,
                Unreadable
  <1>4. PICK b \in Admins : Serve(b)
    BY <1>2, <1>3 DEF Next
  <1>5. ASSUME NEW op \in {"stop", "restart"}, NEW target, Command(b, op, target)
        PROVE  FALSE
    BY <1>1, <1>5 DEF Command, StopHandles, StopRunning, TypeOK
  <1>6. ~Halt(b)
    BY <1>1 DEF Halt, StopHandles, StopRunning, TypeOK
  <1>7. ~RestartReturns(b)
    BY <1>1 DEF RestartReturns, Ready, Returns, TypeOK
  <1>8. b = a \/ ~(StopReturns(b) \/ HaltReturns(b))
    BY <1>1 DEF StopReturns, HaltReturns, TypeOK
  <1>9. \A h \in Handles : ~StopRecorded(b, h)
    <2>1. SUFFICES ASSUME NEW h \in Handles, StopRecorded(b, h) PROVE FALSE
      OBVIOUS
    <2>2. calls'[a].op = calls[a].op
      BY <2>1 DEF StopRecorded, TypeOK
    <2>3. QED
      BY <1>1, <2>2 DEF Returns
  <1>10. QED
    BY <1>4, <1>5, <1>6, <1>7, <1>8, <1>9 DEF Serve

\* A worker that has ended is silent and stays so.
LEMMA EndedStays ==
  ASSUME TypeOK, EndInv, [Next]_vars, NEW h \in Launched, script[h] \notin Faulty,
         Ended(h)
  PROVE  Ended(h)'
  <1>0. h \in Handles /\ thread[h] # "none"
    BY DEF Launched
  <1>1. ASSUME NEW N \in SUBSET Handles, NEW f, Spawn(N, f), UNCHANGED <<mail, told>>
        PROVE  Ended(h)'
    BY <1>0, <1>1 DEF Spawn, Ended, Going
  <1>2. ASSUME NEW a \in Admins, NEW op, NEW H \in SUBSET Handles,
               StopHandles(a, op, H), UNCHANGED thread
        PROVE  Ended(h)'
    BY <1>0, <1>2 DEF StopHandles, StopRunning, Ended, Going
  <1>3. CASE Boot
    BY <1>1, <1>3 DEF Boot
  <1>4. ASSUME NEW a \in Admins, Serve(a) PROVE Ended(h)'
    <2>1. ASSUME NEW op \in {"stop", "restart"}, NEW target, Command(a, op, target)
          PROVE  Ended(h)'
      <3>1. PICK k \in workers : StopHandles(a, op, {k})
        BY <2>1 DEF Command
      <3>2. {k} \in SUBSET Handles
        BY DEF TypeOK, Launched
      <3>3. QED
        BY <1>2, <2>1, <3>1, <3>2 DEF Command
    <2>2. CASE Halt(a)
      BY <1>2, <2>2 DEF Halt, TypeOK, Launched
    <2>3. CASE StopReturns(a) \/ HaltReturns(a)
      BY <2>3 DEF StopReturns, HaltReturns, threadVars, Ended, Going
    <2>4. CASE RestartReturns(a)
      BY <1>1, <2>4 DEF RestartReturns
    <2>5. ASSUME NEW k \in Handles, StopRecorded(a, k) PROVE Ended(h)'
      BY <1>0, <2>5 DEF StopRecorded, threadVars, Ended, Going, Final, TypeOK
    <2>6. QED
      BY <1>4, <2>1, <2>2, <2>3, <2>4, <2>5 DEF Serve
  <1>5. ASSUME NEW k \in Handles, Work(k) PROVE Ended(h)'
    <2>1. CASE ThreadStep(k) /\ k = h
      BY <1>0, <2>1, ThreadHeard DEF Ended, EndInv
    <2>2. CASE ThreadStep(k) /\ k # h
      <3>1. /\ UNCHANGED <<status, told>>
            /\ mail'[h] = mail[h] /\ thread'[h] = thread[h]
        BY <1>0, <2>2
        DEF ThreadStep, Loads, Finishes, Crashes, Quits, Dies, Killed, Moves, TypeOK
      <3>2. QED
        BY <3>1 DEF Ended, Going
    <2>3. CASE Deliver(k)
      BY <1>0, <2>3 DEF Deliver, Ended, Going, TypeOK
    <2>4. CASE Unreadable(k)
      BY <1>0, <2>4 DEF Unreadable, Ended, Going, TypeOK, threadVars, Faulty
    <2>5. QED
      BY <1>5, <2>1, <2>2, <2>3, <2>4 DEF Work, ThreadStep
  <1>6. CASE Start \/ BootFails \/ UNCHANGED vars
    BY <1>6 DEF Start, BootFails, vars, threadVars, Ended, Going
  <1>7. QED
    BY <1>3, <1>4, <1>5, <1>6 DEF Next

\* When a stop returns its workers have ended and stay so, whoever else commands and
\* whatever happens to other scripts, unless they are of scripts with faults: each was
\* told to end, or its script has, and no late message changes what is reported.
THEOREM StoppedWorkersEnd == Spec => StoppedHasEnded
  <1>1. TypeOK /\ EndInv /\ [Next]_vars =>
          /\ \A a \in Admins : Returns(a) =>
               \A h \in calls[a].on : script[h] \notin Faulty => Ended(h)
          /\ \A h \in Launched : script[h] \notin Faulty /\ Ended(h) => Ended(h)'
    <2>1. SUFFICES ASSUME TypeOK, EndInv, [Next]_vars
                   PROVE  \A a \in Admins : Returns(a) =>
                            \A h \in calls[a].on : script[h] \notin Faulty => Ended(h)
      BY EndedStays
    <2>2. SUFFICES ASSUME NEW a \in Admins, Returns(a)
                   PROVE  \A h \in calls[a].on : script[h] \notin Faulty => Ended(h)
      OBVIOUS
    <2>3. calls[a].waiting = {}
      BY <2>1, <2>2, OnlyReturns DEF StopReturns, HaltReturns, Ready
    <2>4. QED
      BY <2>1, <2>3 DEF EndInv, Handled, Ended
  <1>2. QED
    BY <1>1, EndInit, EndStep, LifecycleTypeCorrect, PTL DEF Spec, StoppedHasEnded

-----------------------------------------------------------------------------
(* The map, for the scripts whose callers take turns: their worker is never lost  *)
(* nor doubled, and at most one restart is at work on it.                        *)

MapInv ==
  /\ \A h, k \in workers : script[h] = script[k] /\ script[h] \notin Shared => h = k
  /\ \A h \in Launched : script[h] \in Scripts
  /\ \A a \in Admins : calls[a].op = "restart" =>
       \A h \in calls[a].on : script[h] \notin Shared =>
         /\ h \in workers
         /\ \A b \in Admins : calls[b].op = "restart" =>
              \A k \in calls[b].on : script[k] = script[h] => b = a
  /\ phase \in {"off", "booting"} =>
       workers = {} /\ \A a \in Admins : calls[a].op = "none"
  /\ phase = "up" => \A s \in Scripts \ Shared : \E h \in workers : script[h] = s

LEMMA RestartMap ==
  ASSUME TypeOK, MapInv, NEW a \in Admins, RestartReturns(a)
  PROVE  MapInv'
  <1>0. PICK h \in calls[a].on :
          \E new \in Handles : /\ Spawn({new}, [n \in {new} |-> script[h]])
                               /\ workers' = (workers \ {h}) \union {new}
    BY DEF RestartReturns
  <1>1. PICK new \in Handles : /\ Spawn({new}, [n \in {new} |-> script[h]])
                               /\ workers' = (workers \ {h}) \union {new}
    BY <1>0
  <1>2. /\ new \notin Launched /\ h \in Launched /\ calls[a].op = "restart"
        /\ \A b \in Admins : calls[b].on \subseteq Launched
        /\ workers \subseteq Launched
    BY <1>1 DEF Spawn, TypeOK, Launched, RestartReturns, Ready
  <1>3. /\ script'[new] = script[h] /\ \A k \in Launched : script'[k] = script[k]
        /\ Launched' = Launched \union {new}
    BY <1>1, <1>2 DEF Spawn, TypeOK, Launched
  <1>4. \A b \in Admins : calls'[b] = IF b = a THEN Idle ELSE calls[b]
    BY DEF RestartReturns, TypeOK
  <1>5. script[h] \notin Shared => h \in workers
    BY <1>2 DEF MapInv
  <1>6. \A k, l \in workers' : script'[k] = script'[l] /\ script'[k] \notin Shared => k = l
    <2>1. \A l \in workers \ {h} :
            ~(script[l] = script[h] /\ script[h] \notin Shared)
      BY <1>5 DEF MapInv
    <2>2. QED
      BY <1>1, <1>2, <1>3, <2>1 DEF MapInv
  <1>7. \A k \in Launched' : script'[k] \in Scripts
    BY <1>2, <1>3 DEF MapInv
  <1>8. ASSUME NEW b \in Admins, calls'[b].op = "restart", NEW k \in calls'[b].on,
               script'[k] \notin Shared
        PROVE  /\ k \in workers'
               /\ \A c \in Admins : calls'[c].op = "restart" =>
                    \A l \in calls'[c].on : script'[l] = script'[k] => c = b
    <2>1. b # a /\ calls'[b] = calls[b]
      BY <1>4, <1>8 DEF Idle
    <2>2. k \in Launched /\ script'[k] = script[k]
      BY <1>2, <1>3, <1>8, <2>1
    <2>3. /\ k \in workers
          /\ \A c \in Admins : calls[c].op = "restart" =>
               \A l \in calls[c].on : script[l] = script[k] => c = b
      BY <1>8, <2>1, <2>2 DEF MapInv
    <2>4. k # h
      BY <1>2, <2>1, <2>3
    <2>5. k \in workers'
      BY <1>1, <2>3, <2>4
    <2>6. ASSUME NEW c \in Admins, calls'[c].op = "restart", NEW l \in calls'[c].on,
                 script'[l] = script'[k]
          PROVE  c = b
      <3>1. calls'[c] = calls[c]
        BY <1>4, <2>6 DEF Idle
      <3>2. script'[l] = script[l]
        BY <1>2, <1>3, <2>6, <3>1
      <3>3. QED
        BY <2>2, <2>3, <2>6, <3>1, <3>2
    <2>7. QED
      BY <2>5, <2>6
  <1>9. phase' = phase /\ phase \notin {"off", "booting"}
    BY <1>2 DEF MapInv, RestartReturns
  <1>10. ASSUME NEW s \in Scripts \ Shared, phase = "up"
         PROVE  \E k \in workers' : script'[k] = s
    <2>1. PICK k \in workers : script[k] = s
      BY <1>10 DEF MapInv
    <2>2. CASE k = h
      BY <1>1, <1>3, <2>1, <2>2
    <2>3. CASE k # h
      BY <1>1, <1>2, <1>3, <2>1, <2>3
    <2>4. QED
      BY <2>2, <2>3
  <1>11. QED
    BY <1>6, <1>7, <1>8, <1>9, <1>10 DEF MapInv

LEMMA BootMap ==
  ASSUME TypeOK, MapInv, Boot
  PROVE  MapInv'
  <1>1. PICK N \in SUBSET Handles :
          \E f \in Bijection(N, Scripts) : Spawn(N, f) /\ workers' = N
    BY DEF Boot
  <1>2. PICK scriptOf \in Bijection(N, Scripts) : Spawn(N, scriptOf) /\ workers' = N
    BY <1>1
  <1>3. /\ scriptOf \in [N -> Scripts]
        /\ \A h, k \in N : scriptOf[h] = scriptOf[k] => h = k
        /\ \A s \in Scripts : \E h \in N : scriptOf[h] = s
    BY DEF Bijection, Injection, Surjection, IsInjective
  <1>4. /\ \A h \in N : script'[h] = scriptOf[h]
        /\ \A h \in Launched : h \notin N /\ script'[h] = script[h]
        /\ Launched' = Launched \union N
    BY <1>2 DEF Spawn, TypeOK, Launched
  <1>5. /\ calls' = calls /\ phase' = "up"
        /\ \A a \in Admins : calls[a].op = "none"
    BY DEF Boot, MapInv
  <1>6. \A h \in Launched' : script'[h] \in Scripts
    BY <1>3, <1>4 DEF MapInv
  <1>7. QED
    BY <1>2, <1>3, <1>4, <1>5, <1>6 DEF MapInv

\* A step that launches nothing and starts no command.
LEMMA QuietMap ==
  ASSUME TypeOK, MapInv, UNCHANGED <<workers, script, phase>>, Launched' = Launched,
         \A a \in Admins :
           \/ calls'[a].op = "none"
           \/ calls'[a].op = calls[a].op /\ calls'[a].on = calls[a].on
  PROVE  MapInv'
  BY DEF MapInv

\* A command that starts on some workers of the map.
LEMMA StopMap ==
  ASSUME TypeOK, MapInv, NEW a \in Admins, NEW op, NEW H \in SUBSET workers,
         phase = "up", UNCHANGED <<workers, phase, script, thread>>,
         StopHandles(a, op, H),
         op = "restart" => \A h \in H : script[h] \in Shared \/ ~Commanded(script[h]),
         op = "restart" => \A h, k \in H : h = k
  PROVE  MapInv'
  <1>1. Launched' = Launched /\ script' = script
    BY DEF Launched
  <1>2. /\ calls'[a].op = op /\ calls'[a].on = H
        /\ \A b \in Admins \ {a} : calls'[b] = calls[b]
    BY DEF StopHandles, StopRunning, TypeOK
  <1>3. ASSUME NEW b \in Admins, calls'[b].op = "restart", NEW k \in calls'[b].on,
               script[k] \notin Shared
        PROVE  /\ k \in workers
               /\ \A c \in Admins : calls'[c].op = "restart" =>
                    \A l \in calls'[c].on : script[l] = script[k] => c = b
    <2>1. CASE b = a
      <3>1. k \in workers /\ ~Commanded(script[k])
        BY <1>2, <1>3, <2>1
      <3>2. QED
        BY <1>2, <2>1, <3>1 DEF Commanded
    <2>2. CASE b # a
      <3>1. calls[b].op = "restart" /\ k \in calls[b].on
        BY <1>2, <1>3, <2>2
      <3>2. Commanded(script[k])
        BY <3>1 DEF Commanded
      <3>3. QED
        BY <1>2, <1>3, <3>1, <3>2 DEF MapInv
    <2>3. QED
      BY <2>1, <2>2
  <1>4. QED
    BY <1>1, <1>3 DEF MapInv

LEMMA MapStep == TypeOK /\ MapInv /\ [Next]_vars => MapInv'
  <1> SUFFICES ASSUME TypeOK, MapInv, [Next]_vars PROVE MapInv'
    OBVIOUS
  <1>1. CASE Boot
    BY <1>1, BootMap
  <1>2. ASSUME NEW a \in Admins, Serve(a) PROVE MapInv'
    <2>1. ASSUME NEW op \in {"stop", "restart"}, NEW target, Command(a, op, target)
          PROVE  MapInv'
      <3>1. PICK h \in workers : /\ script[h] \in Shared \/ ~Commanded(script[h])
                                 /\ StopHandles(a, op, {h})
        BY <2>1 DEF Command
      <3>2. QED
        BY <2>1, <3>1, StopMap DEF Command
    <2>2. CASE Halt(a)
      BY <2>2, StopMap DEF Halt
    <2>3. CASE StopReturns(a)
      <3>1. \A b \in Admins : calls'[b] = IF b = a THEN Idle ELSE calls[b]
        BY <2>3 DEF StopReturns, TypeOK
      <3>2. UNCHANGED <<workers, script, phase>> /\ Launched' = Launched
        BY <2>3 DEF StopReturns, threadVars, Launched
      <3>3. QED
        BY <3>1, <3>2, QuietMap DEF Idle
    <2>4. CASE HaltReturns(a)
      <3>1. \A b \in Admins : calls'[b] = IF b = a THEN Idle ELSE calls[b]
        BY <2>4 DEF HaltReturns, TypeOK
      <3>2. UNCHANGED <<workers, script>> /\ Launched' = Launched /\ phase' = "over"
        BY <2>4 DEF HaltReturns, threadVars, Launched
      <3>3. QED
        BY <3>1, <3>2 DEF MapInv, Idle
    <2>5. CASE RestartReturns(a)
      BY <2>5, RestartMap
    <2>6. ASSUME NEW h \in Handles, StopRecorded(a, h) PROVE MapInv'
      <3>1. UNCHANGED <<workers, script, phase>> /\ Launched' = Launched
        BY <2>6 DEF StopRecorded, threadVars, Launched
      <3>2. \A b \in Admins : calls'[b].op = calls[b].op /\ calls'[b].on = calls[b].on
        BY <2>6 DEF StopRecorded, TypeOK
      <3>3. QED
        BY <3>1, <3>2, QuietMap
    <2>7. QED
      BY <1>2, <2>1, <2>2, <2>3, <2>4, <2>5, <2>6 DEF Serve
  <1>3. ASSUME NEW h \in Handles, Work(h) PROVE MapInv'
    <2>1. UNCHANGED <<workers, script, phase, calls>>
      BY <1>3 DEF Work, Loads, Finishes, Crashes, Quits, Dies, Killed, Moves, Deliver,
                  Unreadable, threadVars
    <2>2. Launched' = Launched
      BY <1>3 DEF Work, Loads, Finishes, Crashes, Quits, Dies, Killed, Moves, Deliver,
                  Unreadable, Launched, TypeOK, threadVars, Live
    <2>3. QED
      BY <2>1, <2>2, QuietMap
  <1>4. CASE BootFails
    BY <1>4 DEF BootFails, MapInv, threadVars, Launched
  <1>5. CASE Start
    BY <1>5 DEF Start, MapInv, threadVars, Launched
  <1>6. CASE UNCHANGED vars
    <2>1. Launched' = Launched
      BY <1>6 DEF vars, threadVars, Launched
    <2>2. QED
      BY <1>6, <2>1 DEF vars, threadVars, MapInv
  <1>7. QED
    BY <1>1, <1>2, <1>3, <1>4, <1>5, <1>6 DEF Next

LEMMA MapInit == Init => MapInv
  BY DEF Init, MapInv, Idle, Launched

\* Every script whose callers take turns can be named in a command, under every fault
\* and through every restart.
THEOREM ScriptsResolve == Spec => []NamesResolve
  <1>1. ASSUME TypeOK, MapInv PROVE NamesResolve
    <2>1. SUFFICES ASSUME phase = "up", NEW s \in Scripts \ Shared
                   PROVE  Cardinality(Matches(s)) = 1
      BY DEF NamesResolve
    <2>2. PICK h \in workers : script[h] = s
      BY <1>1, <2>1 DEF MapInv
    <2>3. Matches(s) = {h}
      BY <1>1, <2>2, NamesAssumption DEF Matches, MapInv, TypeOK, Launched
    <2>4. QED
      BY <2>3, FS_Singleton
  <1>2. QED
    BY <1>1, MapInit, MapStep, LifecycleTypeCorrect, PTL DEF Spec

-----------------------------------------------------------------------------
(* Every thread that is left to itself is in the map, for the scripts without faults: *)
(* a restart only takes out a worker that was told to end or has ended.               *)

LEMMA LostStep == TypeOK /\ EndInv /\ MapInv /\ NoneIsLost /\ [Next]_vars => NoneIsLost'
  <1> SUFFICES ASSUME TypeOK, EndInv, MapInv, NoneIsLost, [Next]_vars PROVE NoneIsLost'
    OBVIOUS
  <1>1. CASE Boot
    <2>1. PICK N \in SUBSET Handles :
            \E f \in Bijection(N, Scripts) : Spawn(N, f) /\ workers' = N
      BY <1>1 DEF Boot
    <2>2. workers = {} /\ told' = told
      BY <1>1 DEF Boot, MapInv
    <2>3. QED
      BY <2>1, <2>2 DEF Spawn, NoneIsLost, Going
  <1>2. ASSUME NEW a \in Admins, Serve(a) PROVE NoneIsLost'
    <2>1. CASE RestartReturns(a)
      <3>0. PICK h \in calls[a].on :
              \E new \in Handles : /\ Spawn({new}, [n \in {new} |-> script[h]])
                                   /\ workers' = (workers \ {h}) \union {new}
        BY <2>1 DEF RestartReturns
      <3>1. PICK new \in Handles : /\ Spawn({new}, [n \in {new} |-> script[h]])
                                   /\ workers' = (workers \ {h}) \union {new}
        BY <3>0
      <3>2. script[h] \notin Faulty => ~Going(h)
        BY DEF EndInv, Handled
      <3>3. told' = told
        BY <2>1 DEF RestartReturns
      <3>4. QED
        BY <3>1, <3>2, <3>3 DEF Spawn, NoneIsLost, Going
    <2>2. CASE ~RestartReturns(a)
      <3>1. UNCHANGED <<workers, script, thread>> /\ told \subseteq told'
        BY <1>2, <2>2 DEF Serve, Command, Halt, StopHandles, StopRunning, StopReturns,
                          HaltReturns, StopRecorded, threadVars
      <3>2. QED
        BY <3>1 DEF NoneIsLost, Going
    <2>3. QED
      BY <2>1, <2>2
  <1>3. ASSUME NEW h \in Handles, Work(h) PROVE NoneIsLost'
    <2>1. \A k \in Handles : thread'[k] \in Live => thread[k] \in Live
      BY <1>3 DEF Work, Loads, Finishes, Crashes, Quits, Dies, Killed, Moves, Deliver,
                  Unreadable, TypeOK, threadVars, Live
    <2>2. UNCHANGED <<workers, script, told>>
      BY <1>3 DEF Work, Loads, Finishes, Crashes, Quits, Dies, Killed, Moves, Deliver,
                  Unreadable, threadVars
    <2>3. QED
      BY <2>1, <2>2 DEF NoneIsLost, Going
  <1>4. CASE Start \/ BootFails \/ UNCHANGED vars
    BY <1>4 DEF Start, BootFails, vars, threadVars, NoneIsLost, Going
  <1>5. QED
    BY <1>1, <1>2, <1>3, <1>4 DEF Next

\* Of a script without faults whose callers take turns at most one thread is left to
\* itself, every such thread is in the map, and the script can always be named.
THEOREM OneWorker == Spec => []OneWorkerPerScript
  <1>1. MapInv /\ NoneIsLost => RunsOnce
    BY DEF MapInv, NoneIsLost, RunsOnce
  <1>2. Init => NoneIsLost
    BY DEF Init, NoneIsLost, Going, Live
  <1>3. RunsOnce /\ NoneIsLost /\ NamesResolve => OneWorkerPerScript
    BY DEF OneWorkerPerScript
  <1>4. QED
    BY <1>1, <1>2, <1>3, EndInit, EndStep, MapInit, MapStep, LostStep,
       LifecycleTypeCorrect, ScriptsResolve, PTL DEF Spec
=============================================================================
