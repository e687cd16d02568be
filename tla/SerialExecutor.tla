--------------------------- MODULE SerialExecutor ---------------------------
(***************************************************************************)
(* What the execution queue promises its clients, without sessions, pump   *)
(* or retention: jobs are served one at a time in the order they came, a   *)
(* job may be withdrawn while it waits in line, and a job whose            *)
(* cancellation is accepted while it is served ends cancelled.             *)
(***************************************************************************)
EXTENDS Naturals, Sequences

CONSTANTS Jobs, NoJob

VARIABLES line,     \* jobs waiting, in the order they came
          current,  \* the job being served, or NoJob
          asked,    \* jobs whose cancellation was accepted
          outcome   \* "none", "pending", or how the job ended

vars == <<line, current, asked, outcome>>

Init ==
  /\ line = <<>>
  /\ current = NoJob
  /\ asked = {}
  /\ outcome = [j \in Jobs |-> "none"]

Submit(j) ==
  /\ outcome[j] = "none"
  /\ outcome' = [outcome EXCEPT ![j] = "pending"]
  /\ line' = Append(line, j)
  /\ UNCHANGED <<current, asked>>

Withdraw(j) ==
  /\ \E i \in DOMAIN line :
       /\ line[i] = j
       /\ line' = [k \in 1..(Len(line) - 1) |-> line[IF k < i THEN k ELSE k + 1]]
  /\ asked' = asked \union {j}
  /\ outcome' = [outcome EXCEPT ![j] = "cancelled"]
  /\ UNCHANGED current

Serve ==
  /\ current = NoJob
  /\ line # <<>>
  /\ current' = Head(line)
  /\ line' = Tail(line)
  /\ UNCHANGED <<asked, outcome>>

AskToStop(j) ==
  /\ current = j
  /\ asked' = asked \union {j}
  /\ UNCHANGED <<line, current, outcome>>

End(o) ==
  /\ current # NoJob
  /\ IF current \in asked THEN o = "cancelled" ELSE o \in {"completed", "failed"}
  /\ outcome' = [outcome EXCEPT ![current] = o]
  /\ current' = NoJob
  /\ UNCHANGED <<line, asked>>

Next ==
  \/ \E j \in Jobs : Submit(j) \/ Withdraw(j) \/ AskToStop(j)
  \/ Serve
  \/ \E o \in {"completed", "failed", "cancelled"} : End(o)

Spec == Init /\ [][Next]_vars
=============================================================================
