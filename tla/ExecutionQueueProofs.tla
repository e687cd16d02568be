------------------------ MODULE ExecutionQueueProofs ------------------------
(***************************************************************************)
(* Theorems about ExecutionQueue for every set of tasks, codes and         *)
(* notebooks and every retention.                                          *)
(***************************************************************************)
EXTENDS ExecutionQueue, TLAPS

\* Appending adds one member.
LEMMA MembersAppend ==
  ASSUME NEW S, NEW s \in Seq(S), NEW e \in S
  PROVE  /\ Append(s, e) \in Seq(S)
         /\ Append(s, e) # <<>>
         /\ Members(Append(s, e)) = Members(s) \union {e}
<1> DEFINE a == Append(s, e)
<1>1. /\ a \in Seq(S) /\ a # <<>>
      /\ Len(a) = Len(s) + 1 /\ DOMAIN a = 1..(Len(s) + 1)
      /\ DOMAIN s = 1..Len(s) /\ Len(s) \in Nat
      /\ \A i \in 1..Len(s) : a[i] = s[i]
      /\ a[Len(s) + 1] = e
  OBVIOUS
<1> HIDE DEF a
<1>2. Members(a) \subseteq Members(s) \union {e}
  <2> SUFFICES ASSUME NEW i \in 1..(Len(s) + 1)
               PROVE  a[i] \in Members(s) \union {e}
    BY <1>1 DEF Members
  <2>1. CASE i = Len(s) + 1
    BY <2>1, <1>1
  <2>2. CASE i \in 1..Len(s)
    BY <2>2, <1>1 DEF Members
  <2> QED BY <1>1, <2>1, <2>2
<1>3. e \in Members(a)
  BY <1>1 DEF Members
<1>4. Members(s) \subseteq Members(a)
  <2> SUFFICES ASSUME NEW i \in 1..Len(s) PROVE s[i] \in Members(a)
    BY <1>1 DEF Members
  <2> QED BY <1>1 DEF Members
<1> QED BY <1>1, <1>2, <1>3, <1>4 DEF a

\* The tail keeps every member but possibly the head.
LEMMA MembersTail ==
  ASSUME NEW S, NEW s \in Seq(S), s # <<>>
  PROVE  /\ Tail(s) \in Seq(S)
         /\ Head(s) \in S
         /\ Head(s) \in Members(s)
         /\ Members(s) = Members(Tail(s)) \union {Head(s)}
<1>1. Tail(s) \in Seq(S) /\ Head(s) \in S /\ Head(s) \in Members(s)
  BY DEF Members
<1>2. Members(Tail(s)) \subseteq Members(s)
  BY DEF Members
<1>3. ASSUME NEW i \in 1..Len(s)
      PROVE  s[i] \in Members(Tail(s)) \union {Head(s)}
  <2>1. CASE i = 1
    BY <2>1
  <2>2. CASE i # 1
    <3>1. i - 1 \in DOMAIN Tail(s) /\ Tail(s)[i - 1] = s[i]
      BY <1>3, <2>2
    <3> QED BY <3>1 DEF Members
  <2> QED BY <2>1, <2>2
<1> QED BY <1>1, <1>2, <1>3 DEF Members

Mutexes == [Codes -> [Objects -> Seq(Jobs)]]

\* A caller joins the chain of one session; the other chains stay as they are.
LEMMA AddJobFacts ==
  ASSUME mutex \in Mutexes, NEW c \in Codes, NEW o \in Objects,
         NEW job \in Jobs, AddJob(c, o, job)
  PROVE  /\ mutex' \in Mutexes
         /\ Members(mutex'[c][o]) = Members(mutex[c][o]) \union {job}
         /\ mutex[c][o] # <<>> => /\ mutex'[c][o] # <<>>
                                  /\ Head(mutex'[c][o]) = Head(mutex[c][o])
         /\ \A d \in Codes, p \in Objects :
              <<d, p>> # <<c, o>> => mutex'[d][p] = mutex[d][p]
<1>1. mutex[c][o] \in Seq(Jobs)
  BY DEF Mutexes
<1>2. mutex' = [mutex EXCEPT ![c] = [@ EXCEPT ![o] = Append(mutex[c][o], job)]]
  BY DEF AddJob
<1>3. mutex'[c][o] = Append(mutex[c][o], job)
  BY <1>2 DEF Mutexes
<1>4. Append(mutex[c][o], job) \in Seq(Jobs)
  BY <1>1, MembersAppend
<1>5. mutex' \in Mutexes
  BY <1>2, <1>4 DEF Mutexes
<1>6. \A d \in Codes, p \in Objects :
        <<d, p>> # <<c, o>> => mutex'[d][p] = mutex[d][p]
  BY <1>2 DEF Mutexes
<1>7. mutex[c][o] # <<>> => /\ mutex'[c][o] # <<>>
                            /\ Head(mutex'[c][o]) = Head(mutex[c][o])
  BY <1>1, <1>3
<1> QED BY <1>1, <1>3, <1>5, <1>6, <1>7, MembersAppend

\* The caller that runs leaves the chain.
LEMMA EndJobFacts ==
  ASSUME mutex \in Mutexes, NEW c \in Codes, NEW o \in Objects,
         mutex[c][o] # <<>>, EndJob(c, o)
  PROVE  /\ mutex' \in Mutexes
         /\ Members(mutex[c][o]) =
              Members(mutex'[c][o]) \union {Head(mutex[c][o])}
         /\ \A d \in Codes, p \in Objects :
              <<d, p>> # <<c, o>> => mutex'[d][p] = mutex[d][p]
<1>1. mutex[c][o] \in Seq(Jobs)
  BY DEF Mutexes
<1>2. mutex' = [mutex EXCEPT ![c] = [@ EXCEPT ![o] = Tail(mutex[c][o])]]
  BY DEF EndJob
<1>3. mutex'[c][o] = Tail(mutex[c][o])
  BY <1>2 DEF Mutexes
<1>4. Tail(mutex[c][o]) \in Seq(Jobs)
  BY <1>1, MembersTail
<1>5. mutex' \in Mutexes
  BY <1>2, <1>4 DEF Mutexes
<1>6. \A d \in Codes, p \in Objects :
        <<d, p>> # <<c, o>> => mutex'[d][p] = mutex[d][p]
  BY <1>2 DEF Mutexes
<1> QED BY <1>1, <1>3, <1>5, <1>6, MembersTail

\* disposeSession: the deletion at the head of the chain goes on to unlink.
LEMMA DisposeFacts ==
  ASSUME mutex \in Mutexes, NEW c \in Codes, mutex[c]["original"] # <<>>,
         Head(mutex[c]["original"]) = "delete",
         mutex' = [mutex EXCEPT ![c]["original"][1] = "unlink"]
  PROVE  /\ mutex' \in Mutexes
         /\ \A d \in Codes, p \in Objects :
              /\ "eval" \in Members(mutex[d][p]) => "eval" \in Members(mutex'[d][p])
              /\ Holds(d, p, "eval") => Holds(d, p, "eval")'
<1> DEFINE s == mutex[c]["original"]
           r == [s EXCEPT ![1] = "unlink"]
<1>1. s \in Seq(Jobs) /\ s # <<>>
  BY DEF Mutexes, Objects
<1>2. mutex' = [mutex EXCEPT ![c] = [@ EXCEPT !["original"] = r]]
  OBVIOUS
<1>3. /\ r \in Seq(Jobs) /\ DOMAIN r = DOMAIN s /\ DOMAIN s = 1..Len(s)
      /\ \A i \in DOMAIN s : i # 1 => r[i] = s[i]
  BY <1>1 DEF Jobs
<1>4. mutex' \in Mutexes
  <2>1. [mutex[c] EXCEPT !["original"] = r] \in [Objects -> Seq(Jobs)]
    BY <1>3 DEF Mutexes
  <2> QED BY <1>2, <2>1 DEF Mutexes
<1>5. mutex'[c]["original"] = r
  BY <1>2 DEF Mutexes, Objects
<1>6. \A d \in Codes, p \in Objects :
        <<d, p>> # <<c, "original">> => mutex'[d][p] = mutex[d][p]
  BY <1>2 DEF Mutexes
<1>7. s[1] # "eval"
  BY <1>1
<1>8. "eval" \in Members(s) => "eval" \in Members(r)
  BY <1>3, <1>7 DEF Members
<1>9. ~Holds(c, "original", "eval")
  BY DEF Holds
<1> QED BY <1>4, <1>5, <1>6, <1>8, <1>9 DEF Holds

-----------------------------------------------------------------------------
(* The inductive invariant behind the mutual exclusion of evaluations. *)

ExclusionInv == TypeOK /\ Len(completed) <= MaxRetained /\ SlotOK /\ OneAtATime

\* Emitting events keeps the streams well typed.
LEMMA EmitTyped ==
  ASSUME TypeOK, NEW t \in Tasks, NEW events \in Seq(Events), Emit(t, events)
  PROVE  stream' \in [Tasks -> Seq(Events)]
<1>1. stream[t] \in Seq(Events)
  BY DEF TypeOK
<1>2. stream[t] \o events \in Seq(Events)
  BY <1>1
<1> QED BY <1>2 DEF Emit, TypeOK

\* Remembering a task keeps the retention list within its limit, ends with the
\* task in it, and only drops a task that is neither in the slot nor waiting.
LEMMA RememberFacts ==
  ASSUME TypeOK, Len(completed) <= MaxRetained,
         NEW t \in Tasks, NEW waiting \in Seq(Tasks), Remember(t, waiting)
  PROVE  /\ completed' \in Seq(Tasks)
         /\ Len(completed') <= MaxRetained
         /\ t \in Members(completed')
         /\ known' \subseteq known
         /\ \A u \in known \ known' : u # active /\ u \notin Members(waiting)
         /\ \A u \in known' : u \in Members(completed) =>
              u \in Members(completed') \union Members(waiting) \union {active}
<1> DEFINE list == Append(completed, t)
<1>1. /\ list \in Seq(Tasks) /\ list # <<>> /\ Len(list) = Len(completed) + 1
      /\ list[Len(list)] = t /\ Members(list) = Members(completed) \union {t}
      /\ Len(completed) \in Nat
  <2>1. completed \in Seq(Tasks)
    BY DEF TypeOK
  <2>2. list \in Seq(Tasks) /\ list # <<>> /\ Members(list) = Members(completed) \union {t}
    BY <2>1, MembersAppend
  <2>3. /\ Len(list) = Len(completed) + 1 /\ Len(completed) \in Nat
        /\ list[Len(completed) + 1] = t
    BY <2>1
  <2> QED BY <2>2, <2>3
<1>2. MaxRetained \in Nat /\ MaxRetained > 0
  BY RetainedAssumption
<1> HIDE DEF list
<1>3. CASE Len(list) <= MaxRetained
  <2>1. completed' = list /\ known' = known
    BY <1>3 DEF Remember, list
  <2> QED BY <1>1, <1>3, <2>1
<1>4. CASE ~(Len(list) <= MaxRetained)
  <2>1. /\ completed' = Tail(list)
        /\ known' = IF Head(list) = active \/ Head(list) \in Members(waiting)
                      THEN known ELSE known \ {Head(list)}
    BY <1>4 DEF Remember, list
  <2>2. Len(list) \in Nat /\ Len(list) > 1 /\ Len(list) = MaxRetained + 1
    BY <1>1, <1>2, <1>4
  <2>3. Tail(list) \in Seq(Tasks) /\ Len(Tail(list)) = Len(list) - 1
        /\ Members(list) = Members(Tail(list)) \union {Head(list)}
    BY <1>1, MembersTail
  <2>4. Tail(list)[Len(list) - 1] = list[Len(list)]
        /\ Len(list) - 1 \in DOMAIN Tail(list)
    BY <1>1, <2>2
  <2>5. t \in Members(Tail(list))
    BY <1>1, <2>4 DEF Members
  <2> QED BY <1>1, <1>2, <2>1, <2>2, <2>3, <2>5
<1> QED BY <1>3, <1>4

\* Splicing a member out of a sequence leaves a shorter sequence of the others.
LEMMA WithoutTyped ==
  ASSUME NEW q \in Seq(Tasks), NEW t \in Tasks
  PROVE  Without(q, t) \in Seq(Tasks)
<1> DEFINE i == CHOOSE i \in DOMAIN q : IsIndexOf(i, q, t)
<1>1. CASE t \in Members(q)
  <2>1. Len(q) - 1 \in Nat /\ DOMAIN q = 1..Len(q)
    BY <1>1 DEF Members
  <2>2. \A k \in 1..(Len(q) - 1) : q[k] \in Tasks /\ q[k + 1] \in Tasks
    BY <2>1
  <2> HIDE DEF i
  <2>3. Splice(q, i) \in [1..(Len(q) - 1) -> Tasks]
    BY <2>2 DEF Splice
  <2>4. Splice(q, i) \in Seq(Tasks)
    BY <2>1, <2>3
  <2> QED BY <1>1, <2>4 DEF Without, i
<1>2. CASE t \notin Members(q)
  BY <1>2 DEF Without
<1> QED BY <1>1, <1>2

LEMMA StartExclusion ==
  ASSUME ExclusionInv, NEW t \in Tasks, Start(t)
  PROVE  ExclusionInv'
<1> USE DEF ExclusionInv, Start, Startable, SchedulePump
<1>1. stream' \in [Tasks -> Seq(Events)]
  <2>1. <<"queued">> \in Seq(Events)
    BY DEF Events
  <2> QED BY <2>1, EmitTyped
<1>2. queue' \in Seq(Tasks)
  BY MembersAppend DEF AtBack, TypeOK
<1>3. TypeOK'
  BY <1>1, <1>2 DEF TypeOK, taskVars, queueVars, sessionVars
<1>4. active = NoTask \/ status[active] # "none"
  BY DEF SlotOK, TypeOK
<1>5. SlotOK'
  BY <1>4, NoTaskAssumption DEF SlotOK, TypeOK, sessionVars
<1>6. OneAtATime'
  BY <1>4 DEF OneAtATime, SlotOK, TypeOK, sessionVars, Holds
<1> QED BY <1>3, <1>5, <1>6

LEMMA CancelExclusion ==
  ASSUME ExclusionInv, NEW t \in Tasks, Cancel(t)
  PROVE  ExclusionInv'
<1>1. CASE CancelQueued(t)
  <2> USE <1>1 DEF ExclusionInv, CancelQueued, Waiting, SchedulePump
  <2>1. stream' \in [Tasks -> Seq(Events)]
    <3>1. <<"cancelled", "complete">> \in Seq(Events)
      BY DEF Events
    <3> QED BY <3>1, EmitTyped
  <2>2. queue' \in Seq(Tasks)
    BY WithoutTyped DEF TypeOK
  <2>3. completed' \in Seq(Tasks) /\ Len(completed') <= MaxRetained
        /\ known' \subseteq known
    BY <2>2, RememberFacts
  <2>4. TypeOK'
    BY <2>1, <2>2, <2>3 DEF TypeOK, SettleCompletion, Terminal, sessionVars
  <2>5. SlotOK'
    BY NoTaskAssumption DEF SlotOK, TypeOK, sessionVars
  <2>6. OneAtATime'
    BY DEF OneAtATime, TypeOK, sessionVars, Holds
  <2> QED BY <2>3, <2>4, <2>5, <2>6
<1>2. CASE CancelRunning(t)
  BY <1>2 DEF ExclusionInv, CancelRunning, TypeOK, SlotOK, OneAtATime, Holds,
              queueVars, sessionVars
<1> QED BY <1>1, <1>2 DEF Cancel

LEMMA PumpExclusion ==
  ASSUME ExclusionInv, Pump
  PROVE  ExclusionInv'
<1>1. CASE PumpShift
  <2> USE <1>1 DEF ExclusionInv, PumpShift
  <2>1. queue' \in Seq(Tasks) /\ Head(queue) \in Tasks
    BY MembersTail DEF TypeOK
  <2>2. TypeOK'
    BY <2>1 DEF TypeOK, taskVars, sessionVars
  <2>3. SlotOK'
    BY <2>1, NoTaskAssumption DEF SlotOK, TypeOK, taskVars, sessionVars
  <2>4. OneAtATime'
    BY NoTaskAssumption DEF OneAtATime, SlotOK, TypeOK, taskVars, sessionVars, Holds
  <2> QED BY <2>2, <2>3, <2>4
<1>2. CASE PumpExit
  BY <1>2 DEF ExclusionInv, PumpExit, TypeOK, SlotOK, OneAtATime, Holds,
              taskVars, sessionVars
<1> QED BY <1>1, <1>2 DEF Pump

LEMMA RunExclusion ==
  ASSUME ExclusionInv, Run
  PROVE  ExclusionInv'
<1>1. /\ active \in Tasks /\ control = "run" /\ phase \in {"idle", "loading"}
      /\ codeOf[active] \in Codes
  BY DEF Run, RunStart, RunAwaitLoad, RunUnknownCode, ExclusionInv, SlotOK, TypeOK
<1>2. CASE RunStart
  <2> USE <1>1, <1>2 DEF ExclusionInv, RunStart
  <2>1. stream' \in [Tasks -> Seq(Events)]
    <3>1. <<"started">> \in Seq(Events)
      BY DEF Events
    <3> QED BY <3>1, EmitTyped
  <2>2. object' \in Objects
    BY DEF TypeOK
  <2>3. /\ mutex' \in Mutexes
        /\ "eval" \in Members(mutex'[codeOf[active]][object'])
    <3>1. mutex \in Mutexes /\ "eval" \in Jobs
      BY DEF TypeOK, Mutexes, Jobs
    <3>2. PICK c \in Codes, o \in Objects : c = codeOf[active] /\ o = object'
      BY <2>2
    <3>3. AddJob(c, o, "eval")
      BY <3>2 DEF AddJob
    <3>4. /\ mutex' \in Mutexes
          /\ Members(mutex'[c][o]) = Members(mutex[c][o]) \union {"eval"}
      BY <3>1, <3>3, AddJobFacts
    <3> QED BY <3>2, <3>4
  <2>4. TypeOK'
    BY <2>1, <2>2, <2>3 DEF TypeOK, Mutexes
  <2>5. SlotOK'
    BY <2>2, <2>3, NoTaskAssumption DEF SlotOK, TypeOK
  <2>6. OneAtATime'
    BY DEF OneAtATime, TypeOK
  <2> QED BY <2>4, <2>5, <2>6
<1>3. CASE RunAwaitLoad
  <2> USE <1>1, <1>3 DEF ExclusionInv, RunAwaitLoad
  <2>1. TypeOK'
    BY DEF TypeOK, taskVars
  <2>2. SlotOK'
    BY NoTaskAssumption DEF SlotOK, TypeOK, taskVars
  <2>3. OneAtATime'
    BY DEF OneAtATime, TypeOK, taskVars, Holds
  <2> QED BY <2>1, <2>2, <2>3
<1>4. CASE RunUnknownCode
  <2> USE <1>1, <1>4 DEF ExclusionInv, RunUnknownCode, RunRejected
  <2>1. TypeOK'
    BY DEF TypeOK, taskVars, sessionVars
  <2>2. SlotOK'
    BY NoTaskAssumption DEF SlotOK, TypeOK, taskVars, sessionVars
  <2>3. OneAtATime'
    BY DEF OneAtATime, TypeOK, taskVars, sessionVars, Holds
  <2> QED BY <2>1, <2>2, <2>3
<1> QED BY <1>2, <1>3, <1>4 DEF Run

\* The end of an evaluation, whatever the outcome.
LEMMA SettleExclusion ==
  ASSUME ExclusionInv, NEW ok \in BOOLEAN, control = "loop",
         phase \in {"waiting", "evaluating", "persisting"},
         Holds(codeOf[active], object, "eval"), Settle(ok),
         evaluated' \subseteq Tasks, snapshot' \subseteq Codes
  PROVE  ExclusionInv'
<1> USE DEF ExclusionInv
<1>1. /\ active \in Tasks /\ codeOf[active] \in Codes /\ object \in Objects
      /\ status[active] = "running"
  BY DEF SlotOK, TypeOK
<1>2. stream' \in [Tasks -> Seq(Events)]
  <2> DEFINE event == IF ok THEN "result"
                      ELSE IF cancelRequested[active] THEN "cancelled" ELSE "error"
  <2>1. <<event, "complete">> \in Seq(Events)
    BY DEF Events
  <2>2. Emit(active, <<event, "complete">>)
    BY DEF Settle
  <2> HIDE DEF event
  <2> QED BY <1>1, <2>1, <2>2, EmitTyped
<1>3. completed' \in Seq(Tasks) /\ Len(completed') <= MaxRetained
      /\ known' \subseteq known
  BY <1>1, RememberFacts DEF Settle, TypeOK
<1>4. mutex' \in Mutexes
  BY <1>1, EndJobFacts DEF Settle, Holds, TypeOK, Mutexes
<1>5. TypeOK'
  BY <1>1, <1>2, <1>3, <1>4
  DEF Settle, TypeOK, SettleCompletion, Terminal, Mutexes
<1>6. SlotOK'
  BY DEF SlotOK, Settle
<1>7. OneAtATime'
  BY <1>1 DEF OneAtATime, Settle, TypeOK
<1> QED BY <1>3, <1>5, <1>6, <1>7

LEMMA EvalExclusion ==
  ASSUME ExclusionInv,
         \/ EvalEnter
         \/ \E ok, saved \in BOOLEAN : EvalReturn(ok, saved)
         \/ \E ok \in BOOLEAN : PersistReturn(ok)
  PROVE  ExclusionInv'
<1> USE DEF ExclusionInv
<1>1. ASSUME phase \in {"waiting", "evaluating", "persisting"}
      PROVE  active \in Tasks /\ codeOf[active] \in Codes /\ object \in Objects
  BY <1>1 DEF SlotOK, TypeOK
<1>2. CASE EvalEnter
  <2> USE <1>1, <1>2 DEF EvalEnter
  <2>1. CASE Cancelled(active)
    BY <2>1, SettleExclusion DEF TypeOK
  <2>2. CASE ~Cancelled(active)
    <3>1. TypeOK'
      BY <2>2 DEF TypeOK, sessionVars
    <3>2. SlotOK'
      BY <2>2 DEF SlotOK, sessionVars
    <3>3. OneAtATime'
      BY <2>2 DEF OneAtATime, Holds, sessionVars
    <3> QED BY <2>2, <3>1, <3>2, <3>3
  <2> QED BY <2>1, <2>2
<1>3. ASSUME NEW ok \in BOOLEAN, NEW saved \in BOOLEAN, EvalReturn(ok, saved)
      PROVE  ExclusionInv'
  <2> USE <1>1, <1>3 DEF EvalReturn
  <2> DEFINE persists == ok /\ ~Cancelled(active) /\ Bound(codeOf[active], object)
  <2>1. snapshot' \subseteq Codes /\ evaluated' \subseteq Tasks
    BY DEF TypeOK
  <2>2. CASE persists
    <3>1. TypeOK'
      BY <2>1, <2>2 DEF TypeOK
    <3>2. SlotOK'
      BY <2>2 DEF SlotOK
    <3>3. OneAtATime'
      BY <2>2 DEF OneAtATime, Holds
    <3> QED BY <2>2, <3>1, <3>2, <3>3
  <2>3. CASE ~persists
    <3>1. Settle(ok /\ ~Cancelled(active))
      BY <2>3
    <3>2. Holds(codeOf[active], object, "eval")
      BY DEF OneAtATime
    <3> QED BY <2>1, <3>1, <3>2, SettleExclusion
  <2> QED BY <2>2, <2>3
<1>4. ASSUME NEW ok \in BOOLEAN, PersistReturn(ok)
      PROVE  ExclusionInv'
  <2>1. Holds(codeOf[active], object, "eval")
    BY <1>4 DEF OneAtATime, PersistReturn
  <2>2. snapshot' \subseteq Codes /\ evaluated' \subseteq Tasks
    BY <1>4 DEF TypeOK, PersistReturn
  <2> QED BY <1>4, <2>1, <2>2, SettleExclusion DEF PersistReturn
<1> QED BY <1>2, <1>3, <1>4

LEMMA LoadExclusion ==
  ASSUME ExclusionInv, NEW c \in Codes, LoadBegin(c) \/ LoadEnd(c)
  PROVE  ExclusionInv'
<1> USE DEF ExclusionInv
<1>1. CASE LoadBegin(c)
  BY <1>1 DEF LoadBegin, TypeOK, SlotOK, OneAtATime, Holds, taskVars, queueVars
<1>2. CASE LoadDone(c)
  <2> USE <1>2 DEF LoadDone
  <2>1. TypeOK'
    BY DEF TypeOK, Objects, taskVars
  <2>2. SlotOK'
    BY DEF SlotOK, taskVars
  <2>3. OneAtATime'
    BY DEF OneAtATime, Holds, taskVars
  <2> QED BY <2>1, <2>2, <2>3
<1>3. CASE LoadFail(c)
  <2> USE <1>3 DEF LoadFail, RunRejected
  <2>1. TypeOK'
    BY DEF TypeOK, taskVars, queueVars
  <2>2. SlotOK'
    BY DEF SlotOK, taskVars, queueVars
  <2>3. OneAtATime'
    BY DEF OneAtATime, Holds, taskVars, queueVars
  <2> QED BY <2>1, <2>2, <2>3 DEF queueVars
<1> QED BY <1>1, <1>2, <1>3 DEF LoadEnd

\* A step that only changes a chain keeps the invariant when the evaluation of
\* the active task neither leaves its chain nor loses its head.
LEMMA ChainExclusion ==
  ASSUME ExclusionInv, UNCHANGED <<taskVars, queueVars, loading>>,
         sessions' \in [Codes -> Objects \union {"absent"}],
         snapshot' \subseteq Codes, file' \subseteq Codes, mutex' \in Mutexes,
         \A d \in Codes, p \in Objects :
           /\ "eval" \in Members(mutex[d][p]) => "eval" \in Members(mutex'[d][p])
           /\ Holds(d, p, "eval") => Holds(d, p, "eval")'
  PROVE  ExclusionInv'
<1> USE DEF ExclusionInv, taskVars, queueVars
<1>1. TypeOK'
  BY DEF TypeOK, Mutexes
<1>2. SlotOK'
  BY DEF SlotOK, TypeOK
<1>3. OneAtATime'
  <2>1. ASSUME phase \in {"evaluating", "persisting"}
        PROVE  Holds(codeOf[active], object, "eval")'
    <3>1. codeOf[active] \in Codes /\ object \in Objects
      BY <2>1 DEF SlotOK, TypeOK
    <3>2. Holds(codeOf[active], object, "eval")
      BY <2>1 DEF OneAtATime
    <3>3. Holds(codeOf[active], object, "eval")' <=>
            mutex'[codeOf[active]][object] # <<>>
            /\ Head(mutex'[codeOf[active]][object]) = "eval"
      BY DEF Holds
    <3> QED BY <3>1, <3>2, <3>3 DEF Holds
  <2> QED BY <2>1 DEF OneAtATime
<1> QED BY <1>1, <1>2, <1>3

LEMMA RequestExclusion ==
  ASSUME ExclusionInv, NEW c \in Codes, DeleteRequest(c) \/ OtherRequest(c)
  PROVE  ExclusionInv'
<1> USE DEF ExclusionInv
<1>1. PICK o \in Objects, job \in Jobs : AddJob(c, o, job)
  BY DEF DeleteRequest, OtherRequest, TypeOK, Objects, Jobs
<1>2. mutex \in Mutexes
  BY DEF TypeOK, Mutexes
<1>3. /\ mutex' \in Mutexes
      /\ \A d \in Codes, p \in Objects :
           /\ "eval" \in Members(mutex[d][p]) => "eval" \in Members(mutex'[d][p])
           /\ Holds(d, p, "eval") => Holds(d, p, "eval")'
  BY <1>1, <1>2, AddJobFacts DEF Holds
<1> QED BY <1>3, ChainExclusion DEF DeleteRequest, OtherRequest, TypeOK, taskVars, queueVars

LEMMA JobExclusion ==
  ASSUME ExclusionInv, NEW c \in Codes, NEW o \in Objects, JobEnd(c, o)
  PROVE  ExclusionInv'
<1> USE DEF ExclusionInv
<1>1. mutex \in Mutexes /\ "original" \in Objects
  BY DEF TypeOK, Mutexes, Objects
<1>2. CASE DeleteFile(c)
  <2>1. sessions' \in [Codes -> Objects \union {"absent"}] /\ file' \subseteq Codes
        /\ snapshot' \subseteq Codes
    BY <1>2 DEF DeleteFile, TypeOK
  <2> QED BY <1>1, <1>2, <2>1, DisposeFacts, ChainExclusion
          DEF DeleteFile, Holds, taskVars, queueVars
<1>3. ASSUME NEW p \in Objects, mutex[c][p] # <<>>, Head(mutex[c][p]) # "eval",
             EndJob(c, p), snapshot' \subseteq Codes,
             UNCHANGED <<taskVars, queueVars, sessions, loading, file>>
      PROVE  ExclusionInv'
  <2>1. /\ mutex' \in Mutexes
        /\ \A d \in Codes, r \in Objects :
             /\ "eval" \in Members(mutex[d][r]) => "eval" \in Members(mutex'[d][r])
             /\ Holds(d, r, "eval") => Holds(d, r, "eval")'
    BY <1>1, <1>3, EndJobFacts DEF Holds
  <2>2. sessions' \in [Codes -> Objects \union {"absent"}] /\ file' \subseteq Codes
    BY <1>3 DEF TypeOK
  <2> QED BY <1>3, <2>1, <2>2, ChainExclusion
<1>4. ASSUME NEW removed \in BOOLEAN, Unlink(c, removed)
      PROVE  ExclusionInv'
  BY <1>1, <1>3, <1>4 DEF Unlink, Holds, TypeOK
<1>5. CASE DeleteFails(c)
  BY <1>1, <1>3, <1>5 DEF DeleteFails, Holds, TypeOK
<1>6. ASSUME NEW saved \in BOOLEAN, OtherDone(c, o, saved)
      PROVE  ExclusionInv'
  BY <1>3, <1>6 DEF OtherDone, Holds, TypeOK
<1> QED BY <1>2, <1>4, <1>5, <1>6 DEF JobEnd, DeleteEnd

\* Every step of the server keeps the exclusion invariant.
LEMMA NextExclusion ==
  ASSUME ExclusionInv, [Next]_vars
  PROVE  ExclusionInv'
<1>1. CASE UNCHANGED vars
  BY <1>1 DEF vars, taskVars, queueVars, sessionVars, ExclusionInv, TypeOK,
              SlotOK, OneAtATime, Holds
<1>2. CASE Next
  BY <1>2, StartExclusion, CancelExclusion, PumpExclusion, RunExclusion,
     EvalExclusion, LoadExclusion, RequestExclusion, JobExclusion
  DEF Next
<1> QED BY <1>1, <1>2

\* The server starts in a state of the exclusion invariant.
LEMMA InitExclusion ==
  ASSUME Init
  PROVE  ExclusionInv
<1>1. Len(completed) <= MaxRetained
  BY RetainedAssumption DEF Init
<1>2. TypeOK
  <2>1. mutex \in [Codes -> [Objects -> Seq(Jobs)]]
    BY DEF Init
  <2>2. stream \in [Tasks -> Seq(Events)] /\ queue \in Seq(Tasks)
        /\ completed \in Seq(Tasks)
    BY DEF Init
  <2>3. sessions \in [Codes -> Objects \union {"absent"}]
    <3>1. {"original", "absent"} \subseteq Objects \union {"absent"}
      BY DEF Objects
    <3> QED BY <3>1 DEF Init
  <2>4. file \subseteq Codes
    BY FileCodesAssumption DEF Init
  <2> QED BY <2>1, <2>2, <2>3, <2>4 DEF Init, TypeOK
<1> QED BY <1>1, <1>2, NoTaskAssumption DEF Init, ExclusionInv, SlotOK, OneAtATime

\* Every variable keeps its type (the data model of VmServerSessions).
THEOREM TypeCorrect == Spec => []TypeOK
<1>1. ExclusionInv => TypeOK
  BY DEF ExclusionInv
<1> QED BY <1>1, InitExclusion, NextExclusion, PTL DEF Spec

\* Cells of all VMs run one at a time, and an evaluation that is with the VM
\* holds the session's mutex (processExecutionQueue, runExclusive).
THEOREM Exclusion == Spec => []OneAtATime
<1>1. ExclusionInv => OneAtATime
  BY DEF ExclusionInv
<1> QED BY <1>1, InitExclusion, NextExclusion, PTL DEF Spec

\* The slot, the phase of its runExecutionTask and the status of its task agree.
THEOREM SlotDiscipline == Spec => []SlotOK
<1>1. ExclusionInv => SlotOK
  BY DEF ExclusionInv
<1> QED BY <1>1, InitExclusion, NextExclusion, PTL DEF Spec

-----------------------------------------------------------------------------
(* An accepted cancellation is never answered by a result. *)

CancelInv ==
  \A t \in Tasks :
    /\ cancelRequested[t] => status[t] # "completed"
    /\ completion[t] = "resolved" => status[t] = "completed"

\* Ending an evaluation resolves the promise only of a task nobody cancelled.
LEMMA SettleCancel ==
  ASSUME ExclusionInv, CancelInv, NEW ok \in BOOLEAN, Settle(ok),
         active \in Tasks, status[active] = "running",
         ok => ~cancelRequested[active]
  PROVE  CancelInv'
<1>1. /\ status \in [Tasks -> {"none", "queued", "running"} \union Terminal]
      /\ cancelRequested' = cancelRequested
      /\ completion \in [Tasks -> {"pending", "resolved", "rejected"}]
  BY DEF ExclusionInv, TypeOK, Settle
<1>2. CASE ok
  <2>1. /\ status' = [status EXCEPT ![active] = "completed"]
        /\ SettleCompletion(active, "resolved")
    BY <1>2 DEF Settle
  <2> QED BY <1>1, <1>2, <2>1 DEF CancelInv, SettleCompletion
<1>3. CASE ~ok
  <2>1. /\ SettleCompletion(active, "rejected")
        /\ \E o \in {"cancelled", "failed"} : status' = [status EXCEPT ![active] = o]
    BY <1>3 DEF Settle
  <2>2. completion[active] # "resolved"
    BY DEF CancelInv
  <2> QED BY <1>1, <2>1, <2>2 DEF CancelInv, SettleCompletion
<1> QED BY <1>2, <1>3

\* Every step keeps it.
LEMMA NextCancel ==
  ASSUME ExclusionInv, CancelInv, [Next]_vars
  PROVE  CancelInv'
<1> USE DEF CancelInv
<1>1. ASSUME UNCHANGED <<status, cancelRequested, completion>>
      PROVE  CancelInv'
  BY <1>1
<1>2. ASSUME NEW t \in Tasks, Start(t)
      PROVE  CancelInv'
  BY <1>2 DEF Start, Startable, ExclusionInv, TypeOK
<1>3. ASSUME NEW t \in Tasks, Cancel(t)
      PROVE  CancelInv'
  BY <1>3 DEF Cancel, CancelQueued, CancelRunning, Waiting, SettleCompletion,
              ExclusionInv, TypeOK
<1>4. CASE RunStart
  <2>1. active \in Tasks /\ status[active] # "completed"
    BY <1>4 DEF RunStart, ExclusionInv, SlotOK, TypeOK
  <2> QED BY <1>4, <2>1 DEF RunStart, ExclusionInv, TypeOK
<1>5. phase \in {"waiting", "evaluating", "persisting"} =>
        active \in Tasks /\ status[active] = "running"
  BY DEF ExclusionInv, SlotOK, TypeOK
<1>6. CASE EvalEnter
  <2>1. CASE Cancelled(active)
    BY <1>5, <1>6, <2>1, SettleCancel DEF EvalEnter
  <2>2. CASE ~Cancelled(active)
    BY <1>1, <1>6, <2>2 DEF EvalEnter
  <2> QED BY <2>1, <2>2
<1>7. ASSUME NEW ok \in BOOLEAN, NEW saved \in BOOLEAN, EvalReturn(ok, saved)
      PROVE  CancelInv'
  <2> DEFINE good == ok /\ ~Cancelled(active)
  <2>1. CASE good /\ Bound(codeOf[active], object)
    BY <1>1, <1>7, <2>1 DEF EvalReturn
  <2>2. CASE ~(good /\ Bound(codeOf[active], object))
    <3>1. Settle(good) /\ good \in BOOLEAN /\ active \in Tasks
          /\ status[active] = "running"
      BY <1>5, <1>7, <2>2 DEF EvalReturn
    <3>2. good => ~cancelRequested[active]
      BY DEF Cancelled
    <3> HIDE DEF good
    <3> QED BY <3>1, <3>2, SettleCancel
  <2> QED BY <2>1, <2>2
<1>8. ASSUME NEW ok \in BOOLEAN, PersistReturn(ok)
      PROVE  CancelInv'
  <2> DEFINE good == ok /\ ~Cancelled(active)
  <2>1. Settle(good) /\ good \in BOOLEAN /\ active \in Tasks
          /\ status[active] = "running"
    BY <1>5, <1>8 DEF PersistReturn
  <2>2. good => ~cancelRequested[active]
    BY DEF Cancelled
  <2> HIDE DEF good
  <2> QED BY <2>1, <2>2, SettleCancel
<1>9. CASE Pump \/ RunAwaitLoad \/ RunUnknownCode
  BY <1>1, <1>9 DEF Pump, PumpShift, PumpExit, RunAwaitLoad, RunUnknownCode,
                    RunRejected, taskVars
<1>10. ASSUME NEW c \in Codes,
              \/ LoadBegin(c) \/ LoadEnd(c) \/ DeleteRequest(c)
              \/ OtherRequest(c) \/ \E o \in Objects : JobEnd(c, o)
       PROVE  CancelInv'
  BY <1>1, <1>10 DEF LoadBegin, LoadEnd, LoadDone, LoadFail, RunRejected,
     DeleteRequest, OtherRequest, JobEnd, DeleteEnd, DeleteFile, Unlink,
     DeleteFails, OtherDone, taskVars
<1>11. CASE UNCHANGED vars
  BY <1>1, <1>11 DEF vars, taskVars
<1> QED BY <1>2, <1>3, <1>4, <1>6, <1>7, <1>8, <1>9, <1>10, <1>11
        DEF Next, Run

\* A client whose cancellation was accepted never gets a result: neither does its
\* task complete nor its promise resolve (evaluateWithLanguage, runExecutionTask).
THEOREM CancellationHolds == Spec => []AcceptedCancelHolds
<1>1. Init => CancelInv
  BY DEF Init, CancelInv
<1>2. CancelInv /\ ExclusionInv => AcceptedCancelHolds
  BY DEF CancelInv, AcceptedCancelHolds
<1> QED BY <1>1, <1>2, NextCancel, InitExclusion, NextExclusion, PTL DEF Spec

-----------------------------------------------------------------------------
(* No submitted task is forgotten, and no ended task is kept for ever. *)

NoDuplicate(q) == \A i, j \in DOMAIN q : q[i] = q[j] => i = j

QueueInv ==
  /\ QueueIsComplete
  /\ LiveTasksAreKnown
  /\ RetentionBound
  /\ active \in Tasks => active \in known
  /\ \A t \in Tasks : status[t] \in {"none", "queued"} => ~cancelRequested[t]

\* Splicing a task out of a queue without duplicates leaves exactly the others.
LEMMA WithoutFacts ==
  ASSUME NEW q \in Seq(Tasks), NEW t \in Tasks, NoDuplicate(q)
  PROVE  /\ NoDuplicate(Without(q, t))
         /\ Members(Without(q, t)) = Members(q) \ {t}
<1> DEFINE i == CHOOSE i \in DOMAIN q : IsIndexOf(i, q, t)
           r == Splice(q, i)
<1>1. CASE t \notin Members(q)
  BY <1>1 DEF Without
<1>2. CASE t \in Members(q)
  <2>1. PICK k \in DOMAIN q : q[k] = t
    BY <1>2 DEF Members
  <2>2. IsIndexOf(k, q, t)
    BY <2>1 DEF IsIndexOf, NoDuplicate
  <2>3. i \in DOMAIN q /\ q[i] = t
    BY <2>2 DEF IsIndexOf
  <2>4. Without(q, t) = r
    BY <1>2 DEF Without
  <2> HIDE DEF i
  <2>5. /\ Len(q) \in Nat /\ DOMAIN q = 1..Len(q) /\ DOMAIN r = 1..(Len(q) - 1)
        /\ \A j \in DOMAIN r : r[j] = IF j < i THEN q[j] ELSE q[j + 1]
    BY DEF Splice
  <2> HIDE DEF r
  <2>6. NoDuplicate(r)
    <3> SUFFICES ASSUME NEW a \in DOMAIN r, NEW b \in DOMAIN r, r[a] = r[b]
                 PROVE  a = b
      BY DEF NoDuplicate
    <3> QED BY <2>3, <2>5 DEF NoDuplicate
  <2>7. ASSUME NEW a \in DOMAIN r
        PROVE  r[a] \in Members(q) /\ r[a] # t
    <3>1. PICK b \in DOMAIN q : r[a] = q[b] /\ b # i
      BY <2>3, <2>5
    <3> QED BY <2>3, <3>1 DEF Members, NoDuplicate
  <2>8. ASSUME NEW b \in DOMAIN q, q[b] # t
        PROVE  q[b] \in Members(r)
    <3>1. CASE b < i
      <4>1. b \in DOMAIN r /\ r[b] = q[b]
        BY <2>3, <2>5, <3>1
      <4> QED BY <4>1 DEF Members
    <3>2. CASE b > i
      <4>1. b - 1 \in DOMAIN r /\ r[b - 1] = q[b]
        BY <2>3, <2>5, <3>2
      <4> QED BY <4>1 DEF Members
    <3> QED BY <2>3, <2>5, <2>8, <3>1, <3>2
  <2>9. Members(r) = Members(q) \ {t}
    <3>1. Members(r) \subseteq Members(q) \ {t}
      BY <2>7 DEF Members
    <3>2. Members(q) \ {t} \subseteq Members(r)
      BY <2>8 DEF Members
    <3> QED BY <3>1, <3>2
  <2> QED BY <2>4, <2>6, <2>9
<1> QED BY <1>1, <1>2

\* Appending a new task and dropping the head keep a queue without duplicates.
LEMMA NoDuplicateSteps ==
  ASSUME NEW q \in Seq(Tasks), NoDuplicate(q)
  PROVE  /\ \A t \in Tasks : t \notin Members(q) => NoDuplicate(Append(q, t))
         /\ q # <<>> => NoDuplicate(Tail(q)) /\ Head(q) \notin Members(Tail(q))
<1>1. ASSUME NEW t \in Tasks, t \notin Members(q)
      PROVE  NoDuplicate(Append(q, t))
  <2> DEFINE a == Append(q, t)
  <2>1. /\ DOMAIN a = 1..(Len(q) + 1) /\ DOMAIN q = 1..Len(q) /\ Len(q) \in Nat
        /\ \A i \in 1..Len(q) : a[i] = q[i]
        /\ a[Len(q) + 1] = t
    OBVIOUS
  <2> HIDE DEF a
  <2>2. \A i \in 1..Len(q) : a[i] # t
    BY <1>1, <2>1 DEF Members
  <2> SUFFICES ASSUME NEW i \in DOMAIN a, NEW j \in DOMAIN a, a[i] = a[j]
               PROVE  i = j
    BY DEF NoDuplicate, a
  <2> QED BY <2>1, <2>2 DEF NoDuplicate
<1>2. ASSUME q # <<>>
      PROVE  NoDuplicate(Tail(q)) /\ Head(q) \notin Members(Tail(q))
  <2> DEFINE r == Tail(q)
  <2>1. /\ DOMAIN r = 1..(Len(q) - 1) /\ DOMAIN q = 1..Len(q) /\ Len(q) \in Nat
        /\ Len(q) > 0
        /\ \A i \in DOMAIN r : r[i] = q[i + 1]
        /\ Head(q) = q[1]
    BY <1>2
  <2> HIDE DEF r
  <2>2. NoDuplicate(r)
    <3> SUFFICES ASSUME NEW i \in DOMAIN r, NEW j \in DOMAIN r, r[i] = r[j]
                 PROVE  i = j
      BY DEF NoDuplicate
    <3>1. i + 1 \in DOMAIN q /\ j + 1 \in DOMAIN q /\ q[i + 1] = q[j + 1]
      BY <2>1
    <3>2. i + 1 = j + 1
      BY <3>1 DEF NoDuplicate
    <3> QED BY <2>1, <3>2
  <2>3. ASSUME NEW i \in DOMAIN r PROVE r[i] # Head(q)
    <3>1. i + 1 \in DOMAIN q /\ 1 \in DOMAIN q /\ i + 1 # 1
      BY <2>1
    <3> QED BY <2>1, <3>1 DEF NoDuplicate
  <2> QED BY <2>2, <2>3 DEF Members, r
<1> QED BY <1>1, <1>2

\* A step that leaves the queue's own state alone keeps its invariant.
LEMMA QueueFrame ==
  ASSUME QueueInv,
         UNCHANGED <<status, cancelRequested, known, queue, completed, active, phase>>
  PROVE  QueueInv'
BY DEF QueueInv, QueueIsComplete, LiveTasksAreKnown, RetentionBound, Members

LEMMA StartQueue ==
  ASSUME ExclusionInv, QueueInv, NEW t \in Tasks, Start(t)
  PROVE  QueueInv'
<1> USE DEF ExclusionInv, QueueInv
<1>1. /\ status[t] = "none" /\ status' = [status EXCEPT ![t] = "queued"]
      /\ queue' = Append(queue, t) /\ known' = known \union {t}
      /\ UNCHANGED <<cancelRequested, completed, active, phase>>
  BY DEF Start, Startable, AtBack
<1>2. t \notin Members(queue) /\ active # t
  <2>1. t \notin Members(queue)
    BY <1>1 DEF QueueIsComplete
  <2>2. control = "loop" /\ t # NoTask
    BY NoTaskAssumption DEF Start
  <2>3. active # t
    BY <1>1, <2>2 DEF SlotOK, TypeOK
  <2> QED BY <2>1, <2>3
<1>3. queue \in Seq(Tasks) /\ NoDuplicate(queue)
  BY DEF TypeOK, QueueIsComplete, NoDuplicate
<1>4. NoDuplicate(queue') /\ Members(queue') = Members(queue) \union {t}
  BY <1>1, <1>2, <1>3, NoDuplicateSteps, MembersAppend
<1>5. QueueIsComplete'
  BY <1>1, <1>2, <1>4 DEF QueueIsComplete, NoDuplicate, TypeOK
<1>6. LiveTasksAreKnown'
  BY <1>1 DEF LiveTasksAreKnown, TypeOK
<1>7. RetentionBound'
  <2>1. Members(completed') = Members(completed)
    BY <1>1
  <2> QED BY <1>1, <1>4, <2>1 DEF RetentionBound
<1> QED BY <1>1, <1>5, <1>6, <1>7 DEF TypeOK

LEMMA CancelQueue ==
  ASSUME ExclusionInv, QueueInv, NEW t \in Tasks, Cancel(t)
  PROVE  QueueInv'
<1> USE DEF ExclusionInv, QueueInv
<1>1. CASE CancelQueued(t)
  <2>1. /\ status[t] = "queued" /\ status' = [status EXCEPT ![t] = "cancelled"]
        /\ cancelRequested' = [cancelRequested EXCEPT ![t] = TRUE]
        /\ queue' = Without(queue, t) /\ UNCHANGED <<active, phase>>
        /\ Remember(t, queue')
    BY <1>1 DEF CancelQueued, Waiting
  <2>2. queue \in Seq(Tasks) /\ NoDuplicate(queue)
    BY DEF TypeOK, QueueIsComplete, NoDuplicate
  <2>3. /\ queue' \in Seq(Tasks) /\ NoDuplicate(queue')
        /\ Members(queue') = Members(queue) \ {t}
    BY <2>1, <2>2, WithoutTyped, WithoutFacts
  <2>4. /\ Len(completed') <= MaxRetained /\ t \in Members(completed')
        /\ known' \subseteq known
        /\ \A u \in known \ known' : u # active /\ u \notin Members(queue')
        /\ \A u \in known' : u \in Members(completed) =>
             u \in Members(completed') \union Members(queue') \union {active}
    <3>1. PICK waiting \in Seq(Tasks) : waiting = queue'
      BY <2>3
    <3>2. Remember(t, waiting)
      BY <2>1, <3>1
    <3> QED BY <3>1, <3>2, RememberFacts
  <2>5. QueueIsComplete'
    BY <2>1, <2>3 DEF QueueIsComplete, NoDuplicate, TypeOK
  <2>6. LiveTasksAreKnown'
    <3> SUFFICES ASSUME NEW u \in Tasks, status'[u] \in {"queued", "running"}
                 PROVE  u \in known'
      BY DEF LiveTasksAreKnown
    <3>1. u # t /\ status[u] \in {"queued", "running"} /\ u \in known
      BY <2>1 DEF TypeOK, LiveTasksAreKnown
    <3>2. u = active \/ u \in Members(queue')
      BY <2>3, <3>1 DEF QueueIsComplete, OneAtATime
    <3> QED BY <2>4, <3>1, <3>2
  <2>7. RetentionBound'
    BY <2>1, <2>3, <2>4 DEF RetentionBound
  <2>8. active \in Tasks => active \in known'
    BY <2>4
  <2> QED BY <2>1, <2>5, <2>6, <2>7, <2>8 DEF TypeOK
<1>2. CASE CancelRunning(t)
  <2>1. /\ status[t] = "running"
        /\ cancelRequested' = [cancelRequested EXCEPT ![t] = TRUE]
        /\ UNCHANGED <<status, known, queue, completed, active, phase>>
    BY <1>2 DEF CancelRunning, queueVars
  <2>2. QueueIsComplete' /\ LiveTasksAreKnown' /\ RetentionBound'
    BY <2>1 DEF QueueIsComplete, LiveTasksAreKnown, RetentionBound, Members
  <2>3. \A u \in Tasks : status'[u] \in {"none", "queued"} => ~cancelRequested'[u]
    BY <2>1 DEF TypeOK
  <2> QED BY <2>1, <2>2, <2>3
<1> QED BY <1>1, <1>2 DEF Cancel

LEMMA PumpQueue ==
  ASSUME ExclusionInv, QueueInv, Pump
  PROVE  QueueInv'
<1> USE DEF ExclusionInv, QueueInv
<1>1. CASE PumpShift
  <2> DEFINE t == Head(queue)
  <2>1. queue \in Seq(Tasks) /\ NoDuplicate(queue) /\ queue # <<>>
    BY <1>1 DEF PumpShift, TypeOK, QueueIsComplete, NoDuplicate
  <2>2. /\ t \in Tasks /\ t \in Members(queue) /\ t \notin Members(Tail(queue))
        /\ NoDuplicate(Tail(queue))
        /\ Members(queue) = Members(Tail(queue)) \union {t}
    BY <2>1, MembersTail, NoDuplicateSteps
  <2>3. status[t] = "queued" /\ t \in known /\ ~cancelRequested[t]
    BY <2>2 DEF QueueIsComplete, LiveTasksAreKnown
  <2>4. /\ active = NoTask /\ active' = t /\ queue' = Tail(queue)
        /\ UNCHANGED <<status, cancelRequested, known, completed, phase>>
    BY <1>1, <2>3 DEF PumpShift, taskVars
  <2>5. phase = "idle"
    BY <2>4 DEF SlotOK
  <2> HIDE DEF t
  <2>6. QueueIsComplete'
    <3>1. NoDuplicate(queue') /\ active' \notin Members(queue')
      BY <2>2, <2>4
    <3>2. ASSUME NEW u \in Tasks
          PROVE  IF status'[u] = "queued"
                   THEN \/ u \in Members(queue')
                        \/ u = active' /\ phase' \in {"idle", "loading", "lost"}
                   ELSE u \notin Members(queue')
      BY <2>2, <2>4, <2>5, NoTaskAssumption DEF QueueIsComplete
    <3> QED BY <3>1, <3>2 DEF QueueIsComplete, NoDuplicate
  <2>7. LiveTasksAreKnown'
    BY <2>4 DEF LiveTasksAreKnown
  <2>8. RetentionBound'
    <3>1. Members(completed') = Members(completed)
      BY <2>4
    <3>2. NoTask \notin known
      BY NoTaskAssumption DEF TypeOK
    <3> QED BY <2>2, <2>4, <3>1, <3>2 DEF RetentionBound
  <2> QED BY <2>3, <2>4, <2>6, <2>7, <2>8
<1>2. CASE PumpExit
  BY <1>2, QueueFrame DEF PumpExit, taskVars
<1> QED BY <1>1, <1>2 DEF Pump

LEMMA RunQueue ==
  ASSUME ExclusionInv, QueueInv, Run
  PROVE  QueueInv'
<1> USE DEF ExclusionInv, QueueInv
<1>1. active \in Tasks /\ phase \in {"idle", "loading"}
  BY DEF Run, RunStart, RunAwaitLoad, RunUnknownCode, SlotOK, TypeOK
<1>2. CASE RunStart
  <2>1. /\ status' = [status EXCEPT ![active] = "running"]
        /\ UNCHANGED <<cancelRequested, known, queue, completed, active>>
    BY <1>2 DEF RunStart
  <2>2. Members(queue') = Members(queue) /\ Members(completed') = Members(completed)
    BY <2>1
  <2>3. QueueIsComplete'
    BY <1>1, <2>1, <2>2 DEF QueueIsComplete, TypeOK
  <2>4. LiveTasksAreKnown'
    BY <1>1, <2>1 DEF LiveTasksAreKnown, TypeOK
  <2>5. RetentionBound'
    BY <2>1, <2>2 DEF RetentionBound
  <2> QED BY <1>1, <2>1, <2>3, <2>4, <2>5 DEF TypeOK
<1>3. CASE RunAwaitLoad \/ RunUnknownCode
  <2>1. /\ phase' \in {"loading", "lost"}
        /\ UNCHANGED <<status, cancelRequested, known, queue, completed, active>>
    BY <1>3 DEF RunAwaitLoad, RunUnknownCode, RunRejected, taskVars
  <2>2. QueueIsComplete' /\ LiveTasksAreKnown' /\ RetentionBound'
    BY <1>1, <2>1
    DEF QueueIsComplete, LiveTasksAreKnown, RetentionBound, Members
  <2> QED BY <2>1, <2>2
<1> QED BY <1>2, <1>3 DEF Run

LEMMA SettleQueue ==
  ASSUME ExclusionInv, QueueInv, NEW ok \in BOOLEAN, Settle(ok),
         active \in Tasks, status[active] = "running"
  PROVE  QueueInv'
<1> USE DEF ExclusionInv, QueueInv
<1>1. /\ \E o \in Terminal : status' = [status EXCEPT ![active] = o]
      /\ Remember(active, queue) /\ active' = NoTask
      /\ UNCHANGED <<cancelRequested, queue>>
  BY DEF Settle, Terminal
<1>2. /\ Len(completed') <= MaxRetained /\ active \in Members(completed')
      /\ known' \subseteq known
      /\ \A u \in known \ known' : u # active /\ u \notin Members(queue)
      /\ \A u \in known' : u \in Members(completed) =>
           u \in Members(completed') \union Members(queue) \union {active}
  BY <1>1, RememberFacts DEF TypeOK
<1>3. Members(queue') = Members(queue) /\ NoTask \notin Members(queue)
  BY <1>1, NoTaskAssumption DEF TypeOK, Members
<1>4. QueueIsComplete'
  BY <1>1, <1>3 DEF QueueIsComplete, TypeOK, Terminal
<1>5. LiveTasksAreKnown'
  <2> SUFFICES ASSUME NEW u \in Tasks, status'[u] \in {"queued", "running"}
               PROVE  u \in known'
    BY DEF LiveTasksAreKnown
  <2>1. u # active /\ status[u] \in {"queued", "running"} /\ u \in known
    BY <1>1 DEF TypeOK, Terminal, LiveTasksAreKnown
  <2>2. u \in Members(queue)
    BY <2>1 DEF QueueIsComplete, OneAtATime
  <2> QED BY <1>2, <2>1, <2>2
<1>6. RetentionBound'
  BY <1>1, <1>2, <1>3 DEF RetentionBound
<1>7. \A t \in Tasks : status'[t] \in {"none", "queued"} => ~cancelRequested'[t]
  BY <1>1 DEF TypeOK, Terminal
<1> QED BY <1>1, <1>4, <1>5, <1>6, <1>7, NoTaskAssumption

\* Every step keeps the queue's invariant.
LEMMA NextQueue ==
  ASSUME ExclusionInv, QueueInv, [Next]_vars
  PROVE  QueueInv'
<1>1. phase \in {"waiting", "evaluating", "persisting"} =>
        active \in Tasks /\ status[active] = "running"
  BY DEF ExclusionInv, SlotOK, TypeOK
<1>2. ASSUME /\ phase \in {"waiting", "evaluating", "persisting"}
             /\ phase' \in {"evaluating", "persisting"}
             /\ UNCHANGED <<status, cancelRequested, known, queue, completed, active>>
      PROVE  QueueInv'
  BY <1>1, <1>2 DEF QueueInv, QueueIsComplete, LiveTasksAreKnown, RetentionBound,
                    Members
<1>3. CASE EvalEnter
  <2>1. CASE Cancelled(active)
    BY <1>1, <1>3, <2>1, SettleQueue DEF EvalEnter
  <2>2. CASE ~Cancelled(active)
    BY <1>2, <1>3, <2>2 DEF EvalEnter
  <2> QED BY <2>1, <2>2
<1>4. ASSUME NEW ok \in BOOLEAN, NEW saved \in BOOLEAN, EvalReturn(ok, saved)
      PROVE  QueueInv'
  <2> DEFINE good == ok /\ ~Cancelled(active)
  <2>1. CASE good /\ Bound(codeOf[active], object)
    BY <1>2, <1>4, <2>1 DEF EvalReturn
  <2>2. CASE ~(good /\ Bound(codeOf[active], object))
    <3>1. Settle(good) /\ good \in BOOLEAN
      BY <1>4, <2>2 DEF EvalReturn
    <3> HIDE DEF good
    <3> QED BY <1>1, <1>4, <3>1, SettleQueue DEF EvalReturn
  <2> QED BY <2>1, <2>2
<1>5. ASSUME NEW ok \in BOOLEAN, PersistReturn(ok)
      PROVE  QueueInv'
  <2> DEFINE good == ok /\ ~Cancelled(active)
  <2>1. Settle(good) /\ good \in BOOLEAN
    BY <1>5 DEF PersistReturn
  <2> HIDE DEF good
  <2> QED BY <1>1, <1>5, <2>1, SettleQueue DEF PersistReturn
<1>6. ASSUME NEW c \in Codes, LoadFail(c)
      PROVE  QueueInv'
  <2>1. CASE phase = "loading" /\ codeOf[active] = c
    <3>1. /\ phase' = "lost" /\ phase = "loading"
          /\ UNCHANGED <<status, cancelRequested, known, queue, completed, active>>
      BY <1>6, <2>1 DEF LoadFail, RunRejected, taskVars
    <3> QED BY <3>1 DEF QueueInv, QueueIsComplete, LiveTasksAreKnown,
                        RetentionBound, Members
  <2>2. CASE ~(phase = "loading" /\ codeOf[active] = c)
    BY <1>6, <2>2, QueueFrame DEF LoadFail, taskVars, queueVars
  <2> QED BY <2>1, <2>2
<1>7. ASSUME NEW c \in Codes,
             \/ LoadBegin(c) \/ LoadDone(c) \/ DeleteRequest(c)
             \/ OtherRequest(c) \/ \E o \in Objects : JobEnd(c, o)
      PROVE  QueueInv'
  BY <1>7, QueueFrame DEF LoadBegin, LoadDone, DeleteRequest, OtherRequest,
     JobEnd, DeleteEnd, DeleteFile, Unlink, DeleteFails, OtherDone,
     taskVars, queueVars
<1>8. CASE UNCHANGED vars
  BY <1>8, QueueFrame DEF vars, taskVars, queueVars
<1> QED BY <1>3, <1>4, <1>5, <1>6, <1>7, <1>8, StartQueue, CancelQueue, PumpQueue,
        RunQueue
        DEF Next, LoadEnd

LEMMA InitQueue ==
  ASSUME Init
  PROVE  QueueInv
<1>1. Members(<<>>) = {}
  BY DEF Members
<1> QED BY <1>1, RetainedAssumption, NoTaskAssumption
    DEF Init, QueueInv, QueueIsComplete, LiveTasksAreKnown, RetentionBound

\* No submitted task is forgotten: it waits in the queue exactly once, holds the
\* slot, or has ended (startExecutionTask, cancelExecutionTask and
\* processExecutionQueue, which all edit queuedExecutionTaskIds).
THEOREM QueueComplete == Spec => []QueueIsComplete
<1>1. QueueInv => QueueIsComplete
  BY DEF QueueInv
<1> QED BY <1>1, InitQueue, NextQueue, InitExclusion, NextExclusion, PTL DEF Spec

\* A queued or running task can always be found, inspected and cancelled: the
\* eviction of rememberCompletedExecutionTask never drops it.
THEOREM LiveKnown == Spec => []LiveTasksAreKnown
<1>1. QueueInv => LiveTasksAreKnown
  BY DEF QueueInv
<1> QED BY <1>1, InitQueue, NextQueue, InitExclusion, NextExclusion, PTL DEF Spec

\* The tasks kept in memory are those waiting, the one in the slot, and at most
\* MAX_RETAINED_EXECUTION_TASKS ended ones (rememberCompletedExecutionTask).
THEOREM Retention == Spec => []RetentionBound
<1>1. QueueInv => RetentionBound
  BY DEF QueueInv
<1> QED BY <1>1, InitQueue, NextQueue, InitExclusion, NextExclusion, PTL DEF Spec

\* The books of the queue agree in every state, for any tasks, VMs and retention.
THEOREM BooksAgree == Spec => []QueueAgrees
<1>1. QueueIsComplete /\ SlotOK /\ LiveTasksAreKnown /\ RetentionBound => QueueAgrees
  BY DEF QueueAgrees
<1> QED BY <1>1, QueueComplete, SlotDiscipline, LiveKnown, Retention, PTL

-----------------------------------------------------------------------------
(* A task that was cancelled before its start is not evaluated, even if it is   *)
(* started.                                                                     *)

\* CancelledBeforeStart as a property of the events of a task.
Early(s) ==
  \E i \in DOMAIN s : s[i] = "cancelled" /\ "started" \notin {s[j] : j \in 1..i}

EarlyInv ==
  \A t \in Tasks :
    /\ Early(stream[t]) => cancelRequested[t] /\ t \notin evaluated
    /\ status[t] \in {"none", "queued"} => t \notin evaluated
    /\ status[t] = "running" => "started" \in Members(stream[t])

\* Later events make a task one that was cancelled early only if none of the
\* earlier ones is its start; and a start is never taken back.
LEMMA EarlyConcat ==
  ASSUME NEW s \in Seq(Events), NEW e \in Seq(Events)
  PROVE  /\ Early(s \o e) =>
              Early(s) \/ ("started" \notin Members(s) /\ "cancelled" \in Members(e))
         /\ Members(s) \union Members(e) \subseteq Members(s \o e)
<1> DEFINE a == s \o e
<1>1. /\ DOMAIN a = 1..(Len(s) + Len(e)) /\ DOMAIN s = 1..Len(s) /\ DOMAIN e = 1..Len(e)
      /\ Len(s) \in Nat /\ Len(e) \in Nat
      /\ \A i \in 1..Len(s) : a[i] = s[i]
      /\ \A i \in 1..Len(e) : a[Len(s) + i] = e[i]
  OBVIOUS
<1> HIDE DEF a
<1>2. ASSUME NEW i \in DOMAIN a, a[i] = "cancelled", "started" \notin {a[j] : j \in 1..i}
      PROVE  Early(s) \/ ("started" \notin Members(s) /\ "cancelled" \in Members(e))
  <2>1. CASE i <= Len(s)
    <3>1. i \in DOMAIN s /\ s[i] = "cancelled"
      BY <1>1, <1>2, <2>1
    <3>2. \A j \in 1..i : s[j] = a[j]
      BY <1>1, <2>1
    <3> QED BY <1>2, <3>1, <3>2 DEF Early
  <2>2. CASE i > Len(s)
    <3>1. i - Len(s) \in DOMAIN e /\ e[i - Len(s)] = "cancelled"
      BY <1>1, <1>2, <2>2
    <3>2. \A j \in DOMAIN s : j \in 1..i /\ s[j] = a[j]
      BY <1>1, <2>2
    <3> QED BY <1>2, <3>1, <3>2 DEF Members
  <2> QED BY <1>1, <2>1, <2>2
<1>3. Members(s) \subseteq Members(a)
  BY <1>1 DEF Members
<1>4. ASSUME NEW i \in DOMAIN e PROVE e[i] \in Members(a)
  <2>1. Len(s) + i \in DOMAIN a /\ a[Len(s) + i] = e[i]
    BY <1>1
  <2> QED BY <2>1 DEF Members
<1> QED BY <1>2, <1>3, <1>4 DEF a, Early, Members

\* The members of two events.
LEMMA MembersPair ==
  ASSUME NEW a \in Events, NEW b \in Events
  PROVE  /\ <<a, b>> \in Seq(Events) /\ Members(<<a, b>>) = {a, b}
         /\ <<a>> \in Seq(Events) /\ Members(<<a>>) = {a}
BY DEF Members

\* The end of an evaluation.
LEMMA SettleEarly ==
  ASSUME TypeOK, EarlyInv, NEW ok \in BOOLEAN, Settle(ok), active \in Tasks,
         status[active] = "running", UNCHANGED evaluated
  PROVE  EarlyInv'
<1>1. PICK e \in Events : Emit(active, <<e, "complete">>)
  BY DEF Settle, Events
<1>2. <<e, "complete">> \in Seq(Events) /\ stream[active] \in Seq(Events)
  BY MembersPair DEF Events, TypeOK
<1>3. stream' = [stream EXCEPT ![active] = stream[active] \o <<e, "complete">>]
  BY <1>1 DEF Emit
<1>4. Early(stream'[active]) => Early(stream[active])
  BY <1>2, <1>3, EarlyConcat DEF EarlyInv, TypeOK
<1>5. /\ cancelRequested' = cancelRequested
      /\ \E o \in Terminal : status' = [status EXCEPT ![active] = o]
  BY DEF Settle, Terminal
<1>6. \A t \in Tasks \ {active} : stream'[t] = stream[t] /\ status'[t] = status[t]
  BY <1>3, <1>5 DEF TypeOK
<1>7. status'[active] \in Terminal
  BY <1>5 DEF TypeOK
<1> QED BY <1>4, <1>5, <1>6, <1>7 DEF EarlyInv, Terminal

\* Every step keeps it.
LEMMA NextEarly ==
  ASSUME ExclusionInv, EarlyInv, [Next]_vars
  PROVE  EarlyInv'
<1>0. TypeOK /\ SlotOK
  BY DEF ExclusionInv
<1>1. ASSUME UNCHANGED <<status, stream, evaluated>>,
             \A t \in Tasks : cancelRequested[t] => cancelRequested'[t]
      PROVE  EarlyInv'
  BY <1>1 DEF EarlyInv
<1>2. ASSUME NEW t \in Tasks, Start(t)
      PROVE  EarlyInv'
  <2>1. <<"queued">> \in Seq(Events) /\ Members(<<"queued">>) = {"queued"}
    BY MembersPair DEF Events
  <2>2. /\ stream' = [stream EXCEPT ![t] = stream[t] \o <<"queued">>]
        /\ status' = [status EXCEPT ![t] = "queued"] /\ status[t] = "none"
        /\ UNCHANGED <<cancelRequested, evaluated>>
    BY <1>2 DEF Start, Startable, Emit
  <2>3. Early(stream[t] \o <<"queued">>) => Early(stream[t])
    BY <1>0, <2>1, EarlyConcat DEF TypeOK
  <2> QED BY <1>0, <2>2, <2>3 DEF EarlyInv, TypeOK
<1>3. ASSUME NEW t \in Tasks, CancelQueued(t)
      PROVE  EarlyInv'
  <2>1. /\ stream' = [stream EXCEPT ![t] = stream[t] \o <<"cancelled", "complete">>]
        /\ status' = [status EXCEPT ![t] = "cancelled"] /\ status[t] = "queued"
        /\ cancelRequested' = [cancelRequested EXCEPT ![t] = TRUE]
        /\ UNCHANGED evaluated
    BY <1>3 DEF CancelQueued, Waiting, Emit
  <2> QED BY <1>0, <2>1 DEF EarlyInv, TypeOK
<1>4. ASSUME NEW t \in Tasks, CancelRunning(t)
      PROVE  EarlyInv'
  BY <1>0, <1>1, <1>4 DEF CancelRunning, TypeOK
<1>5. CASE RunStart
  <2>1. <<"started">> \in Seq(Events) /\ Members(<<"started">>) = {"started"}
    BY MembersPair DEF Events
  <2>2. /\ stream' = [stream EXCEPT ![active] = stream[active] \o <<"started">>]
        /\ status' = [status EXCEPT ![active] = "running"]
        /\ UNCHANGED <<cancelRequested, evaluated>>
    BY <1>5 DEF RunStart, Emit
  <2>3. active \in Tasks
    BY <1>0, <1>5 DEF RunStart, SlotOK, TypeOK
  <2>4. /\ Early(stream[active] \o <<"started">>) => Early(stream[active])
        /\ "started" \in Members(stream[active] \o <<"started">>)
    BY <1>0, <2>1, <2>3, EarlyConcat DEF TypeOK
  <2> QED BY <1>0, <2>2, <2>3, <2>4 DEF EarlyInv, TypeOK
<1>6. phase \in {"waiting", "evaluating", "persisting"} =>
        active \in Tasks /\ status[active] = "running"
  BY <1>0 DEF SlotOK, TypeOK
<1>7. CASE EvalEnter
  <2>1. CASE Cancelled(active)
    BY <1>0, <1>6, <1>7, <2>1, SettleEarly DEF EvalEnter
  <2>2. CASE ~Cancelled(active)
    <3>1. /\ evaluated' = evaluated \union {active} /\ ~cancelRequested[active]
          /\ UNCHANGED <<status, stream, cancelRequested>>
          /\ active \in Tasks /\ status[active] = "running"
      BY <1>6, <1>7, <2>2 DEF EvalEnter, Cancelled
    <3> QED BY <3>1 DEF EarlyInv
  <2> QED BY <2>1, <2>2
<1>8. ASSUME NEW ok \in BOOLEAN, NEW saved \in BOOLEAN, EvalReturn(ok, saved)
      PROVE  EarlyInv'
  <2> DEFINE good == ok /\ ~Cancelled(active)
  <2>1. CASE good /\ Bound(codeOf[active], object)
    BY <1>1, <1>8, <2>1 DEF EvalReturn
  <2>2. CASE ~(good /\ Bound(codeOf[active], object))
    <3>1. Settle(good) /\ good \in BOOLEAN /\ UNCHANGED evaluated
      BY <1>8, <2>2 DEF EvalReturn
    <3>2. active \in Tasks /\ status[active] = "running"
      BY <1>6, <1>8 DEF EvalReturn
    <3> HIDE DEF good
    <3> QED BY <1>0, <3>1, <3>2, SettleEarly
  <2> QED BY <2>1, <2>2
<1>9. ASSUME NEW ok \in BOOLEAN, PersistReturn(ok)
      PROVE  EarlyInv'
  <2> DEFINE good == ok /\ ~Cancelled(active)
  <2>1. Settle(good) /\ good \in BOOLEAN /\ UNCHANGED evaluated
    BY <1>9 DEF PersistReturn
  <2>2. active \in Tasks /\ status[active] = "running"
    BY <1>6, <1>9 DEF PersistReturn
  <2> HIDE DEF good
  <2> QED BY <1>0, <2>1, <2>2, SettleEarly
<1>10. CASE Pump \/ RunAwaitLoad \/ RunUnknownCode
  BY <1>1, <1>10 DEF Pump, PumpShift, PumpExit, RunAwaitLoad, RunUnknownCode,
                     RunRejected, taskVars
<1>11. ASSUME NEW c \in Codes,
              \/ LoadBegin(c) \/ LoadEnd(c) \/ DeleteRequest(c)
              \/ OtherRequest(c) \/ \E o \in Objects : JobEnd(c, o)
       PROVE  EarlyInv'
  BY <1>1, <1>11 DEF LoadBegin, LoadEnd, LoadDone, LoadFail, RunRejected,
     DeleteRequest, OtherRequest, JobEnd, DeleteEnd, DeleteFile, Unlink,
     DeleteFails, OtherDone, taskVars
<1>12. CASE UNCHANGED vars
  BY <1>1, <1>12 DEF vars, taskVars
<1> QED BY <1>2, <1>3, <1>4, <1>5, <1>7, <1>8, <1>9, <1>10, <1>11, <1>12
        DEF Next, Run, Cancel

\* A cancellation that was accepted is never answered by a result, and one that
\* came before the task was started keeps its input from the VM, for ever: also
\* when runExecutionTask starts it all the same (sessions.ts:997-1011).
THEOREM EveryCancellationHolds == Spec => []CancellationsHold
<1>1. Init => EarlyInv
  BY DEF Init, EarlyInv, Early
<1>2. EarlyInv => EarlyCancelNeverEvaluates
  BY DEF EarlyInv, EarlyCancelNeverEvaluates, CancelledBeforeStart, Early, Members
<1>3. Spec => []EarlyCancelNeverEvaluates
  BY <1>1, <1>2, InitExclusion, NextExclusion, NextEarly, PTL DEF Spec
<1>4. AcceptedCancelHolds /\ EarlyCancelNeverEvaluates => CancellationsHold
  BY DEF CancellationsHold
<1> QED BY <1>3, <1>4, CancellationHolds, PTL

-----------------------------------------------------------------------------
(* The promise that HTTP clients await agrees with the status of the task. *)

\* What completion is, given the status and the events of the task; a task is
\* marked as started only by RunStart; and a task that was cancelled while its
\* session was loading carries the mark of it in its events.
CompletionInv ==
  /\ \A t \in Tasks :
       /\ completion[t] = IF status[t] = "completed" THEN "resolved"
                          ELSE IF \/ status[t] \in {"failed", "cancelled"}
                                  \/ Early(stream[t])
                                 THEN "rejected" ELSE "pending"
       /\ status[t] \in {"none", "queued"} => "started" \notin Members(stream[t])
  /\ active \in Tasks /\ phase \in {"idle", "loading", "lost"} =>
       status[active] = "queued" \/ Early(stream[active])

\* A cancellation among the events stays early whatever follows it, and one that
\* follows events without a start is early.
LEMMA EarlyStays ==
  ASSUME NEW s \in Seq(Events), NEW e \in Seq(Events)
  PROVE  /\ Early(s) => Early(s \o e)
         /\ e # <<>> /\ Head(e) = "cancelled" /\ "started" \notin Members(s) =>
              Early(s \o e)
         /\ Members(s \o e) \subseteq Members(s) \union Members(e)
<1> DEFINE a == s \o e
<1>1. /\ DOMAIN a = 1..(Len(s) + Len(e)) /\ DOMAIN s = 1..Len(s) /\ DOMAIN e = 1..Len(e)
      /\ Len(s) \in Nat /\ Len(e) \in Nat
      /\ \A i \in 1..Len(s) : a[i] = s[i]
      /\ \A i \in 1..Len(e) : a[Len(s) + i] = e[i]
  OBVIOUS
<1>2. e # <<>> => Len(e) > 0 /\ Head(e) = e[1]
  OBVIOUS
<1> HIDE DEF a
<1>3. ASSUME NEW i \in DOMAIN s, s[i] = "cancelled",
             "started" \notin {s[j] : j \in 1..i}
      PROVE  Early(a)
  <2>1. i \in DOMAIN a /\ a[i] = "cancelled"
    BY <1>1, <1>3
  <2>2. \A j \in 1..i : a[j] = s[j]
    BY <1>1
  <2> QED BY <1>3, <2>1, <2>2 DEF Early
<1>4. ASSUME e # <<>>, Head(e) = "cancelled", "started" \notin Members(s)
      PROVE  Early(a)
  <2>1. Len(s) + 1 \in DOMAIN a /\ a[Len(s) + 1] = "cancelled"
    BY <1>1, <1>2, <1>4
  <2>2. \A j \in 1..(Len(s) + 1) : a[j] # "started"
    <3> SUFFICES ASSUME NEW j \in 1..(Len(s) + 1) PROVE a[j] # "started"
      OBVIOUS
    <3>1. CASE j \in 1..Len(s)
      BY <1>1, <1>4, <3>1 DEF Members
    <3>2. CASE j = Len(s) + 1
      BY <2>1, <3>2
    <3> QED BY <1>1, <3>1, <3>2
  <2> QED BY <2>1, <2>2 DEF Early
<1>5. ASSUME NEW i \in DOMAIN a PROVE a[i] \in Members(s) \union Members(e)
  <2>1. CASE i <= Len(s)
    BY <1>1, <2>1 DEF Members
  <2>2. CASE i > Len(s)
    <3>1. i - Len(s) \in DOMAIN e /\ a[i] = e[i - Len(s)]
      BY <1>1, <2>2
    <3> QED BY <3>1 DEF Members
  <2> QED BY <1>1, <2>1, <2>2
<1> QED BY <1>3, <1>4, <1>5 DEF a, Early, Members

\* A step that touches neither the tasks nor the slot.
LEMMA CompletionFrame ==
  ASSUME CompletionInv, UNCHANGED <<completion, status, stream>>,
         \/ UNCHANGED <<active, phase>>
         \/ active' \in Tasks => status[active'] = "queued"
         \/ UNCHANGED active /\ phase \in {"idle", "loading", "lost"}
         \/ phase' \notin {"idle", "loading", "lost"}
  PROVE  CompletionInv'
BY DEF CompletionInv

\* The end of an evaluation: a result only for a task that nobody cancelled.
LEMMA SettleCompletionInv ==
  ASSUME TypeOK, EarlyInv, CompletionInv, NEW ok \in BOOLEAN, Settle(ok),
         active \in Tasks, status[active] = "running",
         ok => ~cancelRequested[active]
  PROVE  CompletionInv'
<1>1. /\ \E e \in Seq(Events) : stream' = [stream EXCEPT ![active] = @ \o e]
      /\ \E o \in Terminal :
           /\ status' = [status EXCEPT ![active] = o]
           /\ o = "completed" <=> ok
      /\ completion' =
           [completion EXCEPT ![active] =
              IF @ = "pending" THEN (IF ok THEN "resolved" ELSE "rejected") ELSE @]
      /\ active' = NoTask
  <2>1. PICK e \in Events : Emit(active, <<e, "complete">>)
    BY DEF Settle, Events
  <2>2. <<e, "complete">> \in Seq(Events)
    BY MembersPair DEF Events
  <2>3. \E o \in Terminal :
          status' = [status EXCEPT ![active] = o] /\ (o = "completed" <=> ok)
    BY DEF Settle, Terminal
  <2> QED BY <2>1, <2>2, <2>3 DEF Settle, SettleCompletion, Emit
<1>2. \A t \in Tasks \ {active} : /\ stream'[t] = stream[t]
                                  /\ status'[t] = status[t]
                                  /\ completion'[t] = completion[t]
  BY <1>1 DEF TypeOK
<1>3. /\ status'[active] \in Terminal
      /\ status'[active] = "completed" <=> ok
  BY <1>1 DEF TypeOK
<1>4. completion[active] = IF Early(stream[active]) THEN "rejected" ELSE "pending"
  BY DEF CompletionInv
<1>5. ok => ~Early(stream[active])
  BY DEF EarlyInv
<1>6. completion'[active] = IF ok THEN "resolved" ELSE "rejected"
  BY <1>1, <1>4, <1>5 DEF TypeOK
<1>7. active' \notin Tasks
  BY <1>1, NoTaskAssumption
<1> QED BY <1>2, <1>3, <1>6, <1>7 DEF CompletionInv, Terminal

\* Every step keeps it.
LEMMA NextCompletion ==
  ASSUME ExclusionInv, QueueInv, EarlyInv, CompletionInv, [Next]_vars
  PROVE  CompletionInv'
<1>0. TypeOK /\ SlotOK
  BY DEF ExclusionInv
<1>1. ASSUME NEW t \in Tasks, Start(t)
      PROVE  CompletionInv'
  <2>1. <<"queued">> \in Seq(Events) /\ Members(<<"queued">>) = {"queued"}
    BY MembersPair DEF Events
  <2>2. /\ stream' = [stream EXCEPT ![t] = stream[t] \o <<"queued">>]
        /\ status' = [status EXCEPT ![t] = "queued"] /\ status[t] = "none"
        /\ UNCHANGED <<completion, active, phase>>
        /\ control = "loop"
    BY <1>1 DEF Start, Startable, Emit
  <2>3. /\ Early(stream[t] \o <<"queued">>) <=> Early(stream[t])
        /\ "started" \notin Members(stream[t]) =>
             "started" \notin Members(stream[t] \o <<"queued">>)
    BY <1>0, <2>1, EarlyConcat, EarlyStays DEF TypeOK
  <2>4. active # t
    BY <1>0, <2>2, NoTaskAssumption DEF SlotOK, TypeOK
  <2>5. /\ stream'[t] = stream[t] \o <<"queued">> /\ status'[t] = "queued"
        /\ \A u \in Tasks \ {t} : stream'[u] = stream[u] /\ status'[u] = status[u]
    BY <1>0, <2>2 DEF TypeOK
  <2> QED BY <2>2, <2>3, <2>4, <2>5 DEF CompletionInv
<1>2. ASSUME NEW t \in Tasks, CancelQueued(t)
      PROVE  CompletionInv'
  <2> DEFINE e == <<"cancelled", "complete">>
  <2>1. e \in Seq(Events) /\ e # <<>> /\ Head(e) = "cancelled"
    BY MembersPair DEF Events
  <2>2. /\ stream' = [stream EXCEPT ![t] = stream[t] \o e]
        /\ status' = [status EXCEPT ![t] = "cancelled"] /\ status[t] = "queued"
        /\ completion' = [completion EXCEPT ![t] = IF @ = "pending"
                                                     THEN "rejected" ELSE @]
        /\ UNCHANGED <<active, phase>>
    BY <1>2 DEF CancelQueued, Waiting, Emit, SettleCompletion
  <2> HIDE DEF e
  <2>3. "started" \notin Members(stream[t]) /\ stream[t] \in Seq(Events)
    BY <1>0, <2>2 DEF CompletionInv, TypeOK
  <2>4. Early(stream[t] \o e)
    BY <2>1, <2>3, EarlyStays
  <2>5. /\ stream'[t] = stream[t] \o e /\ status'[t] = "cancelled"
        /\ \A u \in Tasks \ {t} : /\ stream'[u] = stream[u]
                                  /\ status'[u] = status[u]
                                  /\ completion'[u] = completion[u]
    BY <1>0, <2>2 DEF TypeOK
  <2>6. completion'[t] = "rejected"
    BY <1>0, <2>2 DEF TypeOK, CompletionInv
  <2>7. Early(stream'[t])
    BY <2>4, <2>5
  <2>8. active' \in Tasks /\ phase' \in {"idle", "loading", "lost"} =>
          status'[active'] = "queued" \/ Early(stream'[active'])
    <3>1. CASE active = t
      BY <2>2, <2>7, <3>1
    <3>2. CASE active # t
      BY <2>2, <2>5, <3>2 DEF CompletionInv
    <3> QED BY <3>1, <3>2
  <2>9. \A u \in Tasks \ {t} :
          /\ completion'[u] = IF status'[u] = "completed" THEN "resolved"
                             ELSE IF \/ status'[u] \in {"failed", "cancelled"}
                                     \/ Early(stream'[u])
                                    THEN "rejected" ELSE "pending"
          /\ status'[u] \in {"none", "queued"} => "started" \notin Members(stream'[u])
    BY <2>5 DEF CompletionInv
  <2> QED BY <2>5, <2>6, <2>8, <2>9 DEF CompletionInv
<1>3. CASE RunStart
  <2>1. <<"started">> \in Seq(Events) /\ Members(<<"started">>) = {"started"}
    BY MembersPair DEF Events
  <2>2. /\ stream' = [stream EXCEPT ![active] = stream[active] \o <<"started">>]
        /\ status' = [status EXCEPT ![active] = "running"]
        /\ UNCHANGED <<completion, active>> /\ phase' = "waiting"
        /\ active \in Tasks /\ phase \in {"idle", "loading"}
    BY <1>0, <1>3 DEF RunStart, Emit, SlotOK, TypeOK
  <2>3. Early(stream[active] \o <<"started">>) <=> Early(stream[active])
    BY <1>0, <2>1, <2>2, EarlyConcat, EarlyStays DEF TypeOK
  <2>4. /\ stream'[active] = stream[active] \o <<"started">>
        /\ status'[active] = "running"
        /\ \A u \in Tasks \ {active} : /\ stream'[u] = stream[u]
                                       /\ status'[u] = status[u]
    BY <1>0, <2>2 DEF TypeOK
  <2>5. status[active] \in {"queued", "cancelled"}
    BY <1>0, <1>3, <2>2 DEF SlotOK, RunStart
  <2>6. completion[active] = IF Early(stream[active]) THEN "rejected" ELSE "pending"
    <3>1. CASE status[active] = "queued"
      BY <2>2, <3>1 DEF CompletionInv
    <3>2. CASE status[active] = "cancelled"
      BY <2>2, <3>2 DEF CompletionInv
    <3> QED BY <2>5, <3>1, <3>2
  <2> QED BY <2>2, <2>3, <2>4, <2>6 DEF CompletionInv
<1>4. phase \in {"waiting", "evaluating", "persisting"} =>
        active \in Tasks /\ status[active] = "running"
  BY <1>0 DEF SlotOK, TypeOK
<1>5. CASE EvalEnter
  <2>1. CASE Cancelled(active)
    BY <1>0, <1>4, <1>5, <2>1, SettleCompletionInv DEF EvalEnter
  <2>2. CASE ~Cancelled(active)
    BY <1>5, <2>2, CompletionFrame DEF EvalEnter
  <2> QED BY <2>1, <2>2
<1>6. ASSUME NEW ok \in BOOLEAN, NEW saved \in BOOLEAN, EvalReturn(ok, saved)
      PROVE  CompletionInv'
  <2> DEFINE good == ok /\ ~Cancelled(active)
  <2>1. CASE good /\ Bound(codeOf[active], object)
    BY <1>6, <2>1, CompletionFrame DEF EvalReturn
  <2>2. CASE ~(good /\ Bound(codeOf[active], object))
    <3>1. Settle(good) /\ good \in BOOLEAN /\ (good => ~cancelRequested[active])
      BY <1>6, <2>2 DEF EvalReturn, Cancelled
    <3>2. active \in Tasks /\ status[active] = "running"
      BY <1>4, <1>6 DEF EvalReturn
    <3> HIDE DEF good
    <3> QED BY <1>0, <3>1, <3>2, SettleCompletionInv
  <2> QED BY <2>1, <2>2
<1>7. ASSUME NEW ok \in BOOLEAN, PersistReturn(ok)
      PROVE  CompletionInv'
  <2> DEFINE good == ok /\ ~Cancelled(active)
  <2>1. Settle(good) /\ good \in BOOLEAN /\ (good => ~cancelRequested[active])
    BY <1>7 DEF PersistReturn, Cancelled
  <2>2. active \in Tasks /\ status[active] = "running"
    BY <1>4, <1>7 DEF PersistReturn
  <2> HIDE DEF good
  <2> QED BY <1>0, <2>1, <2>2, SettleCompletionInv
<1>8. CASE PumpShift
  <2>1. queue # <<>> /\ queue \in Seq(Tasks)
    BY <1>0, <1>8 DEF PumpShift, TypeOK
  <2>2. Head(queue) \in Tasks /\ status[Head(queue)] = "queued"
    BY <2>1, MembersTail DEF QueueInv, QueueIsComplete
  <2>3. active' \in Tasks => status[active'] = "queued"
    BY <1>8, <2>2, NoTaskAssumption DEF PumpShift
  <2> QED BY <1>8, <2>3, CompletionFrame DEF PumpShift, taskVars
<1>9. CASE PumpExit
  BY <1>9, CompletionFrame DEF PumpExit, taskVars
<1>10. CASE RunAwaitLoad \/ RunUnknownCode
  <2>1. phase \in {"idle", "loading"}
    BY <1>0, <1>10 DEF RunAwaitLoad, RunUnknownCode, SlotOK
  <2> QED BY <1>10, <2>1, CompletionFrame
          DEF RunAwaitLoad, RunUnknownCode, RunRejected, taskVars
<1>11. ASSUME NEW c \in Codes,
              \/ LoadBegin(c) \/ LoadEnd(c) \/ DeleteRequest(c)
              \/ OtherRequest(c) \/ \E o \in Objects : JobEnd(c, o)
       PROVE  CompletionInv'
  BY <1>11, CompletionFrame DEF LoadBegin, LoadEnd, LoadDone, LoadFail,
     RunRejected, DeleteRequest, OtherRequest, JobEnd, DeleteEnd, DeleteFile,
     Unlink, DeleteFails, OtherDone, taskVars, queueVars
<1>12. ASSUME NEW t \in Tasks, CancelRunning(t)
       PROVE  CompletionInv'
  BY <1>12, CompletionFrame DEF CancelRunning, queueVars
<1>13. CASE UNCHANGED vars
  BY <1>13, CompletionFrame DEF vars, taskVars, queueVars
<1> QED BY <1>1, <1>2, <1>3, <1>5, <1>6, <1>7, <1>8, <1>9, <1>10, <1>11, <1>12,
           <1>13 DEF Next, Run, Cancel, Pump

\* The promise an HTTP client of evaluate awaits and the status its task shows to
\* everybody else never disagree: it is resolved exactly for a completed task and
\* rejected for a failed or cancelled one, and before the end it is settled only
\* for a task that was cancelled while its session was being loaded and was
\* started all the same (cancelExecutionTask, runExecutionTask).
THEOREM CompletionTold == Spec => []CompletionAgrees
<1>1. Init => EarlyInv /\ CompletionInv
  BY NoTaskAssumption DEF Init, EarlyInv, CompletionInv, Early, Members
<1>2. CompletionInv => CompletionAgrees
  BY DEF CompletionInv, CompletionAgrees, CancelledBeforeStart, Early
<1> QED BY <1>1, <1>2, InitExclusion, NextExclusion, InitQueue, NextQueue,
           NextEarly, NextCompletion, PTL DEF Spec

-----------------------------------------------------------------------------
(* A VM that no deletion can take away serves its tasks to their end.          *)

\* What the stream of a task tells of its status when it never waits for a load.
Told(st, events) ==
  \/ st = "none" /\ events = <<>>
  \/ st = "queued" /\ events = <<"queued">>
  \/ st = "running" /\ events = <<"queued", "started">>
  \/ st = "completed" /\ events = <<"queued", "started", "result", "complete">>
  \/ st = "failed" /\ events = <<"queued", "started", "error", "complete">>
  \/ st = "cancelled" /\ events \in {<<"queued", "cancelled", "complete">>,
                                   <<"queued", "started", "cancelled", "complete">>}

\* The session of a submitted task of a VM without a notebook stays registered, so
\* that such a task is never one whose start waits for a load or is rejected.
ServedInv ==
  /\ file \subseteq FileCodes
  /\ \A t \in Tasks : codeOf[t] \notin FileCodes =>
       /\ status[t] # "none" => sessions[codeOf[t]] # "absent"
       /\ Told(status[t], stream[t])
  /\ phase \in {"loading", "lost"} => codeOf[active] \in FileCodes

\* Streams of given events, put together.
LEMMA Concats ==
  /\ <<"queued">> \o <<"started">> = <<"queued", "started">>
  /\ <<"queued">> \o <<"cancelled", "complete">> =
       <<"queued", "cancelled", "complete">>
  /\ \A e \in Events : <<"queued", "started">> \o <<e, "complete">> =
                          <<"queued", "started", e, "complete">>
<1>1. ASSUME NEW a \in Seq(Events), NEW b \in Seq(Events), NEW d \in Seq(Events),
             Len(d) = Len(a) + Len(b), \A i \in 1..Len(a) : d[i] = a[i],
             \A i \in 1..Len(b) : d[Len(a) + i] = b[i]
      PROVE  a \o b = d
  <2> DEFINE c == a \o b
  <2>1. /\ c \in Seq(Events) /\ Len(c) = Len(a) + Len(b)
        /\ \A i \in 1..Len(a) : c[i] = a[i]
        /\ \A i \in 1..Len(b) : c[Len(a) + i] = b[i]
    OBVIOUS
  <2> HIDE DEF c
  <2>2. ASSUME NEW i \in 1..Len(d) PROVE c[i] = d[i]
    <3>1. CASE i <= Len(a)
      BY <1>1, <2>1, <3>1
    <3>2. CASE i > Len(a)
      <4>1. i - Len(a) \in 1..Len(b) /\ i = Len(a) + (i - Len(a))
        BY <1>1, <3>2
      <4> QED BY <1>1, <2>1, <4>1
    <3> QED BY <1>1, <3>1, <3>2
  <2>3. c = [i \in 1..Len(c) |-> c[i]] /\ d = [i \in 1..Len(d) |-> d[i]]
    BY <2>1
  <2>4. c = d
    BY <1>1, <2>1, <2>2, <2>3
  <2> QED BY <2>4 DEF c
<1>2. {"queued", "started", "cancelled", "complete"} \subseteq Events
  BY DEF Events
<1>3. <<"queued">> \o <<"started">> = <<"queued", "started">>
  <2> DEFINE a == <<"queued">>
             b == <<"started">>
             d == <<"queued", "started">>
  <2>1. a \in Seq(Events) /\ b \in Seq(Events) /\ d \in Seq(Events)
    BY <1>2
  <2>2. /\ Len(a) = 1 /\ Len(b) = 1 /\ Len(d) = 2
        /\ a[1] = d[1] /\ b[1] = d[2]
    OBVIOUS
  <2> HIDE DEF a, b, d
  <2>3. /\ Len(d) = Len(a) + Len(b)
        /\ \A i \in 1..Len(a) : d[i] = a[i]
        /\ \A i \in 1..Len(b) : d[Len(a) + i] = b[i]
    BY <2>2
  <2>4. a \o b = d
    BY <1>1, <2>1, <2>3
  <2> QED BY <2>4 DEF a, b, d
<1>4. <<"queued">> \o <<"cancelled", "complete">> = <<"queued", "cancelled", "complete">>
  <2> DEFINE a == <<"queued">>
             b == <<"cancelled", "complete">>
             d == <<"queued", "cancelled", "complete">>
  <2>1. a \in Seq(Events) /\ b \in Seq(Events) /\ d \in Seq(Events)
    BY <1>2
  <2>2. /\ Len(a) = 1 /\ Len(b) = 2 /\ Len(d) = 3
        /\ a[1] = d[1] /\ b[1] = d[2] /\ b[2] = d[3]
    OBVIOUS
  <2> HIDE DEF a, b, d
  <2>3. /\ Len(d) = Len(a) + Len(b)
        /\ \A i \in 1..Len(a) : d[i] = a[i]
        /\ \A i \in 1..Len(b) : d[Len(a) + i] = b[i]
    BY <2>2
  <2>4. a \o b = d
    BY <1>1, <2>1, <2>3
  <2> QED BY <2>4 DEF a, b, d
<1>5. ASSUME NEW e \in Events
      PROVE  <<"queued", "started">> \o <<e, "complete">> =
               <<"queued", "started", e, "complete">>
  <2> DEFINE a == <<"queued", "started">>
             b == <<e, "complete">>
             d == <<"queued", "started", e, "complete">>
  <2>1. a \in Seq(Events) /\ b \in Seq(Events) /\ d \in Seq(Events)
    BY <1>2
  <2>2. /\ Len(a) = 2 /\ Len(b) = 2 /\ Len(d) = 4
        /\ a[1] = d[1] /\ a[2] = d[2] /\ b[1] = d[3] /\ b[2] = d[4]
    OBVIOUS
  <2> HIDE DEF a, b, d
  <2>3. /\ Len(d) = Len(a) + Len(b)
        /\ \A i \in 1..Len(a) : d[i] = a[i]
        /\ \A i \in 1..Len(b) : d[Len(a) + i] = b[i]
    BY <2>2
  <2>4. a \o b = d
    BY <1>1, <2>1, <2>3
  <2> QED BY <2>4 DEF a, b, d
<1> QED BY <1>3, <1>4, <1>5

\* One step of the stream follows one step of the status.
LEMMA ToldSteps ==
  ASSUME NEW events
  PROVE  /\ Told("none", events) => Told("queued", events \o <<"queued">>)
         /\ Told("queued", events) =>
              /\ Told("running", events \o <<"started">>)
              /\ Told("cancelled", events \o <<"cancelled", "complete">>)
         /\ Told("running", events) =>
              /\ Told("completed", events \o <<"result", "complete">>)
              /\ Told("failed", events \o <<"error", "complete">>)
              /\ Told("cancelled", events \o <<"cancelled", "complete">>)
<1>1. Told("none", events) => Told("queued", events \o <<"queued">>)
  BY DEF Told
<1>2. Told("queued", events) => Told("running", events \o <<"started">>)
  BY Concats DEF Told
<1>3. Told("queued", events) =>
        Told("cancelled", events \o <<"cancelled", "complete">>)
  BY Concats DEF Told
<1>5. Told("running", events) => events = <<"queued", "started">>
  BY DEF Told
<1>6. Told("running", events) =>
        /\ Told("completed", events \o <<"result", "complete">>)
        /\ Told("failed", events \o <<"error", "complete">>)
        /\ Told("cancelled", events \o <<"cancelled", "complete">>)
  BY <1>5, Concats DEF Told, Events
<1> QED BY <1>1, <1>2, <1>3, <1>6

\* A step that leaves the tasks alone and unregisters at most a notebook.
LEMMA ServedFrame ==
  ASSUME TypeOK, ServedInv, UNCHANGED <<codeOf, status, stream>>, file' \subseteq file,
         \A c \in Codes \ FileCodes : sessions[c] # "absent" => sessions'[c] # "absent",
         \/ UNCHANGED <<phase, active>>
         \/ phase' \notin {"loading", "lost"}
         \/ UNCHANGED active /\ codeOf[active] \in FileCodes
  PROVE  ServedInv'
<1>1. file' \subseteq FileCodes
  BY DEF ServedInv
<1>2. ASSUME NEW t \in Tasks, codeOf'[t] \notin FileCodes
      PROVE  /\ status'[t] # "none" => sessions'[codeOf'[t]] # "absent"
             /\ Told(status'[t], stream'[t])
  <2>1. codeOf'[t] = codeOf[t] /\ codeOf[t] \in Codes \ FileCodes
    BY <1>2 DEF TypeOK
  <2> QED BY <2>1 DEF ServedInv
<1>3. phase' \in {"loading", "lost"} => codeOf'[active'] \in FileCodes
  BY DEF ServedInv
<1> QED BY <1>1, <1>2, <1>3 DEF ServedInv

\* The status and the stream of one task go one step on.
LEMMA ServedStep ==
  ASSUME TypeOK, ServedInv, NEW t \in Tasks, NEW st, NEW e,
         UNCHANGED <<codeOf, sessions, file>>,
         st \in {"none", "queued", "running"} \union Terminal,
         status' = [status EXCEPT ![t] = st], stream' = [stream EXCEPT ![t] = @ \o e],
         codeOf[t] \notin FileCodes =>
           /\ sessions[codeOf[t]] # "absent"
           /\ Told(status[t], stream[t]) => Told(st, stream[t] \o e),
         UNCHANGED <<phase, active>> \/ phase' \notin {"loading", "lost"}
  PROVE  ServedInv'
<1>1. \A u \in Tasks : u # t => status'[u] = status[u] /\ stream'[u] = stream[u]
  BY DEF TypeOK
<1>2. status'[t] = st /\ stream'[t] = stream[t] \o e
  BY DEF TypeOK
<1>3. ASSUME NEW u \in Tasks, codeOf'[u] \notin FileCodes
      PROVE  /\ status'[u] # "none" => sessions'[codeOf'[u]] # "absent"
             /\ Told(status'[u], stream'[u])
  <2>1. CASE u = t
    <3>1. Told(st, stream[t] \o e) /\ sessions[codeOf[t]] # "absent"
      BY <1>3, <2>1 DEF ServedInv
    <3> QED BY <1>2, <2>1, <3>1
  <2>2. CASE u # t
    BY <1>1, <1>3, <2>2 DEF ServedInv
  <2> QED BY <2>1, <2>2
<1>4. phase' \in {"loading", "lost"} => codeOf'[active'] \in FileCodes
  BY DEF ServedInv
<1> QED BY <1>3, <1>4 DEF ServedInv

\* The end of an evaluation.
LEMMA SettleServed ==
  ASSUME TypeOK, ServedInv, NEW ok \in BOOLEAN, Settle(ok),
         active \in Tasks, status[active] = "running"
  PROVE  ServedInv'
<1> DEFINE outcome == IF ok THEN "completed"
                      ELSE IF cancelRequested[active] THEN "cancelled" ELSE "failed"
           event == IF ok THEN "result"
                    ELSE IF cancelRequested[active] THEN "cancelled" ELSE "error"
           e == <<event, "complete">>
<1>1. /\ status' = [status EXCEPT ![active] = outcome]
      /\ stream' = [stream EXCEPT ![active] = @ \o e]
      /\ UNCHANGED <<codeOf, sessions, file>> /\ phase' = "idle"
  BY DEF Settle, Emit
<1>2. Told("running", stream[active]) => Told(outcome, stream[active] \o e)
  BY ToldSteps
<1>3. outcome \in {"none", "queued", "running"} \union Terminal
  BY DEF Terminal
<1>4. codeOf[active] \notin FileCodes => sessions[codeOf[active]] # "absent"
  BY DEF ServedInv
<1> HIDE DEF outcome, event, e
<1> QED BY <1>1, <1>2, <1>3, <1>4, ServedStep

\* Every step keeps it.
LEMMA NextServed ==
  ASSUME ExclusionInv, QueueInv, ServedInv, [Next]_vars
  PROVE  ServedInv'
<1>0. TypeOK /\ SlotOK
  BY DEF ExclusionInv
<1>1. ASSUME NEW t \in Tasks, Start(t)
      PROVE  ServedInv'
  <2>1. /\ status[t] = "none" /\ sessions[codeOf[t]] # "absent"
        /\ status' = [status EXCEPT ![t] = "queued"]
        /\ stream' = [stream EXCEPT ![t] = @ \o <<"queued">>]
        /\ UNCHANGED <<codeOf, sessions, file, phase, active>>
    BY <1>1 DEF Start, Startable, Emit, sessionVars
  <2>2. Told(status[t], stream[t]) => Told("queued", stream[t] \o <<"queued">>)
    BY <2>1, ToldSteps
  <2> QED BY <1>0, <2>1, <2>2, ServedStep
<1>2. ASSUME NEW t \in Tasks, CancelQueued(t)
      PROVE  ServedInv'
  <2>1. /\ status[t] = "queued"
        /\ status' = [status EXCEPT ![t] = "cancelled"]
        /\ stream' = [stream EXCEPT ![t] = @ \o <<"cancelled", "complete">>]
        /\ UNCHANGED <<codeOf, sessions, file, phase, active>>
    BY <1>2 DEF CancelQueued, Waiting, Emit, sessionVars
  <2>2. Told(status[t], stream[t]) =>
          Told("cancelled", stream[t] \o <<"cancelled", "complete">>)
    BY <2>1, ToldSteps
  <2>3. codeOf[t] \notin FileCodes => sessions[codeOf[t]] # "absent"
    BY <2>1 DEF ServedInv
  <2> QED BY <1>0, <2>1, <2>2, <2>3, ServedStep DEF Terminal
<1>3. ASSUME NEW t \in Tasks, CancelRunning(t)
      PROVE  ServedInv'
  BY <1>0, <1>3, ServedFrame DEF CancelRunning, queueVars, sessionVars
<1>4. CASE Pump
  <2>1. CASE PumpShift
    <3>1. active = NoTask
      BY <2>1 DEF PumpShift
    <3>2. phase' \notin {"loading", "lost"}
      BY <1>0, <2>1, <3>1 DEF PumpShift, SlotOK
    <3> QED BY <1>0, <2>1, <3>2, ServedFrame DEF PumpShift, taskVars, sessionVars
  <2>2. CASE PumpExit
    BY <1>0, <2>2, ServedFrame DEF PumpExit, taskVars, sessionVars
  <2> QED BY <1>4, <2>1, <2>2 DEF Pump
<1>5. Run => active \in Tasks /\ status[active] \in {"queued", "cancelled"}
  BY <1>0 DEF Run, RunStart, RunAwaitLoad, RunUnknownCode, SlotOK, TypeOK
<1>6. CASE RunStart
  <2>1. active \in Tasks /\ status[active] \in {"queued", "cancelled"}
    BY <1>5, <1>6 DEF Run
  <2>2. /\ status' = [status EXCEPT ![active] = "running"]
        /\ stream' = [stream EXCEPT ![active] = @ \o <<"started">>]
        /\ UNCHANGED <<codeOf, sessions, file>> /\ phase' = "waiting"
        /\ sessions[codeOf[active]] # "absent"
    BY <1>6 DEF RunStart, Emit
  <2>3. codeOf[active] \notin FileCodes => status[active] = "queued"
    BY <1>0, <1>6 DEF RunStart, SlotOK, ServedInv
  <2>4. codeOf[active] \notin FileCodes /\ Told(status[active], stream[active]) =>
          Told("running", stream[active] \o <<"started">>)
    BY <2>3, ToldSteps
  <2> QED BY <1>0, <2>1, <2>2, <2>4, ServedStep
<1>7. CASE RunAwaitLoad \/ RunUnknownCode
  <2>1. active \in Tasks /\ status[active] # "none"
    BY <1>5, <1>7 DEF Run
  <2>2. sessions[codeOf[active]] = "absent"
    BY <1>7 DEF RunAwaitLoad, RunUnknownCode
  <2>3. codeOf[active] \in FileCodes
    BY <2>1, <2>2 DEF ServedInv
  <2> QED BY <1>0, <1>7, <2>3, ServedFrame
          DEF RunAwaitLoad, RunUnknownCode, RunRejected, taskVars, sessionVars
<1>8. phase \in {"waiting", "evaluating", "persisting"} =>
        active \in Tasks /\ status[active] = "running"
  BY <1>0 DEF SlotOK, TypeOK
<1>9. CASE EvalEnter
  <2>1. CASE Cancelled(active)
    BY <1>0, <1>8, <1>9, <2>1, SettleServed DEF EvalEnter
  <2>2. CASE ~Cancelled(active)
    BY <1>0, <1>9, <2>2, ServedFrame DEF EvalEnter, sessionVars
  <2> QED BY <2>1, <2>2
<1>10. ASSUME NEW ok \in BOOLEAN, NEW saved \in BOOLEAN, EvalReturn(ok, saved)
       PROVE  ServedInv'
  <2> DEFINE good == ok /\ ~Cancelled(active)
  <2>1. CASE good /\ Bound(codeOf[active], object)
    BY <1>0, <1>10, <2>1, ServedFrame DEF EvalReturn
  <2>2. CASE ~(good /\ Bound(codeOf[active], object))
    <3>1. Settle(good) /\ good \in BOOLEAN
      BY <1>10, <2>2 DEF EvalReturn
    <3>2. active \in Tasks /\ status[active] = "running"
      BY <1>8, <1>10 DEF EvalReturn
    <3> HIDE DEF good
    <3> QED BY <1>0, <3>1, <3>2, SettleServed
  <2> QED BY <2>1, <2>2
<1>11. ASSUME NEW ok \in BOOLEAN, PersistReturn(ok)
       PROVE  ServedInv'
  <2> DEFINE good == ok /\ ~Cancelled(active)
  <2>1. Settle(good) /\ good \in BOOLEAN
    BY <1>11 DEF PersistReturn
  <2>2. active \in Tasks /\ status[active] = "running"
    BY <1>8, <1>11 DEF PersistReturn
  <2> HIDE DEF good
  <2> QED BY <1>0, <2>1, <2>2, SettleServed
<1>12. ASSUME NEW c \in Codes, LoadDone(c)
       PROVE  ServedInv'
  <2>1. \A d \in Codes \ FileCodes :
          sessions[d] # "absent" => sessions'[d] # "absent"
    BY <1>0, <1>12 DEF LoadDone, TypeOK
  <2> QED BY <1>0, <1>12, <2>1, ServedFrame DEF LoadDone, taskVars
<1>13. ASSUME NEW c \in Codes, LoadFail(c)
       PROVE  ServedInv'
  <2>1. CASE phase = "loading" /\ codeOf[active] = c
    <3>1. codeOf[active] \in FileCodes
      BY <2>1 DEF ServedInv
    <3> QED BY <1>0, <1>13, <2>1, <3>1, ServedFrame DEF LoadFail, RunRejected, taskVars
  <2>2. CASE ~(phase = "loading" /\ codeOf[active] = c)
    BY <1>0, <1>13, <2>2, ServedFrame DEF LoadFail, taskVars, queueVars
  <2> QED BY <2>1, <2>2
<1>14. ASSUME NEW c \in Codes, DeleteFile(c)
       PROVE  ServedInv'
  <2>1. c \in FileCodes /\ file' \subseteq file
    BY <1>14 DEF DeleteFile, ServedInv
  <2>2. \A d \in Codes \ FileCodes : sessions'[d] = sessions[d]
    BY <1>0, <1>14, <2>1 DEF DeleteFile, TypeOK
  <2> QED BY <1>0, <1>14, <2>1, <2>2, ServedFrame DEF DeleteFile, taskVars, queueVars
<1>15. ASSUME NEW c \in Codes,
              \/ LoadBegin(c) \/ DeleteRequest(c) \/ OtherRequest(c)
              \/ \E removed \in BOOLEAN : Unlink(c, removed)
              \/ DeleteFails(c)
              \/ \E o \in Objects, saved \in BOOLEAN : OtherDone(c, o, saved)
       PROVE  ServedInv'
  BY <1>0, <1>15, ServedFrame DEF LoadBegin, DeleteRequest, OtherRequest, Unlink,
     DeleteFails, OtherDone, taskVars, queueVars
<1>16. CASE UNCHANGED vars
  BY <1>0, <1>16, ServedFrame DEF vars, taskVars, queueVars, sessionVars
<1> QED BY <1>1, <1>2, <1>3, <1>4, <1>6, <1>7, <1>9, <1>10, <1>11, <1>12, <1>13,
           <1>14, <1>15, <1>16
        DEF Next, Cancel, Run, LoadEnd, JobEnd, DeleteEnd

LEMMA InitServed ==
  ASSUME Init
  PROVE  ServedInv
BY DEF Init, ServedInv, Told

\* Whatever notebooks are deleted beside it, a VM that is not bound to one serves
\* each of its tasks to the end: the task's stream is one of the legal ones, and
\* the slot is never lost to it (getOrLoadSession of runExecutionTask, before the
\* try block of sessions.ts:997, cannot fail for it).
THEOREM ServedToTheEnd == Spec => []TasksAreServed
<1>1. ServedInv => LegalStreams
  <2> SUFFICES ASSUME ServedInv, NEW t \in Tasks, codeOf[t] \notin FileCodes
               PROVE  stream[t] \in Streams
    BY DEF LegalStreams
  <2>1. Told(status[t], stream[t])
    BY DEF ServedInv
  <2> QED BY <2>1 DEF Told, Streams
<1>2. ServedInv => SlotLostOnlyToDeletedNotebook
  BY DEF ServedInv, SlotLostOnlyToDeletedNotebook
<1>3. ServedInv => TasksAreServed
  BY <1>1, <1>2 DEF TasksAreServed
<1> QED BY <1>3, InitServed, NextServed, InitExclusion, NextExclusion, InitQueue,
           NextQueue, PTL DEF Spec

-----------------------------------------------------------------------------
(* The queue implements the serial executor.                                   *)

\* No request names a VM that is bound to a notebook.
Unbound == \A t \in Tasks : codeOf[t] \notin FileCodes

ExecutorInv ==
  ExclusionInv /\ QueueInv /\ CancelInv /\ ServedInv /\ Unbound

\* With the sessions of all tasks in place, no task waits for a load.
LEMMA NeverLoading ==
  ASSUME ExecutorInv
  PROVE  /\ phase \notin {"loading", "lost"}
         /\ active \in Tasks => sessions[codeOf[active]] # "absent"
<1>1. phase \notin {"loading", "lost"}
  <2>1. active \in Tasks \/ phase = "idle"
    BY DEF ExecutorInv, ExclusionInv, SlotOK, TypeOK
  <2> QED BY <2>1 DEF ExecutorInv, ServedInv, Unbound
<1>2. active \in Tasks => status[active] # "none"
  BY NoTaskAssumption DEF ExecutorInv, ExclusionInv, SlotOK, TypeOK
<1> QED BY <1>1, <1>2 DEF ExecutorInv, ServedInv, Unbound

\* A step that changes nothing a client of the queue can see.
LEMMA ExecutorStutter ==
  ASSUME UNCHANGED <<queue, active, cancelRequested, status>>
  PROVE  UNCHANGED Executor!vars
BY DEF Executor!vars

\* startExecutionTask is the submission of a job.
LEMMA StartSubmits ==
  ASSUME TypeOK, NEW t \in Tasks, Start(t)
  PROVE  Executor!Submit(t)
BY DEF TypeOK, Start, Startable, AtBack, Executor!Submit

\* cancelExecutionTask of a task in the queue is its withdrawal from the line.
LEMMA CancelWithdraws ==
  ASSUME ExecutorInv, NEW t \in Tasks, CancelQueued(t)
  PROVE  Executor!Withdraw(t)
<1> USE DEF ExecutorInv
<1>1. /\ control = "loop" /\ status[t] = "queued" /\ active' = active
      /\ status' = [status EXCEPT ![t] = "cancelled"]
      /\ cancelRequested' = [cancelRequested EXCEPT ![t] = TRUE]
      /\ queue' = Without(queue, t)
  BY DEF CancelQueued, Waiting
<1>2. TypeOK /\ SlotOK
  BY DEF ExclusionInv
<1>3. t # active
  BY <1>1, <1>2, NoTaskAssumption, NeverLoading DEF SlotOK, TypeOK
<1>4. t \in Members(queue) /\ queue \in Seq(Tasks)
  BY <1>1, <1>2, <1>3 DEF QueueInv, QueueIsComplete, TypeOK
<1>5. NoDuplicate(queue)
  BY DEF QueueInv, QueueIsComplete, NoDuplicate
<1>6. \E i \in DOMAIN queue : IsIndexOf(i, queue, t)
  BY <1>4, <1>5 DEF Members, NoDuplicate, IsIndexOf
<1> DEFINE i == CHOOSE i \in DOMAIN queue : IsIndexOf(i, queue, t)
<1>7. i \in DOMAIN queue /\ queue[i] = t
  BY <1>6 DEF IsIndexOf
<1>8. queue' = Splice(queue, i)
  BY <1>1, <1>4 DEF Without
<1> HIDE DEF i
<1>9. queue' = [k \in 1..(Len(queue) - 1) |-> queue[IF k < i THEN k ELSE k + 1]]
  BY <1>8 DEF Splice
<1>10. {u \in Tasks : cancelRequested'[u]} = {u \in Tasks : cancelRequested[u]} \union {t}
  BY <1>1, <1>2 DEF TypeOK
<1>11. [u \in Tasks |-> IF status'[u] \in {"queued", "running"}
                          THEN "pending" ELSE status'[u]] =
         [[u \in Tasks |-> IF status[u] \in {"queued", "running"}
                             THEN "pending" ELSE status[u]]
            EXCEPT ![t] = "cancelled"]
  BY <1>1, <1>2 DEF TypeOK
<1> QED BY <1>1, <1>7, <1>9, <1>10, <1>11 DEF Executor!Withdraw

\* cancelExecutionTask of the running task asks it to stop.
LEMMA CancelAsks ==
  ASSUME ExecutorInv, NEW t \in Tasks, CancelRunning(t)
  PROVE  Executor!AskToStop(t)
<1>1. status[t] = "running" /\ active = t
  BY DEF CancelRunning, ExecutorInv, ExclusionInv, OneAtATime
<1>2. /\ cancelRequested' = [cancelRequested EXCEPT ![t] = TRUE]
      /\ UNCHANGED <<queue, active, status>>
  BY DEF CancelRunning, queueVars
<1>3. {u \in Tasks : cancelRequested'[u]} = {u \in Tasks : cancelRequested[u]} \union {t}
  BY <1>2 DEF ExecutorInv, ExclusionInv, TypeOK
<1> QED BY <1>1, <1>2, <1>3 DEF Executor!AskToStop

\* processExecutionQueue never skips an id it shifts: it serves the next job.
LEMMA ShiftServes ==
  ASSUME ExecutorInv, PumpShift
  PROVE  Executor!Serve
<1> USE DEF ExecutorInv, ExclusionInv, QueueInv
<1>1. queue # <<>> /\ queue \in Seq(Tasks)
  BY DEF PumpShift, TypeOK
<1>2. Head(queue) \in Tasks /\ Head(queue) \in Members(queue)
  BY <1>1, MembersTail
<1>3. /\ status[Head(queue)] = "queued" /\ Head(queue) \in known
      /\ ~cancelRequested[Head(queue)]
  BY <1>2 DEF QueueIsComplete, LiveTasksAreKnown
<1>4. /\ active = NoTask /\ active' = Head(queue) /\ queue' = Tail(queue)
      /\ UNCHANGED <<cancelRequested, status>>
  BY <1>3 DEF PumpShift, taskVars
<1> QED BY <1>1, <1>4 DEF Executor!Serve

\* The end of an evaluation ends the job that is served, as cancelled exactly when
\* a client was told that its cancellation is accepted.
LEMMA SettleEnds ==
  ASSUME TypeOK, NEW ok \in BOOLEAN, Settle(ok), active \in Tasks,
         ok => ~cancelRequested[active]
  PROVE  \E o \in {"completed", "failed", "cancelled"} : Executor!End(o)
<1> DEFINE o == IF ok THEN "completed"
                ELSE IF cancelRequested[active] THEN "cancelled" ELSE "failed"
<1>1. /\ status' = [status EXCEPT ![active] = o] /\ active' = NoTask
      /\ UNCHANGED <<queue, cancelRequested>>
  BY DEF Settle
<1>2. o \in {"completed", "failed", "cancelled"}
  OBVIOUS
<1>3. IF active \in {u \in Tasks : cancelRequested[u]}
        THEN o = "cancelled" ELSE o \in {"completed", "failed"}
  OBVIOUS
<1> HIDE DEF o
<1>4. [u \in Tasks |-> IF status'[u] \in {"queued", "running"}
                         THEN "pending" ELSE status'[u]] =
        [[u \in Tasks |-> IF status[u] \in {"queued", "running"}
                            THEN "pending" ELSE status[u]]
           EXCEPT ![active] = o]
  BY <1>1, <1>2 DEF TypeOK
<1>5. active # NoTask
  BY NoTaskAssumption
<1> QED BY <1>1, <1>2, <1>3, <1>4, <1>5 DEF Executor!End

\* Every step of the server is a step of the executor, or one it cannot see.
LEMMA NextImplements ==
  ASSUME ExecutorInv, [Next]_vars
  PROVE  [Executor!Next]_(Executor!vars)
<1>0. TypeOK /\ SlotOK
  BY DEF ExecutorInv, ExclusionInv
<1>1. ASSUME NEW t \in Tasks, Start(t) \/ Cancel(t)
      PROVE  Executor!Next
  <2>1. Executor!Submit(t) \/ Executor!Withdraw(t) \/ Executor!AskToStop(t)
    BY <1>0, <1>1, StartSubmits, CancelWithdraws, CancelAsks DEF Cancel
  <2> QED BY <2>1 DEF Executor!Next
<1>2. CASE Pump
  <2>1. PumpShift => Executor!Next
    BY ShiftServes DEF Executor!Next
  <2>2. PumpExit => UNCHANGED Executor!vars
    BY ExecutorStutter DEF PumpExit, taskVars
  <2> QED BY <1>2, <2>1, <2>2 DEF Pump
<1>3. CASE Run
  <2>1. active \in Tasks /\ sessions[codeOf[active]] # "absent"
        /\ phase = "idle" /\ status[active] = "queued"
    BY <1>0, <1>3, NeverLoading
       DEF Run, RunStart, RunAwaitLoad, RunUnknownCode, SlotOK, TypeOK
  <2>2. /\ status' = [status EXCEPT ![active] = "running"]
        /\ UNCHANGED <<queue, active, cancelRequested>>
    BY <1>3, <2>1 DEF Run, RunStart, RunAwaitLoad, RunUnknownCode
  <2>3. [u \in Tasks |-> IF status'[u] \in {"queued", "running"}
                           THEN "pending" ELSE status'[u]] =
          [u \in Tasks |-> IF status[u] \in {"queued", "running"}
                             THEN "pending" ELSE status[u]]
    BY <1>0, <2>1, <2>2 DEF TypeOK
  <2> QED BY <2>2, <2>3 DEF Executor!vars
<1>4. phase \in {"waiting", "evaluating", "persisting"} => active \in Tasks
  BY <1>0 DEF SlotOK, TypeOK
<1>5. ASSUME NEW ok \in BOOLEAN, Settle(ok), ok => ~cancelRequested[active],
             active \in Tasks
      PROVE  Executor!Next
  BY <1>0, <1>5, SettleEnds DEF Executor!Next
<1>6. CASE EvalEnter
  <2>1. CASE Cancelled(active)
    BY <1>4, <1>5, <1>6, <2>1 DEF EvalEnter
  <2>2. CASE ~Cancelled(active)
    BY <1>6, <2>2, ExecutorStutter DEF EvalEnter
  <2> QED BY <2>1, <2>2
<1>7. ASSUME NEW ok \in BOOLEAN, NEW saved \in BOOLEAN, EvalReturn(ok, saved)
      PROVE  [Executor!Next]_(Executor!vars)
  <2> DEFINE good == ok /\ ~Cancelled(active)
  <2>1. CASE good /\ Bound(codeOf[active], object)
    BY <1>7, <2>1, ExecutorStutter DEF EvalReturn
  <2>2. CASE ~(good /\ Bound(codeOf[active], object))
    <3>1. Settle(good) /\ good \in BOOLEAN /\ (good => ~cancelRequested[active])
      BY <1>7, <2>2 DEF EvalReturn, Cancelled
    <3>2. active \in Tasks
      BY <1>4, <1>7 DEF EvalReturn
    <3> HIDE DEF good
    <3> QED BY <1>5, <3>1, <3>2
  <2> QED BY <2>1, <2>2
<1>8. ASSUME NEW ok \in BOOLEAN, PersistReturn(ok)
      PROVE  Executor!Next
  <2> DEFINE good == ok /\ ~Cancelled(active)
  <2>1. Settle(good) /\ good \in BOOLEAN /\ (good => ~cancelRequested[active])
    BY <1>8 DEF PersistReturn, Cancelled
  <2>2. active \in Tasks
    BY <1>4, <1>8 DEF PersistReturn
  <2> HIDE DEF good
  <2> QED BY <1>5, <2>1, <2>2
<1>9. ASSUME NEW c \in Codes,
             \/ LoadBegin(c) \/ LoadEnd(c) \/ DeleteRequest(c)
             \/ OtherRequest(c) \/ \E o \in Objects : JobEnd(c, o)
      PROVE  UNCHANGED Executor!vars
  BY <1>9, ExecutorStutter DEF LoadBegin, LoadEnd, LoadDone, LoadFail,
     RunRejected, DeleteRequest, OtherRequest, JobEnd, DeleteEnd, DeleteFile,
     Unlink, DeleteFails, OtherDone, taskVars, queueVars
<1>10. CASE UNCHANGED vars
  BY <1>10, ExecutorStutter DEF vars, taskVars, queueVars
<1> QED BY <1>1, <1>2, <1>3, <1>6, <1>7, <1>8, <1>9, <1>10 DEF Next

LEMMA InitImplements ==
  ASSUME Init
  PROVE  Executor!Init
BY DEF Init, Executor!Init

\* As long as no request names a VM that is bound to a notebook, the queue, its
\* pump, the sessions and their mutexes together are a first-come-first-served
\* executor of one job at a time: whatever else the server does, a client sees
\* jobs submitted, withdrawn, served in turn, asked to stop and ended.
THEOREM ImplementsSerialExecutor == Spec /\ Unbound => SerialExecution
<1>1. Unbound /\ [Next]_vars => Unbound'
  BY DEF Unbound, Next, Start, Cancel, CancelQueued, CancelRunning, Pump, PumpShift,
     PumpExit, Run, RunStart, RunAwaitLoad, RunUnknownCode, RunRejected, EvalEnter,
     EvalReturn, PersistReturn, Settle, LoadBegin, LoadEnd, LoadDone, LoadFail,
     DeleteRequest, OtherRequest, JobEnd, DeleteEnd, DeleteFile, Unlink,
     DeleteFails, OtherDone, vars, taskVars
<1>2. Init => CancelInv
  BY DEF Init, CancelInv
<1>3. Spec => [](ExclusionInv /\ QueueInv /\ CancelInv /\ ServedInv)
  BY <1>2, InitServed, NextServed, InitExclusion, NextExclusion, InitQueue,
     NextQueue, NextCancel, PTL DEF Spec
<1>4. ExclusionInv /\ QueueInv /\ CancelInv /\ ServedInv /\ Unbound => ExecutorInv
  BY DEF ExecutorInv
<1>5. Spec /\ Unbound => []ExecutorInv
  BY <1>1, <1>3, <1>4, PTL DEF Spec
<1> QED BY <1>5, InitImplements, NextImplements, PTL
        DEF Spec, SerialExecution, Executor!Spec
=============================================================================
