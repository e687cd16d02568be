-------------------------- MODULE RecoverableVmProofs --------------------------
(***************************************************************************)
(* Proofs about RecoverableVm, for any number of files, evaluations, VMs   *)
(* and unfinished writes: what a VM recovers to, and that the notebook     *)
(* holds what was answered.                                                *)
(***************************************************************************)
EXTENDS RecoverableVm, SequenceTheorems, TLAPS

Replaying(g) == op.vm = g /\ op.step = "replay"
Preparing == op.kind = "restart" /\ op.step \in {"replay", "run"}

\* What the operation that runs can be suspended at, and in which VM.
ShapeOK ==
  /\ op.step = "idle" \/ op.kind = "idle" => op = Idle
  /\ op.kind = "eval" => /\ op.step \in {"replay", "run", "persist", "embed", "embedding"}
                         /\ op.vm = current /\ op.eval \in Evals
  /\ op.kind = "file" => op.step \in {"embed", "embedding"} /\ op.vm = current
  /\ op.kind = "restart" => op.step \in {"hydrate", "load", "replay", "run"}
  /\ op.kind = "reload" => op.step \in {"hydrate", "load"}
  /\ op.step \in {"hydrate", "load"} => op.vm = 0 /\ made < MaxVms
  /\ Preparing => op.vm \in prepared /\ op.vm # current /\ op.vm = made
  /\ op.kind \in {"eval", "file", "restart"} => current # 0
  /\ current # 0 => current \in prepared
  /\ prepared \subseteq 1..made

\* Persistence is off exactly while user code runs for an operation, and until the
\* snapshot of its cell is written.
SuppressOK ==
  \A g \in Vms : suppress[g] <=> op.vm = g /\ op.step \in {"replay", "run", "persist"}

\* A VM that was not made yet is as it was at the start, and so are all when there
\* is no process.
FreshOK ==
  \A g \in Vms : g > made \/ current = 0 => ran[g] = <<>> /\ chain[g] = <<>> /\ ~loose[g]

\* How far the context of a VM has come.
ContextOf(g) ==
  /\ replayed[g] => ran[g] = cells[g] /\ ~Replaying(g)
  /\ ~replayed[g] => /\ cells[g] # <<>>
                     /\ ~Replaying(g) => ran[g] = <<>>
                     /\ ~(op.vm = g /\ op.step \in {"run", "persist"})
  /\ Replaying(g) => /\ op.at \in 1..Len(cells[g])
                     /\ ran[g] = SubSeq(cells[g], 1, op.at - 1)
ContextOK == \A g \in prepared : ContextOf(g)

\* Before the replay the files of the requests are in the snapshot too, which the
\* replay puts back.
KeptOK ==
  current # 0 =>
    /\ Replaying(current) \/ kept \subseteq files[current]
    /\ ~replayed[current] => kept \subseteq saved[current]

VmInv == TypeOK /\ ShapeOK /\ SuppressOK /\ FreshOK /\ ContextOK /\ KeptOK

\* The snapshot file, the snapshots on their way and the VM hold ever more cells.
LineOK(g) ==
  /\ IsPrefix(disk.cells, cells[g])
  /\ \A i \in 1..Len(chain[g]) :
       /\ IsPrefix(disk.cells, chain[g][i].cells)
       /\ IsPrefix(chain[g][i].cells, cells[g])
       /\ \A j \in i..Len(chain[g]) : IsPrefix(chain[g][i].cells, chain[g][j].cells)

\* So does the notebook, which lags behind the file, as long as no VM that was
\* replaced writes the file.
LagOK ==
  /\ Preparing => chain[op.vm] = <<>>
  /\ ~intruded =>
     /\ current # 0 \/ op.step = "load" => IsPrefix(copy.cells, disk.cells)
     /\ op.step = "hydrate" => op.read = copy
     /\ op.step = "embedding" =>
          IsPrefix(copy.cells, op.read.cells) /\ IsPrefix(op.read.cells, disk.cells)
     /\ Preparing => disk.cells = cells[op.vm]
     /\ current # 0 => LineOK(current)

\* Where the evaluation that is being saved has come to.
AnswerOK ==
  /\ op.step = "persist" =>
       /\ op.kind = "eval" /\ chain[op.vm] # <<>>
       /\ op.eval \in ToSet(chain[op.vm][Len(chain[op.vm])].cells)
  /\ ~intruded =>
     /\ op.kind = "eval" /\ op.step = "embed" => op.eval \in ToSet(disk.cells)
     /\ op.kind = "eval" /\ op.step = "embedding" => op.eval \in ToSet(op.read.cells)
     /\ answered \subseteq ToSet(copy.cells)

SavedInv == VmInv /\ LagOK /\ AnswerOK

-----------------------------------------------------------------------------
(* Prefixes of sequences of evaluations. *)

LEMMA PrefixDef ==
  ASSUME NEW s \in Seq(Evals), NEW t \in Seq(Evals)
  PROVE  IsPrefix(s, t) <=> Len(s) <= Len(t) /\ \A i \in 1..Len(s) : s[i] = t[i]
<1>1. CASE Len(s) <= Len(t)
  <2> DEFINE u == SubSeq(t, 1, Len(s))
  <2>1. SubSeq(s, 1, Len(s)) = s
    BY SubSeqFull
  <2>2. u \in Seq(Evals) /\ Len(u) = Len(s) /\ \A i \in 1..Len(s) : u[i] = t[i]
    BY <1>1
  <2>3. s = u <=> \A i \in 1..Len(s) : s[i] = u[i]
    BY <2>2, SeqEqual
  <2> QED BY <1>1, <2>1, <2>2, <2>3 DEF IsPrefix
<1>2. CASE ~(Len(s) <= Len(t))
  BY <1>2 DEF IsPrefix
<1> QED BY <1>1, <1>2

LEMMA PrefixSelf == ASSUME NEW s \in Seq(Evals) PROVE IsPrefix(s, s)
BY PrefixDef

LEMMA PrefixTrans ==
  ASSUME NEW s \in Seq(Evals), NEW t \in Seq(Evals), NEW u \in Seq(Evals),
         IsPrefix(s, t), IsPrefix(t, u)
  PROVE  IsPrefix(s, u)
BY PrefixDef

LEMMA PrefixAppend ==
  ASSUME NEW s \in Seq(Evals), NEW e \in Evals
  PROVE  IsPrefix(s, Append(s, e))
<1> DEFINE t == Append(s, e)
<1>1. t \in Seq(Evals) /\ Len(t) = Len(s) + 1 /\ \A i \in 1..Len(s) : t[i] = s[i]
  BY AppendProperties
<1>2. Len(s) \in Nat
  OBVIOUS
<1> HIDE DEF t
<1>3. IsPrefix(s, t)
  BY <1>1, <1>2, PrefixDef
<1> QED BY <1>3 DEF t

LEMMA PrefixKeeps ==
  ASSUME NEW s \in Seq(Evals), NEW t \in Seq(Evals), IsPrefix(s, t)
  PROVE  ToSet(s) \subseteq ToSet(t)
<1>1. DOMAIN s = 1..Len(s) /\ DOMAIN t = 1..Len(t)
  OBVIOUS
<1> QED BY <1>1, PrefixDef DEF ToSet

LEMMA AppendKeeps ==
  ASSUME NEW s \in Seq(Evals), NEW e \in Evals
  PROVE  e \in ToSet(Append(s, e))
<1>1. Append(s, e)[Len(s) + 1] = e /\ Len(s) + 1 \in DOMAIN Append(s, e)
  OBVIOUS
<1> QED BY <1>1 DEF ToSet

-----------------------------------------------------------------------------
(* The steps of Next, and what they share. *)

Step ==
  \/ Evaluate \/ FailedReplay \/ EmbedRead \/ Cancelled \/ Boot
  \/ Load \/ Prepared \/ FailedPrepare \/ Crash
  \/ \E f \in SUBSET Files, timer \in BOOLEAN :
       ReplayCell(f, timer) \/ RunCell(f, timer) \/ FailCell(f, timer)
  \/ \E g \in Vms, ok \in BOOLEAN : Write(g, ok)
  \/ \E x \in Files : ChangeFile(x)
  \/ \E ok \in BOOLEAN : EmbedWrite(ok) \/ Hydrate(ok)
  \/ \E kind \in {"restart", "reload"} : Restart(kind)
  \/ \E g \in Vms, x \in Files : Background(g, x)
  \/ \E g \in Vms : Settle(g)

LEMMA NextIsStep == Next => Step
BY ResultsAssumption DEF Next, Step, Code, Cell, Flush, Embed, Renew

LEMMA VmFacts ==
  ASSUME TypeOK, ShapeOK
  PROVE  /\ current # 0 => current \in Vms
         /\ Preparing => op.vm \in Vms
         /\ op.step \in {"replay", "run"} => op.vm \in prepared /\ op.vm \in Vms
         /\ op.kind \in {"eval", "file"} => op.vm = current /\ current \in Vms
         /\ prepared \subseteq Vms
<1>1. MaxVms \in Nat /\ current \in 0..MaxVms /\ made \in 0..MaxVms
  BY BoundsAssumption DEF TypeOK
<1>2. prepared \subseteq Vms
  BY <1>1 DEF ShapeOK, Vms
<1>3. current # 0 => current \in Vms /\ current \in prepared
  BY <1>1, <1>2 DEF ShapeOK
<1>4. Preparing => op.vm \in prepared
  BY DEF ShapeOK
<1>5. op.kind \in {"eval", "file"} => op.vm = current /\ current # 0
  BY DEF ShapeOK
<1>6. ASSUME op.step \in {"replay", "run"}
      PROVE  op.vm \in prepared
  <2>1. CASE op.kind = "eval"
    BY <2>1, <1>3, <1>5
  <2>2. CASE op.kind = "restart"
    BY <2>2, <1>4, <1>6 DEF Preparing
  <2>3. op.kind \in {"eval", "restart"}
    BY <1>6 DEF ShapeOK, TypeOK, OpTypeOK, Idle
  <2> QED BY <2>1, <2>2, <2>3
<1> QED BY <1>2, <1>3, <1>4, <1>5, <1>6

LEMMA ToggledFacts ==
  ASSUME NEW x \in Files, NEW S \in SUBSET Files
  PROVE  Toggled(x, S) \in SUBSET Files
BY DEF Toggled

LEMMA EffectFacts ==
  ASSUME TypeOK, NEW g \in Vms, NEW f, NEW timer \in BOOLEAN, Effect(g, f, timer)
  PROVE  f \in SUBSET Files /\ loose' \in [Vms -> BOOLEAN]
BY ToggledFacts DEF TypeOK, Effect

LEMMA PersistFacts ==
  ASSUME TypeOK, NEW g \in Vms, NEW c \in Seq(Evals), NEW f \in SUBSET Files,
         Persist(g, c, f)
  PROVE  /\ saved' \in [Vms -> SUBSET Files] /\ chain' \in [Vms -> Seq(Snapshots)]
         /\ saved'[g] = f
         /\ chain'[g] = Append(chain[g], [cells |-> c, files |-> f])
         /\ \A h \in Vms \ {g} : saved'[h] = saved[h] /\ chain'[h] = chain[h]
<1>1. [cells |-> c, files |-> f] \in Snapshots
  BY DEF Snapshots
<1>2. Append(chain[g], [cells |-> c, files |-> f]) \in Seq(Snapshots)
  BY <1>1 DEF TypeOK
<1> QED BY <1>2 DEF TypeOK, Persist

LEMMA ChangeFacts ==
  ASSUME TypeOK, NEW g \in Vms, NEW f \in SUBSET Files, Change(g, f)
  PROVE  /\ files' \in [Vms -> SUBSET Files]
         /\ saved' \in [Vms -> SUBSET Files] /\ chain' \in [Vms -> Seq(Snapshots)]
         /\ files'[g] = f
         /\ \A h \in Vms \ {g} :
              files'[h] = files[h] /\ saved'[h] = saved[h] /\ chain'[h] = chain[h]
         /\ \/ /\ g \in prepared /\ ~suppress[g] /\ saved'[g] = f
               /\ chain'[g] = Append(chain[g], [cells |-> cells[g], files |-> f])
            \/ /\ ~(g \in prepared /\ ~suppress[g])
               /\ saved'[g] = saved[g] /\ chain'[g] = chain[g]
<1>1. cells[g] \in Seq(Evals)
  BY DEF TypeOK
<1>2. CASE g \in prepared /\ ~suppress[g]
  BY <1>1, <1>2, PersistFacts DEF Change, TypeOK
<1>3. CASE ~(g \in prepared /\ ~suppress[g])
  BY <1>3 DEF Change, TypeOK
<1> QED BY <1>2, <1>3

-----------------------------------------------------------------------------
(* Types. *)

Ops ==
  [kind : {"idle", "eval", "file", "restart", "reload"},
   step : {"idle", "replay", "run", "persist", "embed", "embedding",
           "hydrate", "load"},
   vm : 0..MaxVms, at : Nat, eval : 0..MaxEvals, read : Snapshots]

LEMMA OpsFacts ==
  /\ OpTypeOK <=> op \in Ops
  /\ OpTypeOK' <=> op' \in Ops
  /\ Empty \in Snapshots
  /\ Idle \in Ops
BY BoundsAssumption DEF OpTypeOK, Ops, Idle, Empty, Snapshots

LEMMA SnapshotFacts ==
  ASSUME TypeOK
  PROVE  /\ disk.cells \in Seq(Evals) /\ disk.files \in SUBSET Files
         /\ copy.cells \in Seq(Evals)
         /\ op.read \in Snapshots /\ op.read.cells \in Seq(Evals)
         /\ \A g \in Vms : \A i \in 1..Len(chain[g]) :
              chain[g][i] \in Snapshots /\ chain[g][i].cells \in Seq(Evals)
<1>1. \A s \in Snapshots : s.cells \in Seq(Evals) /\ s.files \in SUBSET Files
  BY DEF Snapshots
<1>2. disk \in Snapshots /\ copy \in Snapshots /\ op.read \in Snapshots
  BY DEF TypeOK, OpTypeOK
<1>3. ASSUME NEW g \in Vms, NEW i \in 1..Len(chain[g])
      PROVE  chain[g][i] \in Snapshots
  <2>1. chain[g] \in Seq(Snapshots)
    BY DEF TypeOK
  <2> QED BY <2>1, ElementOfSeq
<1> QED BY <1>1, <1>2, <1>3

LEMMA TypeStep == ASSUME TypeOK, ShapeOK, ContextOK, [Step]_vars PROVE TypeOK'
<1> USE BoundsAssumption, VmFacts
<1>1. CASE Evaluate
  <2>1. evals' \in 0..MaxEvals
    BY <1>1 DEF Evaluate, TypeOK
  <2>2. op' \in Ops
    <3>1. current \in 0..MaxVms /\ evals + 1 \in 0..MaxEvals
      BY <1>1 DEF Evaluate, TypeOK
    <3> QED BY <1>1, <3>1, OpsFacts DEF Evaluate, Ops, Idle
  <2> QED BY <1>1, <2>1, <2>2, OpsFacts DEF Evaluate, TypeOK, diskVars, historyVars
<1>2. CASE FailedReplay
  BY <1>2, OpsFacts, EmptySeq DEF FailedReplay, Busy, TypeOK, diskVars, countVars, historyVars
<1>3. CASE EmbedRead
  <2>1. op' \in Ops
    BY <1>3, OpsFacts DEF EmbedRead, TypeOK, Ops
  <2> QED
    BY <1>3, <2>1, OpsFacts DEF EmbedRead, TypeOK, vmVars, diskVars, countVars, historyVars
<1>4. CASE Cancelled
  BY <1>4, OpsFacts DEF Cancelled, TypeOK, vmVars, diskVars, countVars, historyVars
<1>5. CASE Boot
  <2>1. op' \in Ops
    BY <1>5, OpsFacts DEF Boot, TypeOK, Ops, Idle
  <2> QED
    BY <1>5, <2>1, OpsFacts DEF Boot, TypeOK, vmVars, diskVars, countVars, historyVars
<1>6. CASE Load
  <2> DEFINE g == made + 1
  <2>1. g \in Vms /\ g \in 0..MaxVms
    BY <1>6 DEF Load, Busy, ShapeOK, TypeOK, Vms
  <2>2. op' \in Ops /\ current' \in 0..MaxVms /\ kept' \subseteq Files
          /\ suppress' \in [Vms -> BOOLEAN]
    <3>1. CASE op.kind = "restart" /\ disk.cells # <<>>
      <4>1. op' = [op EXCEPT !.step = "replay", !.vm = g, !.at = 1]
        BY <1>6, <3>1 DEF Load
      <4>2. op' \in Ops
        BY <4>1, <2>1, OpsFacts DEF TypeOK, Ops
      <4> QED BY <1>6, <3>1, <2>1, <4>2 DEF Load, TypeOK
    <3>2. CASE ~(op.kind = "restart" /\ disk.cells # <<>>)
      BY <1>6, <3>2, <2>1, OpsFacts DEF Load, Swap, TypeOK
    <3> QED BY <3>1, <3>2
  <2>3. /\ cells' \in [Vms -> Seq(Evals)] /\ saved' \in [Vms -> SUBSET Files]
        /\ files' \in [Vms -> SUBSET Files] /\ replayed' \in [Vms -> BOOLEAN]
    BY <1>6, <2>1, SnapshotFacts DEF Load, TypeOK
  <2> QED BY <1>6, <2>1, <2>2, <2>3, OpsFacts DEF Load, TypeOK, diskVars
<1>7. CASE Prepared
  <2>1. op.vm \in Vms /\ op.vm \in 0..MaxVms
    BY <1>7 DEF Prepared, Busy, Vms
  <2> QED BY <1>7, <2>1, OpsFacts DEF Prepared, Swap, TypeOK, diskVars
<1>8. CASE FailedPrepare
  BY <1>8, OpsFacts, EmptySeq DEF FailedPrepare, Busy, TypeOK, diskVars, countVars,
     historyVars
<1>9. CASE Crash
  <2>1. <<>> \in Seq(Evals) /\ <<>> \in Seq(Snapshots)
    OBVIOUS
  <2> QED BY <1>9, <2>1, OpsFacts DEF Crash, TypeOK, diskVars
<1>10. ASSUME NEW f \in SUBSET Files, NEW timer \in BOOLEAN, ReplayCell(f, timer)
       PROVE  TypeOK'
  <2> DEFINE g == op.vm
  <2>1. g \in Vms /\ g \in prepared /\ Replaying(g)
    BY <1>10 DEF ReplayCell, Busy, Replaying
  <2>2. op.at \in 1..Len(cells[g]) /\ cells[g] \in Seq(Evals) /\ ran[g] \in Seq(Evals)
    BY <2>1 DEF ContextOK, ContextOf, TypeOK
  <2>3. Append(ran[g], cells[g][op.at]) \in Seq(Evals)
    BY <2>2, ElementOfSeq, AppendProperties
  <2>4. op' \in Ops
    <3>1. op \in Ops /\ op.at + 1 \in Nat
      BY <2>2, OpsFacts DEF TypeOK, Ops
    <3>2. op' = [op EXCEPT !.step = "run"] \/ op' = [op EXCEPT !.at = @ + 1]
      BY <1>10 DEF ReplayCell
    <3> QED BY <3>1, <3>2 DEF Ops
  <2>5. /\ ran' \in [Vms -> Seq(Evals)] /\ files' \in [Vms -> SUBSET Files]
        /\ replayed' \in [Vms -> BOOLEAN] /\ loose' \in [Vms -> BOOLEAN]
    BY <1>10, <2>1, <2>3, EffectFacts DEF ReplayCell, TypeOK
  <2> QED
    BY <1>10, <2>4, <2>5, OpsFacts DEF ReplayCell, TypeOK, diskVars, countVars, historyVars
<1>11. ASSUME NEW f \in SUBSET Files, NEW timer \in BOOLEAN, RunCell(f, timer)
       PROVE  TypeOK'
  <2> DEFINE g == op.vm
             next == Append(cells[g], op.eval)
  <2>1. g \in Vms /\ op.eval \in Evals
    BY <1>11 DEF RunCell, Busy, ShapeOK
  <2>2. next \in Seq(Evals) /\ Append(ran[g], op.eval) \in Seq(Evals)
    BY <2>1 DEF TypeOK
  <2>3. op' \in Ops /\ kept' \subseteq Files
    BY <1>11, OpsFacts DEF RunCell, StillKept, TypeOK, Ops
  <2>4. Persist(g, next, f) /\ Effect(g, f, timer)
    BY <1>11 DEF RunCell
  <2>5. /\ cells' \in [Vms -> Seq(Evals)] /\ ran' \in [Vms -> Seq(Evals)]
        /\ files' \in [Vms -> SUBSET Files]
    BY <1>11, <2>1, <2>2 DEF RunCell, TypeOK
  <2> HIDE DEF g, next
  <2>6. /\ saved' \in [Vms -> SUBSET Files] /\ chain' \in [Vms -> Seq(Snapshots)]
        /\ loose' \in [Vms -> BOOLEAN]
    BY <2>1, <2>2, <2>4, EffectFacts, PersistFacts
  <2> QED
    BY <1>11, <2>3, <2>5, <2>6, OpsFacts DEF RunCell, TypeOK, diskVars, countVars
<1>12. ASSUME NEW f \in SUBSET Files, NEW timer \in BOOLEAN, FailCell(f, timer)
       PROVE  TypeOK'
  <2>1. op.vm \in Vms
    BY <1>12 DEF FailCell, Busy
  <2>2. loose' \in [Vms -> BOOLEAN]
    BY <1>12, <2>1, EffectFacts DEF FailCell
  <2> QED
    BY <1>12, <2>1, <2>2, OpsFacts DEF FailCell, StillKept, TypeOK, diskVars, countVars
<1>13. ASSUME NEW g \in Vms, NEW ok \in BOOLEAN, Write(g, ok)
       PROVE  TypeOK'
  <2>1. chain[g] \in Seq(Snapshots) /\ chain[g] # <<>>
    BY <1>13 DEF Write, TypeOK
  <2>2. Head(chain[g]) \in Snapshots /\ Tail(chain[g]) \in Seq(Snapshots)
    BY <2>1
  <2>3. op' \in Ops
    BY <1>13, OpsFacts DEF Write, TypeOK, Ops
  <2> QED BY <1>13, <2>2, <2>3, OpsFacts DEF Write, TypeOK, countVars
<1>14. ASSUME NEW x \in Files, ChangeFile(x)
       PROVE  TypeOK'
  <2> DEFINE f == Toggled(x, files[current])
  <2>1. current \in Vms /\ Change(current, f)
    BY <1>14 DEF ChangeFile
  <2>2. f \in SUBSET Files
    BY <2>1, ToggledFacts DEF TypeOK
  <2>3. op' \in Ops /\ kept' \subseteq Files
    BY <1>14, OpsFacts DEF ChangeFile, TypeOK, Ops, Idle
  <2> HIDE DEF f
  <2>4. /\ saved' \in [Vms -> SUBSET Files] /\ chain' \in [Vms -> Seq(Snapshots)]
        /\ files' \in [Vms -> SUBSET Files]
    BY <2>1, <2>2, ChangeFacts
  <2> QED BY <1>14, <2>3, <2>4, OpsFacts DEF ChangeFile, TypeOK, diskVars, countVars
<1>15. ASSUME NEW ok \in BOOLEAN, EmbedWrite(ok)
       PROVE  TypeOK'
  <2>1. op.kind = "eval" => op.eval \in Evals
    BY DEF ShapeOK
  <2> QED
    BY <1>15, <2>1, OpsFacts, SnapshotFacts DEF EmbedWrite, TypeOK, vmVars, countVars
<1>16. ASSUME NEW ok \in BOOLEAN, Hydrate(ok)
       PROVE  TypeOK'
  <2>1. op' \in Ops
    BY <1>16, OpsFacts DEF Hydrate, TypeOK, Ops
  <2> QED
    BY <1>16, <2>1, OpsFacts, SnapshotFacts DEF Hydrate, TypeOK, vmVars, countVars,
       historyVars
<1>17. ASSUME NEW kind \in {"restart", "reload"}, Restart(kind)
       PROVE  TypeOK'
  <2>1. op' \in Ops
    BY <1>17, OpsFacts DEF Restart, TypeOK, Ops, Idle
  <2> QED
    BY <1>17, <2>1, OpsFacts DEF Restart, TypeOK, vmVars, diskVars, countVars, historyVars
<1>18. ASSUME NEW g \in Vms, NEW x \in Files, Background(g, x)
       PROVE  TypeOK'
  <2> DEFINE f == Toggled(x, files[g])
  <2>1. Change(g, f) /\ f \in SUBSET Files
    BY <1>18, ToggledFacts DEF Background, TypeOK
  <2>2. kept' \subseteq Files
    BY <1>18 DEF Background, StillKept, TypeOK
  <2> HIDE DEF f
  <2>3. /\ saved' \in [Vms -> SUBSET Files] /\ chain' \in [Vms -> Seq(Snapshots)]
        /\ files' \in [Vms -> SUBSET Files]
    BY <2>1, ChangeFacts
  <2> QED BY <1>18, <2>2, <2>3, OpsFacts DEF Background, TypeOK, diskVars, countVars
<1>19. ASSUME NEW g \in Vms, Settle(g)
       PROVE  TypeOK'
  BY <1>19, OpsFacts DEF Settle, TypeOK, diskVars, countVars, historyVars
<1>20. CASE UNCHANGED vars
  BY <1>20, OpsFacts DEF vars, vmVars, diskVars, countVars, historyVars, TypeOK
<1> QED
  BY <1>1, <1>2, <1>3, <1>4, <1>5, <1>6, <1>7, <1>8, <1>9, <1>10, <1>11, <1>12, <1>13,
     <1>14, <1>15, <1>16, <1>17, <1>18, <1>19, <1>20 DEF Step

-----------------------------------------------------------------------------
(* Shapes. *)

LEMMA ShapeStep ==
  ASSUME TypeOK, ShapeOK, [Step]_vars
  PROVE  ShapeOK'
<1> USE BoundsAssumption
<1>1. CASE Evaluate
  BY <1>1, VmFacts DEF Evaluate, ShapeOK, TypeOK, Preparing, Idle, Evals, diskVars,
     historyVars
<1>2. CASE FailedReplay
  BY <1>2, VmFacts DEF FailedReplay, Busy, ShapeOK, TypeOK, Preparing, Idle, Evals,
     diskVars, countVars, historyVars
<1>3. CASE EmbedRead
  BY <1>3, VmFacts DEF EmbedRead, Busy, ShapeOK, TypeOK, Preparing, Idle, Evals,
     vmVars, diskVars, countVars, historyVars
<1>4. CASE Cancelled
  BY <1>4, VmFacts DEF Cancelled, Busy, ShapeOK, TypeOK, Preparing, Idle, Evals,
     vmVars, diskVars, countVars, historyVars
<1>5. CASE Boot
  BY <1>5, VmFacts DEF Boot, ShapeOK, TypeOK, Preparing, Idle, Evals, vmVars,
     diskVars, countVars, historyVars
<1>6. CASE Load
  <2> DEFINE g == made + 1
  <2>1. /\ made' = g /\ g \in Nat /\ prepared' = prepared \union {g} /\ made \in Nat
        /\ prepared \subseteq 1..made /\ op.kind \in {"restart", "reload"}
        /\ current = 0 \/ current \in 1..made
    BY <1>6, VmFacts DEF Load, Busy, ShapeOK, TypeOK
  <2>2. prepared' \subseteq 1..made' /\ g # 0 /\ current # g
    BY <2>1
  <2>3. CASE op.kind = "restart" /\ disk.cells # <<>>
    <3>1. op' = [op EXCEPT !.step = "replay", !.vm = g, !.at = 1] /\ current' = current
      BY <1>6, <2>3 DEF Load
    <3>2. /\ op'.kind = "restart" /\ op'.step = "replay" /\ op'.vm = g
      BY <2>3, <3>1 DEF TypeOK, OpTypeOK
    <3> QED BY <2>1, <2>2, <2>3, <3>1, <3>2 DEF ShapeOK, Preparing
  <2>4. CASE ~(op.kind = "restart" /\ disk.cells # <<>>)
    <3>1. op' = Idle /\ current' = g
      BY <1>6, <2>4 DEF Load, Swap
    <3> QED BY <2>1, <2>2, <3>1 DEF ShapeOK, Preparing, Idle
  <2> QED BY <2>3, <2>4
<1>7. CASE Prepared
  BY <1>7, VmFacts DEF Prepared, Busy, Swap, ShapeOK, TypeOK, Preparing, Idle, Evals,
     diskVars
<1>8. CASE FailedPrepare
  BY <1>8, VmFacts DEF FailedPrepare, Busy, ShapeOK, TypeOK, Preparing, Idle, Evals,
     diskVars, countVars, historyVars
<1>9. CASE Crash
  BY <1>9, VmFacts DEF Crash, ShapeOK, TypeOK, Preparing, Idle, Evals, diskVars
<1>10. ASSUME NEW f \in SUBSET Files, NEW timer \in BOOLEAN, ReplayCell(f, timer)
       PROVE  ShapeOK'
  <2>1. /\ op'.kind = op.kind /\ op'.vm = op.vm /\ op'.eval = op.eval
        /\ op'.step \in {"replay", "run"}
        /\ op.kind \in {"eval", "restart"} /\ op.step = "replay"
    BY <1>10 DEF ReplayCell, Busy, TypeOK, OpTypeOK
  <2>2. UNCHANGED <<prepared, current, made>>
    BY <1>10 DEF ReplayCell, countVars
  <2> QED BY <2>1, <2>2 DEF ShapeOK, Preparing
<1>11. ASSUME NEW f \in SUBSET Files, NEW timer \in BOOLEAN, RunCell(f, timer)
       PROVE  ShapeOK'
  BY <1>11, VmFacts DEF RunCell, Busy, Persist, Effect, ShapeOK, TypeOK, Preparing,
     Idle, Evals, diskVars, countVars
<1>12. ASSUME NEW f \in SUBSET Files, NEW timer \in BOOLEAN, FailCell(f, timer)
       PROVE  ShapeOK'
  BY <1>12, VmFacts DEF FailCell, Busy, Effect, ShapeOK, TypeOK, Preparing, Idle,
     Evals, diskVars, countVars
<1>13. ASSUME NEW g \in Vms, NEW ok \in BOOLEAN, Write(g, ok)
       PROVE  ShapeOK'
  <2>1. UNCHANGED <<prepared, current, made>>
    BY <1>13 DEF Write, countVars
  <2>2. \/ op' = op \/ op' = Idle
        \/ op.step = "persist" /\ op' = [op EXCEPT !.step = "embed"]
    BY <1>13 DEF Write
  <2>3. op.step = "persist" => op.kind = "eval"
    BY DEF ShapeOK, TypeOK, OpTypeOK, Idle
  <2>4. op.step = "persist" /\ op' = [op EXCEPT !.step = "embed"] =>
          op'.kind = "eval" /\ op'.step = "embed" /\ op'.vm = op.vm /\ op'.eval = op.eval
    BY <2>3 DEF TypeOK, OpTypeOK
  <2> QED BY <2>1, <2>2, <2>3, <2>4 DEF ShapeOK, Preparing, Idle
<1>14. ASSUME NEW x \in Files, ChangeFile(x)
       PROVE  ShapeOK'
  BY <1>14, VmFacts DEF ChangeFile, Change, Persist, ShapeOK, TypeOK, Preparing, Idle,
     Evals, diskVars, countVars
<1>15. ASSUME NEW ok \in BOOLEAN, EmbedWrite(ok)
       PROVE  ShapeOK'
  BY <1>15, VmFacts DEF EmbedWrite, Busy, ShapeOK, TypeOK, Preparing, Idle, Evals,
     vmVars, countVars
<1>16. ASSUME NEW ok \in BOOLEAN, Hydrate(ok)
       PROVE  ShapeOK'
  BY <1>16, VmFacts DEF Hydrate, Busy, ShapeOK, TypeOK, Preparing, Idle, Evals,
     vmVars, countVars, historyVars
<1>17. ASSUME NEW kind \in {"restart", "reload"}, Restart(kind)
       PROVE  ShapeOK'
  BY <1>17, VmFacts DEF Restart, ShapeOK, TypeOK, Preparing, Idle, Evals, vmVars,
     diskVars, countVars, historyVars
<1>18. ASSUME NEW g \in Vms, NEW x \in Files, Background(g, x)
       PROVE  ShapeOK'
  BY <1>18, VmFacts DEF Background, Change, Persist, ShapeOK, TypeOK, Preparing, Idle,
     Evals, diskVars, countVars
<1>19. ASSUME NEW g \in Vms, Settle(g)
       PROVE  ShapeOK'
  BY <1>19, VmFacts DEF Settle, ShapeOK, TypeOK, Preparing, Idle, Evals, diskVars,
     countVars, historyVars
<1>20. CASE UNCHANGED vars
  BY <1>20, VmFacts DEF vars, vmVars, ShapeOK, TypeOK, Preparing, Idle, Evals,
     diskVars, countVars, historyVars
<1> QED
  BY <1>1, <1>2, <1>3, <1>4, <1>5, <1>6, <1>7, <1>8, <1>9, <1>10, <1>11, <1>12, <1>13,
     <1>14, <1>15, <1>16, <1>17, <1>18, <1>19, <1>20 DEF Step

LEMMA SuppressStep ==
  ASSUME TypeOK, ShapeOK, SuppressOK, [Step]_vars
  PROVE  SuppressOK'
<1>1. CASE Evaluate
  BY <1>1, VmFacts DEF Evaluate, SuppressOK, ShapeOK, TypeOK, OpTypeOK, Idle,
     diskVars, historyVars
<1>2. CASE FailedReplay
  BY <1>2, VmFacts DEF FailedReplay, Busy, SuppressOK, ShapeOK, TypeOK, OpTypeOK,
     Idle, diskVars, countVars, historyVars
<1>3. CASE EmbedRead
  BY <1>3, VmFacts DEF EmbedRead, Busy, SuppressOK, ShapeOK, TypeOK, OpTypeOK, Idle,
     vmVars, diskVars, countVars, historyVars
<1>4. CASE Cancelled
  BY <1>4, VmFacts DEF Cancelled, Busy, SuppressOK, ShapeOK, TypeOK, OpTypeOK, Idle,
     vmVars, diskVars, countVars, historyVars
<1>5. CASE Boot
  BY <1>5, VmFacts DEF Boot, SuppressOK, ShapeOK, TypeOK, OpTypeOK, Idle, vmVars,
     diskVars, countVars, historyVars
<1>6. CASE Load
  <2> DEFINE g == made + 1
  <2>1. g \in Vms /\ op.step = "load"
    BY <1>6, BoundsAssumption DEF Load, Busy, ShapeOK, TypeOK, Vms
  <2>2. \A h \in Vms : ~suppress[h]
    BY <2>1 DEF SuppressOK
  <2>3. CASE op.kind = "restart" /\ disk.cells # <<>>
    <3>1. /\ op' = [op EXCEPT !.step = "replay", !.vm = g, !.at = 1]
          /\ suppress' = [suppress EXCEPT ![g] = TRUE]
      BY <1>6, <2>3 DEF Load
    <3>2. op'.step = "replay" /\ op'.vm = g
      BY <3>1 DEF TypeOK, OpTypeOK
    <3> QED BY <2>1, <2>2, <3>1, <3>2 DEF SuppressOK, TypeOK
  <2>4. CASE ~(op.kind = "restart" /\ disk.cells # <<>>)
    <3>1. op'.step = "idle" /\ suppress' = [suppress EXCEPT ![g] = FALSE]
      BY <1>6, <2>4 DEF Load, Swap, Idle
    <3> QED BY <2>2, <3>1 DEF SuppressOK, TypeOK
  <2> QED BY <2>3, <2>4
<1>7. CASE Prepared
  BY <1>7, VmFacts DEF Prepared, Busy, Swap, SuppressOK, ShapeOK, TypeOK, OpTypeOK,
     Idle, diskVars
<1>8. CASE FailedPrepare
  BY <1>8, VmFacts DEF FailedPrepare, Busy, SuppressOK, ShapeOK, TypeOK, OpTypeOK,
     Idle, diskVars, countVars, historyVars
<1>9. CASE Crash
  BY <1>9, VmFacts DEF Crash, SuppressOK, ShapeOK, TypeOK, OpTypeOK, Idle, diskVars
<1>10. ASSUME NEW f \in SUBSET Files, NEW timer \in BOOLEAN, ReplayCell(f, timer)
       PROVE  SuppressOK'
  BY <1>10, VmFacts DEF ReplayCell, Busy, Effect, SuppressOK, ShapeOK, TypeOK,
     OpTypeOK, Idle, diskVars, countVars, historyVars
<1>11. ASSUME NEW f \in SUBSET Files, NEW timer \in BOOLEAN, RunCell(f, timer)
       PROVE  SuppressOK'
  BY <1>11, VmFacts DEF RunCell, Busy, Persist, Effect, SuppressOK, ShapeOK, TypeOK,
     OpTypeOK, Idle, diskVars, countVars
<1>12. ASSUME NEW f \in SUBSET Files, NEW timer \in BOOLEAN, FailCell(f, timer)
       PROVE  SuppressOK'
  BY <1>12, VmFacts DEF FailCell, Busy, Effect, SuppressOK, ShapeOK, TypeOK, OpTypeOK,
     Idle, diskVars, countVars
<1>13. ASSUME NEW g \in Vms, NEW ok \in BOOLEAN, Write(g, ok)
       PROVE  SuppressOK'
  BY <1>13, VmFacts DEF Write, SuppressOK, ShapeOK, TypeOK, OpTypeOK, Idle, countVars
<1>14. ASSUME NEW x \in Files, ChangeFile(x)
       PROVE  SuppressOK'
  BY <1>14, VmFacts DEF ChangeFile, Change, Persist, SuppressOK, ShapeOK, TypeOK,
     OpTypeOK, Idle, diskVars, countVars
<1>15. ASSUME NEW ok \in BOOLEAN, EmbedWrite(ok)
       PROVE  SuppressOK'
  BY <1>15, VmFacts DEF EmbedWrite, Busy, SuppressOK, ShapeOK, TypeOK, OpTypeOK, Idle,
     vmVars, countVars
<1>16. ASSUME NEW ok \in BOOLEAN, Hydrate(ok)
       PROVE  SuppressOK'
  BY <1>16, VmFacts DEF Hydrate, Busy, SuppressOK, ShapeOK, TypeOK, OpTypeOK, Idle,
     vmVars, countVars, historyVars
<1>17. ASSUME NEW kind \in {"restart", "reload"}, Restart(kind)
       PROVE  SuppressOK'
  BY <1>17, VmFacts DEF Restart, SuppressOK, ShapeOK, TypeOK, OpTypeOK, Idle, vmVars,
     diskVars, countVars, historyVars
<1>18. ASSUME NEW g \in Vms, NEW x \in Files, Background(g, x)
       PROVE  SuppressOK'
  BY <1>18, VmFacts DEF Background, Change, Persist, SuppressOK, ShapeOK, TypeOK,
     OpTypeOK, Idle, diskVars, countVars
<1>19. ASSUME NEW g \in Vms, Settle(g)
       PROVE  SuppressOK'
  BY <1>19, VmFacts DEF Settle, SuppressOK, ShapeOK, TypeOK, OpTypeOK, Idle, diskVars,
     countVars, historyVars
<1>20. CASE UNCHANGED vars
  BY <1>20, VmFacts DEF vars, vmVars, SuppressOK, ShapeOK, TypeOK, OpTypeOK, Idle,
     diskVars, countVars, historyVars
<1> QED
  BY <1>1, <1>2, <1>3, <1>4, <1>5, <1>6, <1>7, <1>8, <1>9, <1>10, <1>11, <1>12, <1>13,
     <1>14, <1>15, <1>16, <1>17, <1>18, <1>19, <1>20 DEF Step

\* A step of a VM that was made leaves the others as they were.
LEMMA FreshFrame ==
  ASSUME FreshOK, NEW g \in Vms, g <= made, made' = made, made \in Nat,
         current # 0, current' # 0,
         \A h \in Vms \ {g} : ran'[h] = ran[h] /\ chain'[h] = chain[h] /\ loose'[h] = loose[h]
  PROVE  FreshOK'
BY DEF FreshOK, Vms

\* Only VMs that were made, of a process that runs, have code that runs.
LEMMA LiveFacts ==
  ASSUME TypeOK, ShapeOK, FreshOK
  PROVE  /\ \A g \in Vms : loose[g] => g <= made /\ current # 0
         /\ op.step \in {"replay", "run", "persist"} => op.vm <= made /\ current # 0
         /\ current <= made
<1>1. MaxVms \in Nat /\ current \in 0..MaxVms /\ made \in 0..MaxVms
  BY BoundsAssumption DEF TypeOK
<1>2. prepared \subseteq 1..made
  BY DEF ShapeOK
<1>3. op.step \in {"replay", "run", "persist"} => current # 0
  BY DEF ShapeOK, TypeOK, OpTypeOK, Idle
<1>4. op.step = "persist" => op.vm = current
  BY DEF ShapeOK, TypeOK, OpTypeOK, Idle
<1>5. current <= made
  BY <1>1, <1>2 DEF ShapeOK
<1>6. op.step \in {"replay", "run"} => op.vm \in prepared
  BY VmFacts
<1>7. \A g \in Vms : loose[g] => g <= made /\ current # 0
  <2> SUFFICES ASSUME NEW g \in Vms, loose[g] PROVE g <= made /\ current # 0
    OBVIOUS
  <2>1. ~(g > made \/ current = 0)
    BY DEF FreshOK
  <2>2. g \in Int /\ made \in Int
    BY <1>1 DEF Vms
  <2> QED BY <2>1, <2>2
<1>8. \A v \in prepared : v <= made
  <2> SUFFICES ASSUME NEW v \in prepared PROVE v <= made
    OBVIOUS
  <2>1. v \in 1..made /\ made \in Int
    BY <1>1, <1>2
  <2> QED BY <2>1
<1> QED BY <1>3, <1>4, <1>5, <1>6, <1>7, <1>8

LEMMA FreshStep ==
  ASSUME TypeOK, ShapeOK, FreshOK, [Step]_vars
  PROVE  FreshOK'
<1> USE BoundsAssumption
<1>1. CASE Evaluate
  BY <1>1, VmFacts DEF Evaluate, FreshOK, ShapeOK, TypeOK, OpTypeOK, Vms, Idle,
     diskVars, historyVars
<1>2. CASE FailedReplay
  BY <1>2, VmFacts DEF FailedReplay, Busy, FreshOK, ShapeOK, TypeOK, OpTypeOK, Vms,
     Idle, diskVars, countVars, historyVars
<1>3. CASE EmbedRead
  BY <1>3, VmFacts DEF EmbedRead, Busy, FreshOK, ShapeOK, TypeOK, OpTypeOK, Vms, Idle,
     vmVars, diskVars, countVars, historyVars
<1>4. CASE Cancelled
  BY <1>4, VmFacts DEF Cancelled, Busy, FreshOK, ShapeOK, TypeOK, OpTypeOK, Vms, Idle,
     vmVars, diskVars, countVars, historyVars
<1>5. CASE Boot
  BY <1>5, VmFacts DEF Boot, FreshOK, ShapeOK, TypeOK, OpTypeOK, Vms, Idle, vmVars,
     diskVars, countVars, historyVars
<1>6. CASE Load
  <2>1. made' = made + 1 /\ current' \in {current, made + 1} /\ made \in Nat
    BY <1>6, BoundsAssumption DEF Load, Swap, TypeOK
  <2>2. UNCHANGED <<ran, chain, loose>>
    BY <1>6 DEF Load
  <2> QED BY <2>1, <2>2 DEF FreshOK, Vms
<1>7. CASE Prepared
  <2>1. op.vm \in Vms /\ current' = op.vm /\ current # 0 /\ made' = made
    BY <1>7, VmFacts DEF Prepared, Busy, Swap, ShapeOK, Preparing
  <2>2. UNCHANGED <<ran, chain, loose>>
    BY <1>7 DEF Prepared
  <2> QED BY <2>1, <2>2 DEF FreshOK, Vms
<1>8. CASE FailedPrepare
  BY <1>8, VmFacts DEF FailedPrepare, Busy, FreshOK, ShapeOK, TypeOK, OpTypeOK, Vms,
     Idle, diskVars, countVars, historyVars
<1>9. CASE Crash
  BY <1>9, VmFacts DEF Crash, FreshOK, ShapeOK, TypeOK, OpTypeOK, Vms, Idle, diskVars
<1>10. ASSUME NEW f \in SUBSET Files, NEW timer \in BOOLEAN, ReplayCell(f, timer)
       PROVE  FreshOK'
  <2>1. op.vm \in Vms /\ op.vm <= made /\ current # 0
    BY <1>10, VmFacts, LiveFacts DEF ReplayCell, Busy
  <2>2. \A h \in Vms \ {op.vm} :
          ran'[h] = ran[h] /\ chain'[h] = chain[h] /\ loose'[h] = loose[h]
    BY <1>10, <2>1 DEF ReplayCell, Effect, TypeOK
  <2>3. made' = made /\ current' = current
    BY <1>10 DEF ReplayCell, countVars
  <2>4. made \in Nat
    BY BoundsAssumption DEF TypeOK
  <2> QED BY <2>1, <2>2, <2>3, <2>4, FreshFrame
<1>11. ASSUME NEW f \in SUBSET Files, NEW timer \in BOOLEAN, RunCell(f, timer)
       PROVE  FreshOK'
  <2>1. op.vm \in Vms /\ op.vm <= made /\ current # 0
    BY <1>11, VmFacts, LiveFacts DEF RunCell, Busy
  <2>2. \A h \in Vms \ {op.vm} :
          ran'[h] = ran[h] /\ chain'[h] = chain[h] /\ loose'[h] = loose[h]
    BY <1>11, <2>1 DEF RunCell, Effect, Persist, TypeOK
  <2>3. made' = made /\ current' = current
    BY <1>11 DEF RunCell, countVars
  <2>4. made \in Nat
    BY BoundsAssumption DEF TypeOK
  <2> QED BY <2>1, <2>2, <2>3, <2>4, FreshFrame
<1>12. ASSUME NEW f \in SUBSET Files, NEW timer \in BOOLEAN, FailCell(f, timer)
       PROVE  FreshOK'
  <2>1. op.vm \in Vms /\ op.vm <= made /\ current # 0
    BY <1>12, VmFacts, LiveFacts DEF FailCell, Busy
  <2>2. \A h \in Vms \ {op.vm} :
          ran'[h] = ran[h] /\ chain'[h] = chain[h] /\ loose'[h] = loose[h]
    BY <1>12, <2>1 DEF FailCell, Effect, TypeOK
  <2>3. made' = made /\ current' = current
    BY <1>12 DEF FailCell, countVars
  <2>4. made \in Nat
    BY BoundsAssumption DEF TypeOK
  <2> QED BY <2>1, <2>2, <2>3, <2>4, FreshFrame
<1>13. ASSUME NEW g \in Vms, NEW ok \in BOOLEAN, Write(g, ok)
       PROVE  FreshOK'
  BY <1>13, VmFacts DEF Write, FreshOK, ShapeOK, TypeOK, OpTypeOK, Vms, Idle,
     countVars
<1>14. ASSUME NEW x \in Files, ChangeFile(x)
       PROVE  FreshOK'
  <2> DEFINE f == Toggled(x, files[current])
  <2>1. current \in Vms /\ current <= made /\ current # 0 /\ made \in Nat
    BY <1>14, VmFacts, LiveFacts, BoundsAssumption DEF ChangeFile, TypeOK
  <2>2. Change(current, f) /\ f \in SUBSET Files
    BY <1>14, <2>1, ToggledFacts DEF ChangeFile, TypeOK
  <2>3. UNCHANGED <<ran, loose, made, current>>
    BY <1>14 DEF ChangeFile, countVars
  <2> HIDE DEF f
  <2>4. \A h \in Vms \ {current} : chain'[h] = chain[h]
    BY <2>1, <2>2, ChangeFacts
  <2> QED BY <2>1, <2>3, <2>4, FreshFrame
<1>15. ASSUME NEW ok \in BOOLEAN, EmbedWrite(ok)
       PROVE  FreshOK'
  BY <1>15, VmFacts DEF EmbedWrite, Busy, FreshOK, ShapeOK, TypeOK, OpTypeOK, Vms,
     Idle, vmVars, countVars
<1>16. ASSUME NEW ok \in BOOLEAN, Hydrate(ok)
       PROVE  FreshOK'
  BY <1>16, VmFacts DEF Hydrate, Busy, FreshOK, ShapeOK, TypeOK, OpTypeOK, Vms, Idle,
     vmVars, countVars, historyVars
<1>17. ASSUME NEW kind \in {"restart", "reload"}, Restart(kind)
       PROVE  FreshOK'
  BY <1>17, VmFacts DEF Restart, FreshOK, ShapeOK, TypeOK, OpTypeOK, Vms, Idle,
     vmVars, diskVars, countVars, historyVars
<1>18. ASSUME NEW g \in Vms, NEW x \in Files, Background(g, x)
       PROVE  FreshOK'
  <2> DEFINE f == Toggled(x, files[g])
  <2>1. g <= made /\ current # 0 /\ made \in Nat
    BY <1>18, LiveFacts, BoundsAssumption DEF Background, TypeOK
  <2>2. Change(g, f) /\ f \in SUBSET Files
    BY <1>18, ToggledFacts DEF Background, TypeOK
  <2>3. UNCHANGED <<ran, loose, made, current>>
    BY <1>18 DEF Background, countVars
  <2> HIDE DEF f
  <2>4. \A h \in Vms \ {g} : chain'[h] = chain[h]
    BY <2>2, ChangeFacts
  <2> QED BY <2>1, <2>3, <2>4, FreshFrame
<1>19. ASSUME NEW g \in Vms, Settle(g)
       PROVE  FreshOK'
  BY <1>19, VmFacts DEF Settle, FreshOK, ShapeOK, TypeOK, OpTypeOK, Vms, Idle,
     diskVars, countVars, historyVars
<1>20. CASE UNCHANGED vars
  BY <1>20, VmFacts DEF vars, vmVars, FreshOK, ShapeOK, TypeOK, OpTypeOK, Vms, Idle,
     diskVars, countVars, historyVars
<1> QED
  BY <1>1, <1>2, <1>3, <1>4, <1>5, <1>6, <1>7, <1>8, <1>9, <1>10, <1>11, <1>12, <1>13,
     <1>14, <1>15, <1>16, <1>17, <1>18, <1>19, <1>20 DEF Step

-----------------------------------------------------------------------------
(* The context of a VM. *)

LEMMA SubSeqGrows ==
  ASSUME NEW c \in Seq(Evals), NEW n \in 1..Len(c)
  PROVE  Append(SubSeq(c, 1, n - 1), c[n]) = SubSeq(c, 1, n)
<1>1. SubSeq(c, 1, n) = SubSeq(c, 1, n - 1) \o <<c[n]>>
  <2>1. 1 \in 1..Len(c) /\ n \in 1..Len(c)
    OBVIOUS
  <2> QED BY <2>1, SubSeqRecursiveSecond
<1>2. SubSeq(c, 1, n - 1) \in Seq(Evals) /\ c[n] \in Evals
  BY ElementOfSeq
<1> QED BY <1>1, <1>2, AppendIsConcat

LEMMA ContextStep ==
  ASSUME TypeOK, ShapeOK, FreshOK, ContextOK, [Step]_vars
  PROVE  ContextOK'
<1>1. CASE Evaluate
  BY <1>1, VmFacts DEF Evaluate, ContextOK, ContextOf, Replaying, ShapeOK, TypeOK,
     OpTypeOK, Idle, diskVars, historyVars
<1>2. CASE FailedReplay
  BY <1>2, VmFacts DEF FailedReplay, Busy, ContextOK, ContextOf, Replaying, ShapeOK,
     TypeOK, OpTypeOK, Idle, diskVars, countVars, historyVars
<1>3. CASE EmbedRead
  BY <1>3, VmFacts DEF EmbedRead, Busy, ContextOK, ContextOf, Replaying, ShapeOK,
     TypeOK, OpTypeOK, Idle, vmVars, diskVars, countVars, historyVars
<1>4. CASE Cancelled
  BY <1>4, VmFacts DEF Cancelled, Busy, ContextOK, ContextOf, Replaying, ShapeOK,
     TypeOK, OpTypeOK, Idle, vmVars, diskVars, countVars, historyVars
<1>5. CASE Boot
  BY <1>5, VmFacts DEF Boot, ContextOK, ContextOf, Replaying, ShapeOK, TypeOK,
     OpTypeOK, Idle, vmVars, diskVars, countVars, historyVars
<1>6. CASE Load
  <2>1. PICK g \in Vms : g = made + 1 /\ g > made /\ g \notin prepared /\ g # 0
    BY <1>6, BoundsAssumption DEF Load, Busy, ShapeOK, TypeOK, Vms
  <2>2. prepared' = prepared \union {g} /\ op.vm = 0 /\ \A h \in prepared : h \in Vms /\ h # 0
    BY <1>6, <2>1, VmFacts DEF Load, Busy, ShapeOK, Vms
  <2>3. ran'[g] = <<>> /\ \A h \in Vms : ran'[h] = ran[h]
    BY <1>6, <2>1 DEF Load, FreshOK
  <2>4. /\ cells'[g] = disk.cells /\ replayed'[g] = (disk.cells = <<>>)
        /\ \A h \in prepared : cells'[h] = cells[h] /\ replayed'[h] = replayed[h]
    BY <1>6, <2>1, <2>2 DEF Load, TypeOK
  <2>5. \/ op'.vm = 0 /\ op'.step = "idle" /\ ~(op.kind = "restart" /\ disk.cells # <<>>)
        \/ /\ op'.vm = g /\ op'.step = "replay" /\ op'.at = 1
           /\ op.kind = "restart" /\ disk.cells # <<>>
    <3>1. CASE op.kind = "restart" /\ disk.cells # <<>>
      <4>1. op' = [op EXCEPT !.step = "replay", !.vm = g, !.at = 1]
        BY <1>6, <2>1, <3>1 DEF Load
      <4> QED BY <3>1, <4>1 DEF TypeOK, OpTypeOK
    <3>2. CASE ~(op.kind = "restart" /\ disk.cells # <<>>)
      BY <1>6, <3>2 DEF Load, Swap, Idle
    <3> QED BY <3>1, <3>2
  <2>6. ASSUME NEW h \in prepared PROVE ContextOf(h)'
    <3>1. ~Replaying(h) /\ ~Replaying(h)' /\ op'.vm # h
      BY <2>1, <2>2, <2>5 DEF Replaying
    <3> QED BY <2>2, <2>3, <2>4, <3>1 DEF ContextOK, ContextOf
  <2>7. ContextOf(g)'
    <3>1. disk.cells \in Seq(Evals) /\ SubSeq(disk.cells, 1, 0) = <<>>
      BY SnapshotFacts, SubSeqEmpty
    <3>2. CASE op'.vm = 0 /\ op'.step = "idle"
      BY <2>1, <2>3, <2>4, <2>5, <3>2 DEF ContextOf, Replaying
    <3>3. CASE op'.vm = g /\ op'.step = "replay" /\ op'.at = 1 /\ disk.cells # <<>>
      <4>1. 1 \in 1..Len(disk.cells)
        BY <3>1, <3>3, EmptySeq
      <4>2. op'.at - 1 = 0
        BY <3>3
      <4>3. SubSeq(cells'[g], 1, op'.at - 1) = <<>>
        BY <2>4, <3>1, <4>2
      <4> QED BY <2>3, <2>4, <3>3, <4>1, <4>3 DEF ContextOf, Replaying
    <3> QED BY <2>5, <3>2, <3>3
  <2> QED BY <2>2, <2>6, <2>7 DEF ContextOK
<1>7. CASE Prepared
  BY <1>7, VmFacts DEF Prepared, Busy, Swap, ContextOK, ContextOf, Replaying, ShapeOK,
     TypeOK, OpTypeOK, Idle, diskVars
<1>8. CASE FailedPrepare
  BY <1>8, VmFacts DEF FailedPrepare, Busy, ContextOK, ContextOf, Replaying, ShapeOK,
     TypeOK, OpTypeOK, Idle, diskVars, countVars, historyVars
<1>9. CASE Crash
  BY <1>9, VmFacts DEF Crash, ContextOK, ContextOf, Replaying, ShapeOK, TypeOK,
     OpTypeOK, Idle, diskVars
<1>10. ASSUME NEW f \in SUBSET Files, NEW timer \in BOOLEAN, ReplayCell(f, timer)
       PROVE  ContextOK'
  <2>1. PICK g \in Vms : g = op.vm /\ g \in prepared /\ Replaying(g)
    BY <1>10, VmFacts DEF ReplayCell, Busy, Replaying
  <2>2. PICK c \in Seq(Evals) : c = cells[g]
    BY DEF TypeOK
  <2>3. /\ op.at \in 1..Len(c) /\ ran[g] = SubSeq(c, 1, op.at - 1)
        /\ c # <<>>
    BY <2>1, <2>2 DEF ContextOK, ContextOf
  <2>4. /\ ran'[g] = SubSeq(c, 1, op.at) /\ UNCHANGED <<cells, prepared>>
        /\ replayed'[g] = (op.at = Len(c))
        /\ \A h \in prepared \ {g} : ran'[h] = ran[h] /\ replayed'[h] = replayed[h]
    BY <1>10, <2>1, <2>2, <2>3, SubSeqGrows, VmFacts DEF ReplayCell, TypeOK
  <2>5. op'.vm = g /\ IF op.at = Len(c) THEN op'.step = "run"
                                       ELSE op'.step = "replay" /\ op'.at = op.at + 1
    BY <1>10, <2>1, <2>2 DEF ReplayCell, TypeOK, OpTypeOK, Replaying
  <2>6. ASSUME NEW h \in prepared, h # g PROVE ContextOf(h)'
    <3>1. ~Replaying(h) /\ ~Replaying(h)' /\ op'.vm # h
      BY <2>1, <2>5, <2>6 DEF Replaying
    <3> QED BY <2>4, <2>6, <3>1 DEF ContextOK, ContextOf
  <2>7. ContextOf(g)'
    <3>1. CASE op.at = Len(c)
      <4>1. SubSeq(c, 1, op.at) = c
        BY <3>1, SubSeqFull
      <4> QED BY <3>1, <4>1, <2>2, <2>4, <2>5 DEF ContextOf, Replaying
    <3>2. CASE op.at # Len(c)
      <4>1. op.at + 1 \in 1..Len(c) /\ (op.at + 1) - 1 = op.at
        BY <3>2, <2>3
      <4> QED BY <3>2, <4>1, <2>2, <2>3, <2>4, <2>5 DEF ContextOf, Replaying
    <3> QED BY <3>1, <3>2
  <2> QED BY <2>4, <2>6, <2>7 DEF ContextOK
<1>11. ASSUME NEW f \in SUBSET Files, NEW timer \in BOOLEAN, RunCell(f, timer)
       PROVE  ContextOK'
  BY <1>11, VmFacts DEF RunCell, Busy, Persist, Effect, ContextOK, ContextOf,
     Replaying, ShapeOK, TypeOK, OpTypeOK, Idle, diskVars, countVars
<1>12. ASSUME NEW f \in SUBSET Files, NEW timer \in BOOLEAN, FailCell(f, timer)
       PROVE  ContextOK'
  BY <1>12, VmFacts DEF FailCell, Busy, Effect, ContextOK, ContextOf, Replaying,
     ShapeOK, TypeOK, OpTypeOK, Idle, diskVars, countVars
<1>13. ASSUME NEW g \in Vms, NEW ok \in BOOLEAN, Write(g, ok)
       PROVE  ContextOK'
  BY <1>13, VmFacts DEF Write, ContextOK, ContextOf, Replaying, ShapeOK, TypeOK,
     OpTypeOK, Idle, countVars
<1>14. ASSUME NEW x \in Files, ChangeFile(x)
       PROVE  ContextOK'
  BY <1>14, VmFacts DEF ChangeFile, Change, Persist, ContextOK, ContextOf, Replaying,
     ShapeOK, TypeOK, OpTypeOK, Idle, diskVars, countVars
<1>15. ASSUME NEW ok \in BOOLEAN, EmbedWrite(ok)
       PROVE  ContextOK'
  BY <1>15, VmFacts DEF EmbedWrite, Busy, ContextOK, ContextOf, Replaying, ShapeOK,
     TypeOK, OpTypeOK, Idle, vmVars, countVars
<1>16. ASSUME NEW ok \in BOOLEAN, Hydrate(ok)
       PROVE  ContextOK'
  BY <1>16, VmFacts DEF Hydrate, Busy, ContextOK, ContextOf, Replaying, ShapeOK,
     TypeOK, OpTypeOK, Idle, vmVars, countVars, historyVars
<1>17. ASSUME NEW kind \in {"restart", "reload"}, Restart(kind)
       PROVE  ContextOK'
  BY <1>17, VmFacts DEF Restart, ContextOK, ContextOf, Replaying, ShapeOK, TypeOK,
     OpTypeOK, Idle, vmVars, diskVars, countVars, historyVars
<1>18. ASSUME NEW g \in Vms, NEW x \in Files, Background(g, x)
       PROVE  ContextOK'
  BY <1>18, VmFacts DEF Background, Change, Persist, ContextOK, ContextOf, Replaying,
     ShapeOK, TypeOK, OpTypeOK, Idle, diskVars, countVars
<1>19. ASSUME NEW g \in Vms, Settle(g)
       PROVE  ContextOK'
  BY <1>19, VmFacts DEF Settle, ContextOK, ContextOf, Replaying, ShapeOK, TypeOK,
     OpTypeOK, Idle, diskVars, countVars, historyVars
<1>20. CASE UNCHANGED vars
  BY <1>20, VmFacts DEF vars, vmVars, ContextOK, ContextOf, Replaying, ShapeOK,
     TypeOK, OpTypeOK, Idle, diskVars, countVars, historyVars
<1> QED
  BY <1>1, <1>2, <1>3, <1>4, <1>5, <1>6, <1>7, <1>8, <1>9, <1>10, <1>11, <1>12, <1>13,
     <1>14, <1>15, <1>16, <1>17, <1>18, <1>19, <1>20 DEF Step


LEMMA KeptStep ==
  ASSUME TypeOK, ShapeOK, SuppressOK, FreshOK, ContextOK, KeptOK, [Step]_vars
  PROVE  KeptOK'
<1>1. CASE Evaluate
  BY <1>1, VmFacts DEF Evaluate, KeptOK, Replaying, StillKept, ShapeOK, TypeOK,
     OpTypeOK, Idle, diskVars, historyVars
<1>2. CASE FailedReplay
  <2>1. current \in Vms /\ op.vm = current /\ current \in prepared /\ Replaying(current)
    BY <1>2, VmFacts DEF FailedReplay, Busy, ShapeOK, Replaying
  <2>2. ~replayed[current]
    BY <2>1 DEF ContextOK, ContextOf
  <2>3. /\ files'[current] = saved[current]
        /\ UNCHANGED <<saved, current, replayed, kept>>
    BY <1>2, <2>1 DEF FailedReplay, countVars, historyVars, TypeOK
  <2> QED BY <2>1, <2>2, <2>3 DEF KeptOK
<1>3. CASE EmbedRead
  BY <1>3, VmFacts DEF EmbedRead, Busy, KeptOK, Replaying, StillKept, ShapeOK, TypeOK,
     OpTypeOK, Idle, vmVars, diskVars, countVars, historyVars
<1>4. CASE Cancelled
  BY <1>4, VmFacts DEF Cancelled, Busy, KeptOK, Replaying, StillKept, ShapeOK, TypeOK,
     OpTypeOK, Idle, vmVars, diskVars, countVars, historyVars
<1>5. CASE Boot
  BY <1>5, VmFacts DEF Boot, KeptOK, Replaying, StillKept, ShapeOK, TypeOK, OpTypeOK,
     Idle, vmVars, diskVars, countVars, historyVars
<1>6. CASE Load
  BY <1>6, VmFacts DEF Load, Busy, Swap, KeptOK, Replaying, StillKept, ShapeOK,
     TypeOK, OpTypeOK, Idle, diskVars
<1>7. CASE Prepared
  BY <1>7, VmFacts DEF Prepared, Busy, Swap, KeptOK, Replaying, StillKept, ShapeOK,
     TypeOK, OpTypeOK, Idle, diskVars
<1>8. CASE FailedPrepare
  <2>1. /\ op.vm \in Vms /\ op.vm # current /\ current \in Vms /\ ~Replaying(current)
    BY <1>8, VmFacts DEF FailedPrepare, Busy, ShapeOK, Preparing, Replaying
  <2>2. /\ files'[current] = files[current] /\ replayed'[current] = replayed[current]
        /\ UNCHANGED <<saved, current, kept>>
    BY <1>8, <2>1 DEF FailedPrepare, countVars, historyVars, TypeOK
  <2> QED BY <2>1, <2>2 DEF KeptOK
<1>9. CASE Crash
  BY <1>9, VmFacts DEF Crash, KeptOK, Replaying, StillKept, ShapeOK, TypeOK, OpTypeOK,
     Idle, diskVars
<1>10. ASSUME NEW f \in SUBSET Files, NEW timer \in BOOLEAN, ReplayCell(f, timer)
       PROVE  KeptOK'
  <2>1. op.vm \in Vms /\ op.vm \in prepared /\ Replaying(op.vm) /\ current \in Vms
    BY <1>10, VmFacts DEF ReplayCell, Busy, ShapeOK, Replaying
  <2>2. UNCHANGED <<saved, current, kept>>
    BY <1>10 DEF ReplayCell, countVars, historyVars
  <2>3. CASE op.vm = current
    <3>1. ~replayed[current]
      BY <2>1, <2>3 DEF ContextOK, ContextOf
    <3>2. kept \subseteq saved[current]
      BY <2>1, <3>1 DEF KeptOK, Vms
    <3>3. CASE op.at = Len(cells[op.vm])
      <4>1. files'[current] = saved[current]
        BY <1>10, <2>1, <2>3, <3>3 DEF ReplayCell, TypeOK
      <4> QED BY <2>2, <3>2, <4>1 DEF KeptOK
    <3>4. CASE op.at # Len(cells[op.vm])
      <4>1. op'.vm = current /\ op'.step = "replay"
        BY <1>10, <2>1, <2>3, <3>4 DEF ReplayCell, TypeOK, OpTypeOK, Replaying
      <4> QED BY <2>2, <3>2, <4>1 DEF KeptOK, Replaying
    <3> QED BY <3>3, <3>4
  <2>4. CASE op.vm # current
    <3>1. /\ files'[current] = files[current] /\ replayed'[current] = replayed[current]
      BY <1>10, <2>1, <2>4 DEF ReplayCell, TypeOK
    <3>2. ~Replaying(current)
      BY <2>4 DEF Replaying
    <3> QED BY <2>2, <3>1, <3>2 DEF KeptOK
  <2> QED BY <2>3, <2>4
<1>11. ASSUME NEW f \in SUBSET Files, NEW timer \in BOOLEAN, RunCell(f, timer)
       PROVE  KeptOK'
  BY <1>11, VmFacts DEF RunCell, Busy, Persist, Effect, KeptOK, Replaying, StillKept,
     ShapeOK, TypeOK, OpTypeOK, Idle, diskVars, countVars
<1>12. ASSUME NEW f \in SUBSET Files, NEW timer \in BOOLEAN, FailCell(f, timer)
       PROVE  KeptOK'
  BY <1>12, VmFacts DEF FailCell, Busy, Effect, KeptOK, Replaying, StillKept, ShapeOK,
     TypeOK, OpTypeOK, Idle, diskVars, countVars
<1>13. ASSUME NEW g \in Vms, NEW ok \in BOOLEAN, Write(g, ok)
       PROVE  KeptOK'
  BY <1>13, VmFacts DEF Write, KeptOK, Replaying, StillKept, ShapeOK, TypeOK,
     OpTypeOK, Idle, countVars
<1>14. ASSUME NEW x \in Files, ChangeFile(x)
       PROVE  KeptOK'
  <2> DEFINE f == Toggled(x, files[current])
  <2>1. current \in Vms /\ current \in prepared /\ current # 0
    BY <1>14, VmFacts DEF ChangeFile, ShapeOK
  <2>2. Change(current, f) /\ f \in SUBSET Files
    BY <1>14, <2>1, ToggledFacts DEF ChangeFile, TypeOK
  <2>3. kept \subseteq files[current] /\ ~suppress[current]
    BY <1>14, <2>1 DEF ChangeFile, KeptOK, SuppressOK, Replaying, Idle
  <2>4. f = files[current] \union {x} \/ (f = files[current] \ {x} /\ x \notin f)
    BY DEF Toggled
  <2>5. kept' = IF x \in f THEN kept \union {x} ELSE kept \ {x}
    BY <1>14 DEF ChangeFile
  <2>6. current' = current
    BY <1>14 DEF ChangeFile, countVars
  <2> HIDE DEF f
  <2>7. kept' \subseteq f
    BY <2>3, <2>4, <2>5
  <2>8. files'[current] = f /\ saved'[current] = f
    BY <2>1, <2>2, <2>3, ChangeFacts
  <2> QED BY <2>6, <2>7, <2>8 DEF KeptOK
<1>15. ASSUME NEW ok \in BOOLEAN, EmbedWrite(ok)
       PROVE  KeptOK'
  BY <1>15, VmFacts DEF EmbedWrite, Busy, KeptOK, Replaying, StillKept, ShapeOK,
     TypeOK, OpTypeOK, Idle, vmVars, countVars
<1>16. ASSUME NEW ok \in BOOLEAN, Hydrate(ok)
       PROVE  KeptOK'
  BY <1>16, VmFacts DEF Hydrate, Busy, KeptOK, Replaying, StillKept, ShapeOK, TypeOK,
     OpTypeOK, Idle, vmVars, countVars, historyVars
<1>17. ASSUME NEW kind \in {"restart", "reload"}, Restart(kind)
       PROVE  KeptOK'
  BY <1>17, VmFacts DEF Restart, KeptOK, Replaying, StillKept, ShapeOK, TypeOK,
     OpTypeOK, Idle, vmVars, diskVars, countVars, historyVars
<1>18. ASSUME NEW g \in Vms, NEW x \in Files, Background(g, x)
       PROVE  KeptOK'
  <2> DEFINE f == Toggled(x, files[g])
  <2>1. Change(g, f) /\ f \in SUBSET Files
    BY <1>18, ToggledFacts DEF Background, TypeOK
  <2>2. UNCHANGED <<current, op, replayed>>
    BY <1>18 DEF Background, countVars
  <2>3. kept' = IF Replaying(g) THEN kept ELSE StillKept(g, f)
    BY <1>18 DEF Background, Replaying
  <2> HIDE DEF f
  <2>4. CASE g # current
    <3>1. current # 0 => current \in Vms \ {g}
      BY <2>4, VmFacts
    <3>2. current # 0 => files'[current] = files[current] /\ saved'[current] = saved[current]
      BY <2>1, <3>1, ChangeFacts
    <3>3. kept' = kept
      BY <2>3, <2>4 DEF StillKept
    <3> QED BY <2>2, <3>2, <3>3 DEF KeptOK, Replaying
  <2>5. CASE g = current /\ Replaying(g)
    <3>1. suppress[g]
      BY <2>5 DEF SuppressOK, Replaying
    <3>2. saved'[g] = saved[g] /\ kept' = kept
      BY <2>1, <2>3, <2>5, <3>1, ChangeFacts
    <3> QED BY <2>2, <2>5, <3>2 DEF KeptOK, Replaying
  <2>6. CASE g = current /\ ~Replaying(g)
    <3>1. kept' = kept \intersect f /\ files'[g] = f
      BY <2>1, <2>3, <2>6, ChangeFacts DEF StillKept
    <3>2. current # 0 /\ current \in prepared
      BY <2>6, BoundsAssumption DEF ShapeOK, Vms
    <3>3. CASE ~suppress[g]
      <4>1. saved'[g] = f
        BY <2>1, <2>6, <3>2, <3>3, ChangeFacts
      <4> QED BY <2>2, <2>6, <3>1, <4>1 DEF KeptOK
    <3>4. CASE suppress[g]
      <4>1. op.vm = g /\ op.step \in {"run", "persist"}
        BY <2>6, <3>4 DEF SuppressOK, Replaying
      <4>2. replayed[g]
        BY <2>6, <3>2, <4>1 DEF ContextOK, ContextOf
      <4> QED BY <2>2, <2>6, <3>1, <4>2 DEF KeptOK
    <3> QED BY <3>3, <3>4
  <2> QED BY <2>4, <2>5, <2>6
<1>19. ASSUME NEW g \in Vms, Settle(g)
       PROVE  KeptOK'
  BY <1>19, VmFacts DEF Settle, KeptOK, Replaying, StillKept, ShapeOK, TypeOK,
     OpTypeOK, Idle, diskVars, countVars, historyVars
<1>20. CASE UNCHANGED vars
  BY <1>20, VmFacts DEF vars, vmVars, KeptOK, Replaying, StillKept, ShapeOK, TypeOK,
     OpTypeOK, Idle, diskVars, countVars, historyVars
<1> QED
  BY <1>1, <1>2, <1>3, <1>4, <1>5, <1>6, <1>7, <1>8, <1>9, <1>10, <1>11, <1>12, <1>13,
     <1>14, <1>15, <1>16, <1>17, <1>18, <1>19, <1>20 DEF Step

-----------------------------------------------------------------------------
(* What a VM recovers to. *)

LEMMA InitFacts == Init => VmInv
<1> SUFFICES ASSUME Init PROVE VmInv
  OBVIOUS
<1>1. [i \in 1..Past |-> i] \in Seq(Evals)
  <2>1. Past \in Nat /\ \A i \in 1..Past : i \in Evals
    BY PastAssumption, BoundsAssumption DEF Evals
  <2> QED BY <2>1
<1>2. <<>> \in Seq(Evals) /\ <<>> \in Seq(Snapshots)
  OBVIOUS
<1>3. copy \in Snapshots /\ disk \in Snapshots
  BY <1>1, <1>2 DEF Init, Snapshots, Empty
<1>4. evals \in 0..MaxEvals /\ answered \subseteq Evals
  BY PastAssumption, BoundsAssumption DEF Init, Evals
<1>5. TypeOK
  <2>1. /\ cells \in [Vms -> Seq(Evals)] /\ ran \in [Vms -> Seq(Evals)]
        /\ chain \in [Vms -> Seq(Snapshots)]
    BY <1>2 DEF Init
  <2>2. /\ files \in [Vms -> SUBSET Files] /\ saved \in [Vms -> SUBSET Files]
        /\ replayed \in [Vms -> BOOLEAN] /\ suppress \in [Vms -> BOOLEAN]
        /\ loose \in [Vms -> BOOLEAN]
    BY DEF Init
  <2>3. /\ current \in 0..MaxVms /\ made \in 0..MaxVms /\ prepared \subseteq Vms
        /\ kept \subseteq Files /\ intruded \in BOOLEAN /\ op = Idle
    <3>1. current = 0 /\ made = 0 /\ prepared = {} /\ kept = {} /\ intruded = FALSE /\ op = Idle
      BY DEF Init
    <3>2. 0 \in 0..MaxVms
      BY BoundsAssumption
    <3> QED BY <3>1, <3>2
  <2> QED BY <1>3, <1>4, <2>1, <2>2, <2>3, OpsFacts DEF TypeOK
<1>6. ShapeOK
  BY DEF Init, ShapeOK, Idle, Preparing
<1>7. SuppressOK /\ FreshOK /\ ContextOK /\ KeptOK
  BY DEF Init, SuppressOK, FreshOK, ContextOK, KeptOK, Idle
<1> QED BY <1>5, <1>6, <1>7 DEF VmInv

LEMMA VmStep == VmInv /\ [Next]_vars => VmInv'
<1> SUFFICES ASSUME VmInv, [Next]_vars PROVE VmInv'
  OBVIOUS
<1>1. [Step]_vars
  BY NextIsStep
<1> QED
  BY <1>1, TypeStep, ShapeStep, SuppressStep, FreshStep, ContextStep, KeptStep DEF VmInv

LEMMA VmRecovers == VmInv => VmIsRecovered
<1> SUFFICES ASSUME VmInv PROVE VmIsRecovered
  OBVIOUS
<1> USE DEF VmInv
<1>1. ContextIsTheSnapshot
  <2> SUFFICES ASSUME NEW g \in prepared
               PROVE  ran[g] = CASE replayed[g] -> cells[g]
                                 [] op.vm = g /\ op.step = "replay" ->
                                      SubSeq(cells[g], 1, op.at - 1)
                                 [] OTHER -> <<>>
    BY DEF ContextIsTheSnapshot
  <2>1. ContextOf(g)
    BY DEF ContextOK
  <2>2. CASE replayed[g]
    BY <2>1, <2>2 DEF ContextOf, Replaying
  <2>3. CASE ~replayed[g] /\ Replaying(g)
    BY <2>1, <2>3 DEF ContextOf, Replaying
  <2>4. CASE ~replayed[g] /\ ~Replaying(g)
    BY <2>1, <2>4 DEF ContextOf, Replaying
  <2> QED BY <2>2, <2>3, <2>4
<1>2. PersistenceComesBack
  BY VmFacts DEF PersistenceComesBack, SuppressOK, Idle
<1>3. RequestsFilesStay
  BY DEF RequestsFilesStay, KeptOK, Replaying, Idle
<1> QED BY <1>1, <1>2, <1>3 DEF VmIsRecovered

LEMMA VmInvariant == Spec => []VmInv
<1> QED BY InitFacts, VmStep, PTL DEF Spec

\* Every variable keeps its type, and the operation that runs is in a VM that is
\* prepared.
THEOREM VmTypeCorrect == Spec => []TypeOK
<1>1. VmInv => TypeOK
  BY DEF VmInv
<1> QED BY <1>1, VmInvariant, PTL

\* Whatever fails - a cell of the replay, the cell itself, a write of the snapshot -
\* the context of a VM holds exactly the cells of its snapshot or nothing, changes of
\* files are persisted again, and the files that requests wrote are there.
THEOREM VmAlwaysRecovers == Spec => []VmIsRecovered
<1> QED BY VmRecovers, VmInvariant, PTL

-----------------------------------------------------------------------------
(* What is persisted. *)

\* A snapshot that is queued is the newest.
LEMMA LineGrows ==
  ASSUME TypeOK, NEW g \in Vms, LineOK(g), NEW c \in Seq(Evals), NEW f \in SUBSET Files,
         IsPrefix(cells[g], c), cells'[g] = c, disk' = disk,
         chain'[g] = Append(chain[g], [cells |-> c, files |-> f])
  PROVE  LineOK(g)'
<1> DEFINE n == Len(chain[g])
           e == [cells |-> c, files |-> f]
<1>1. chain[g] \in Seq(Snapshots) /\ e \in Snapshots /\ n \in Nat
  <2>1. chain[g] \in Seq(Snapshots)
    BY DEF TypeOK
  <2>2. e \in Snapshots
    BY DEF Snapshots
  <2> QED BY <2>1, <2>2, LenProperties
<1>2. /\ Len(chain'[g]) = n + 1 /\ chain'[g][n + 1] = e
      /\ \A i \in 1..n : chain'[g][i] = chain[g][i]
  BY <1>1, AppendProperties
<1>3. e.cells = c
  OBVIOUS
<1>4. cells[g] \in Seq(Evals) /\ disk.cells \in Seq(Evals)
  BY SnapshotFacts DEF TypeOK
<1>5. IsPrefix(disk.cells, c) /\ IsPrefix(c, c)
  BY <1>4, PrefixTrans, PrefixSelf DEF LineOK
<1>6. \A i \in 1..n : IsPrefix(disk.cells, chain[g][i].cells) /\ IsPrefix(chain[g][i].cells, c)
  BY <1>4, SnapshotFacts, PrefixTrans DEF LineOK
<1> HIDE DEF n, e
<1>7. ASSUME NEW i \in 1..(n + 1)
      PROVE  /\ IsPrefix(disk.cells, chain'[g][i].cells)
             /\ IsPrefix(chain'[g][i].cells, c)
             /\ \A j \in i..(n + 1) : IsPrefix(chain'[g][i].cells, chain'[g][j].cells)
  <2>1. CASE i = n + 1
    <3>1. \A j \in i..(n + 1) : j = i
      BY <2>1, <1>1
    <3> QED BY <1>2, <1>3, <1>5, <2>1, <3>1
  <2>2. CASE i \in 1..n
    <3>1. \A j \in i..(n + 1) : (j \in i..n /\ j \in 1..n) \/ j = n + 1
      BY <2>2, <1>1
    <3>2. \A j \in i..n : IsPrefix(chain[g][i].cells, chain[g][j].cells)
      BY <2>2 DEF LineOK, n
    <3>3. chain'[g][i] = chain[g][i] /\ IsPrefix(chain[g][i].cells, c)
      BY <1>2, <1>6, <2>2
    <3>4. ASSUME NEW j \in i..(n + 1)
          PROVE  IsPrefix(chain[g][i].cells, chain'[g][j].cells)
      <4>1. CASE j = n + 1
        BY <4>1, <1>2, <1>3, <3>3
      <4>2. CASE j \in i..n /\ j \in 1..n
        BY <4>2, <1>2, <3>2
      <4> QED BY <4>1, <4>2, <3>1
    <3>5. IsPrefix(disk.cells, chain[g][i].cells)
      BY <1>6, <2>2
    <3>6. chain'[g][i].cells = chain[g][i].cells
      BY <3>3
    <3>7. \A j \in i..(n + 1) : IsPrefix(chain'[g][i].cells, chain'[g][j].cells)
      BY <3>4, <3>6
    <3>8. IsPrefix(disk.cells, chain'[g][i].cells)
      BY <3>5, <3>6
    <3>9. IsPrefix(chain'[g][i].cells, c)
      BY <3>3, <3>6
    <3> QED BY <3>7, <3>8, <3>9
  <2>3. i = n + 1 \/ i \in 1..n
    BY <1>1
  <2> QED BY <2>1, <2>2, <2>3
<1> QED BY <1>2, <1>5, <1>7 DEF LineOK

\* A snapshot that is written is the oldest of those on their way.
LEMMA LineMoves ==
  ASSUME TypeOK, NEW g \in Vms, LineOK(g), chain[g] # <<>>, cells' = cells,
         chain'[g] = Tail(chain[g]), disk' = disk \/ disk' = Head(chain[g])
  PROVE  LineOK(g)' /\ IsPrefix(disk.cells, disk'.cells)
<1> DEFINE n == Len(chain[g])
<1>1. chain[g] \in Seq(Snapshots) /\ n \in Nat \ {0} /\ Head(chain[g]) = chain[g][1]
  BY EmptySeq DEF TypeOK
<1>2. /\ Len(chain'[g]) = n - 1
      /\ \A i \in 1..(n - 1) : chain'[g][i] = chain[g][i + 1]
  BY <1>1
<1>3. disk.cells \in Seq(Evals)
  BY SnapshotFacts
<1> HIDE DEF n
<1>4. \A i \in 1..(n - 1) : i + 1 \in 1..n /\ i + 1 \in 1..Len(chain[g])
  BY <1>1 DEF n
<1>5. /\ IsPrefix(disk'.cells, cells[g]) /\ IsPrefix(disk.cells, disk'.cells)
      /\ \A i \in 1..(n - 1) : IsPrefix(disk'.cells, chain[g][i + 1].cells)
  <2>1. CASE disk' = disk
    BY <2>1, <1>3, <1>4, PrefixSelf DEF LineOK
  <2>2. CASE disk' = chain[g][1]
    <3>1. 1 \in 1..Len(chain[g]) /\ \A i \in 1..(n - 1) : i + 1 \in 1..Len(chain[g])
      BY <1>1 DEF n
    <3> QED BY <2>2, <3>1 DEF LineOK
  <2> QED BY <2>1, <2>2, <1>1
<1>6. ASSUME NEW i \in 1..(n - 1)
      PROVE  /\ IsPrefix(chain[g][i + 1].cells, cells[g])
             /\ \A j \in i..(n - 1) : IsPrefix(chain[g][i + 1].cells, chain[g][j + 1].cells)
  <2>1. i + 1 \in 1..Len(chain[g])
    BY <1>4
  <2>2. \A j \in i..(n - 1) : j + 1 \in (i + 1)..Len(chain[g])
    BY <1>1 DEF n
  <2> QED BY <2>1, <2>2 DEF LineOK
<1>7. \A i \in 1..(n - 1) : \A j \in i..(n - 1) : j \in 1..(n - 1)
  BY <1>1
<1> QED BY <1>2, <1>5, <1>6, <1>7 DEF LineOK

LEMMA LagStep ==
  ASSUME VmInv, LagOK, [Step]_vars
  PROVE  LagOK'
<1> USE DEF VmInv
<1>1. CASE Evaluate
  BY <1>1, VmFacts, SnapshotFacts, PrefixSelf DEF Evaluate, LagOK, LineOK, Preparing,
     ShapeOK, TypeOK, OpTypeOK, Idle, diskVars, historyVars
<1>2. CASE FailedReplay
  BY <1>2, VmFacts, SnapshotFacts, PrefixSelf DEF FailedReplay, Busy, LagOK, LineOK,
     Preparing, ShapeOK, TypeOK, OpTypeOK, Idle, diskVars, countVars, historyVars
<1>3. CASE EmbedRead
  BY <1>3, VmFacts, SnapshotFacts, PrefixSelf DEF EmbedRead, Busy, LagOK, LineOK,
     Preparing, ShapeOK, TypeOK, OpTypeOK, Idle, vmVars, diskVars, countVars,
     historyVars
<1>4. CASE Cancelled
  BY <1>4, VmFacts, SnapshotFacts, PrefixSelf DEF Cancelled, Busy, LagOK, LineOK,
     Preparing, ShapeOK, TypeOK, OpTypeOK, Idle, vmVars, diskVars, countVars,
     historyVars
<1>5. CASE Boot
  BY <1>5, VmFacts, SnapshotFacts, PrefixSelf DEF Boot, LagOK, LineOK, Preparing,
     ShapeOK, TypeOK, OpTypeOK, Idle, vmVars, diskVars, countVars, historyVars
<1>6. CASE Load
  <2>0. PICK g \in Vms : g = made + 1 /\ g > made /\ g # 0
    BY <1>6, BoundsAssumption DEF Load, Busy, ShapeOK, TypeOK, Vms
  <2>1. g = made + 1 /\ g > made /\ g # 0 /\ g # current
    <3>1. current <= made /\ current \in Int /\ made \in Int
      BY LiveFacts, BoundsAssumption DEF TypeOK
    <3> QED BY <2>0, <3>1
  <2>2. /\ op.step = "load" /\ op.kind \in {"restart", "reload"}
        /\ chain[g] = <<>> /\ cells'[g] = disk.cells
        /\ UNCHANGED <<chain, disk, copy, intruded>>
    BY <1>6, <2>1 DEF Load, Busy, diskVars, FreshOK, TypeOK
  <2>3. CASE op.kind = "restart" /\ disk.cells # <<>>
    <3>1. op' = [op EXCEPT !.step = "replay", !.vm = g, !.at = 1] /\ current' = current
      BY <1>6, <2>1, <2>3 DEF Load
    <3>2. op'.kind = "restart" /\ op'.step = "replay" /\ op'.vm = g
      BY <2>3, <3>1 DEF TypeOK, OpTypeOK
    <3>3. current # 0 /\ current \in Vms /\ cells'[current] = cells[current]
      BY <1>6, <2>1, <2>3, VmFacts DEF Load, ShapeOK, TypeOK
    <3> QED BY <2>2, <3>1, <3>2, <3>3 DEF LagOK, LineOK, Preparing
  <2>4. CASE ~(op.kind = "restart" /\ disk.cells # <<>>)
    <3>1. op'.kind = "idle" /\ op'.step = "idle" /\ current' = g
      BY <1>6, <2>1, <2>4 DEF Load, Swap, Idle
    <3>2. LineOK(g)'
      BY <2>2, SnapshotFacts, PrefixSelf DEF LineOK
    <3> QED BY <2>1, <2>2, <3>1, <3>2 DEF LagOK, Preparing
  <2> QED BY <2>3, <2>4
<1>7. CASE Prepared
  BY <1>7, VmFacts, SnapshotFacts, PrefixSelf DEF Prepared, Busy, Swap, LagOK, LineOK,
     Preparing, ShapeOK, TypeOK, OpTypeOK, Idle, diskVars
<1>8. CASE FailedPrepare
  BY <1>8, VmFacts, SnapshotFacts, PrefixSelf DEF FailedPrepare, Busy, LagOK, LineOK,
     Preparing, ShapeOK, TypeOK, OpTypeOK, Idle, diskVars, countVars, historyVars
<1>9. CASE Crash
  BY <1>9, VmFacts, SnapshotFacts, PrefixSelf DEF Crash, LagOK, LineOK, Preparing,
     ShapeOK, TypeOK, OpTypeOK, Idle, diskVars
<1>10. ASSUME NEW f \in SUBSET Files, NEW timer \in BOOLEAN, ReplayCell(f, timer)
       PROVE  LagOK'
  BY <1>10, VmFacts, SnapshotFacts, PrefixSelf DEF ReplayCell, Busy, Effect, LagOK,
     LineOK, Preparing, ShapeOK, TypeOK, OpTypeOK, Idle, diskVars, countVars,
     historyVars
<1>11. ASSUME NEW f \in SUBSET Files, NEW timer \in BOOLEAN, RunCell(f, timer)
       PROVE  LagOK'
  <2>1. /\ op.kind = "eval" /\ op.vm = current /\ op.eval \in Evals
        /\ current # 0
        /\ op'.kind = "eval" /\ op'.step = "persist"
    BY <1>11 DEF RunCell, Busy, ShapeOK, TypeOK, OpTypeOK
  <2>2. PICK g \in Vms : g = current
    BY <2>1, VmFacts
  <2>3. PICK c \in Seq(Evals) : c = Append(cells[g], op.eval)
    <3>1. cells[g] \in Seq(Evals)
      BY DEF TypeOK
    <3>2. Append(cells[g], op.eval) \in Seq(Evals)
      BY <2>1, <3>1, AppendProperties
    <3> QED BY <3>2
  <2>4. /\ cells'[g] = c /\ Persist(g, c, f) /\ UNCHANGED <<disk, copy, current, intruded>>
    <3>1. op.vm = g /\ cells \in [Vms -> Seq(Evals)]
      BY <2>1, <2>2 DEF TypeOK
    <3>2. cells' = [cells EXCEPT ![g] = c] /\ Persist(g, c, f)
      BY <1>11, <2>3, <3>1 DEF RunCell
    <3> QED BY <1>11, <3>1, <3>2 DEF RunCell, diskVars, countVars
  <2>5. IsPrefix(cells[g], c) /\ chain'[g] = Append(chain[g], [cells |-> c, files |-> f])
    <3>1. cells[g] \in Seq(Evals)
      BY DEF TypeOK
    <3>2. IsPrefix(cells[g], c)
      BY <2>1, <2>3, <3>1, PrefixAppend
    <3>3. chain'[g] = Append(chain[g], [cells |-> c, files |-> f])
      BY <2>4, PersistFacts
    <3> QED BY <3>2, <3>3
  <2>6. LineOK(g) => LineOK(g)'
    BY <2>4, <2>5, LineGrows
  <2> QED BY <2>1, <2>2, <2>4, <2>6 DEF LagOK, Preparing
<1>12. ASSUME NEW f \in SUBSET Files, NEW timer \in BOOLEAN, FailCell(f, timer)
       PROVE  LagOK'
  BY <1>12, VmFacts, SnapshotFacts, PrefixSelf DEF FailCell, Busy, Effect, LagOK,
     LineOK, Preparing, ShapeOK, TypeOK, OpTypeOK, Idle, diskVars, countVars
<1>13. ASSUME NEW g \in Vms, NEW ok \in BOOLEAN, Write(g, ok)
       PROVE  LagOK'
  <2>1. /\ UNCHANGED <<cells, copy, current>> /\ chain[g] # <<>>
        /\ chain' = [chain EXCEPT ![g] = Tail(@)]
        /\ disk' = (IF ok THEN Head(chain[g]) ELSE disk)
        /\ intruded' = (intruded \/ (ok /\ g # Latest))
    BY <1>13 DEF Write, countVars
  <2>2. /\ op.step = "persist" => op.kind = "eval"
        /\ op' = op \/ op' = Idle
           \/ (op.step = "persist" /\ op' = [op EXCEPT !.step = "embed"])
    BY <1>13 DEF Write, ShapeOK, TypeOK, OpTypeOK, Idle
  <2>3. /\ Preparing' => op' = op /\ Preparing
        /\ op'.step \in {"load", "hydrate", "embedding"} => op' = op
    BY <2>2 DEF Preparing, TypeOK, OpTypeOK, Idle
  <2>4. Preparing => op.vm # g /\ op.vm # current /\ op.vm \in Vms /\ op.vm # 0
    BY <2>1, VmFacts DEF LagOK, ShapeOK, Vms
  <2>5. Preparing' => chain'[op'.vm] = <<>>
    BY <2>1, <2>3, <2>4 DEF LagOK
  <2>6. CASE intruded'
    BY <2>5, <2>6 DEF LagOK
  <2>7. CASE ~intruded' /\ g # current
    <3>1. ~ok /\ disk' = disk
      <4>1. SUFFICES ASSUME ok PROVE FALSE
        BY <2>1
      <4>2. g = Latest /\ g # current
        BY <2>1, <2>7, <4>1
      <4>3. op.kind = "restart" /\ op.vm # 0 /\ g = op.vm
        BY <4>2 DEF Latest
      <4>4. Preparing
        BY <4>3 DEF ShapeOK, Preparing
      <4> QED BY <2>4, <4>3, <4>4
    <3>2. ~intruded /\ (current # 0 => chain'[current] = chain[current])
      BY <2>1, <2>7, VmFacts DEF TypeOK
    <3> QED BY <2>1, <2>3, <2>5, <3>1, <3>2 DEF LagOK, LineOK, Preparing
  <2>8. CASE ~intruded' /\ g = current
    <3>1. ~intruded /\ g # 0
      <4>1. g # 0
        BY BoundsAssumption DEF Vms
      <4>2. ~intruded
        BY <2>1, <2>8 DEF TypeOK
      <4> QED BY <4>1, <4>2
    <3>2. LineOK(g) /\ IsPrefix(copy.cells, disk.cells)
      BY <2>8, <3>1 DEF LagOK
    <3>3. LineOK(g)' /\ IsPrefix(disk.cells, disk'.cells)
      BY <2>1, <3>2, LineMoves DEF TypeOK
    <3>4. disk'.cells \in Seq(Evals)
      BY <2>1, TypeStep, <1>13, SnapshotFacts DEF TypeOK, Snapshots
    <3>5. IsPrefix(copy.cells, disk'.cells)
      BY <3>2, <3>3, <3>4, SnapshotFacts, PrefixTrans
    <3>6. op.step = "embedding" => IsPrefix(op.read.cells, disk'.cells)
      BY <3>1, <3>3, <3>4, SnapshotFacts, PrefixTrans DEF LagOK
    <3>7. Preparing => disk' = disk
      <4>1. SUFFICES ASSUME Preparing, ok PROVE FALSE
        BY <2>1
      <4>2. Latest = op.vm
        BY <2>4, <4>1 DEF Latest, Preparing
      <4> QED BY <2>1, <2>4, <2>8, <4>1, <4>2
    <3> QED BY <2>1, <2>3, <2>5, <2>8, <3>1, <3>3, <3>5, <3>6, <3>7 DEF LagOK, Preparing
  <2> QED BY <2>6, <2>7, <2>8
<1>14. ASSUME NEW x \in Files, ChangeFile(x)
       PROVE  LagOK'
  <2>1. PICK g \in Vms : g = current /\ g # 0
    BY <1>14, VmFacts DEF ChangeFile
  <2>2. PICK f \in SUBSET Files : f = Toggled(x, files[g])
    BY ToggledFacts DEF TypeOK
  <2>3. /\ Change(g, f) /\ UNCHANGED <<cells, disk, copy, current, intruded>>
        /\ op'.kind = "file" /\ op'.step = "embed"
    BY <1>14, <2>1, <2>2 DEF ChangeFile, diskVars, countVars, Idle
  <2>4. cells[g] \in Seq(Evals) /\ cells'[g] = cells[g] /\ IsPrefix(cells[g], cells[g])
    BY <2>3, PrefixSelf DEF TypeOK
  <2>5. CASE chain'[g] = chain[g]
    BY <2>1, <2>3, <2>4, <2>5 DEF LagOK, LineOK, Preparing
  <2>6. CASE chain'[g] = Append(chain[g], [cells |-> cells[g], files |-> f])
    <3>1. LineOK(g) => LineOK(g)'
      BY <2>3, <2>4, <2>6, LineGrows
    <3> QED BY <2>1, <2>3, <3>1 DEF LagOK, Preparing
  <2> QED BY <2>3, <2>5, <2>6, ChangeFacts
<1>15. ASSUME NEW ok \in BOOLEAN, EmbedWrite(ok)
       PROVE  LagOK'
  BY <1>15, VmFacts, SnapshotFacts, PrefixSelf DEF EmbedWrite, Busy, LagOK, LineOK,
     Preparing, ShapeOK, TypeOK, OpTypeOK, Idle, vmVars, countVars
<1>16. ASSUME NEW ok \in BOOLEAN, Hydrate(ok)
       PROVE  LagOK'
  <2>1. /\ UNCHANGED <<cells, chain, copy, current, intruded>> /\ op.step = "hydrate"
        /\ ~Preparing /\ ~Preparing'
        /\ disk' = (IF ok THEN op.read ELSE disk)
        /\ ~ok => op'.step = "idle"
        /\ ok => op'.step = "load"
    BY <1>16 DEF Hydrate, Busy, vmVars, countVars, historyVars, Preparing, TypeOK, OpTypeOK,
       Idle
  <2>2. CASE ~ok
    BY <2>1, <2>2 DEF LagOK, LineOK
  <2>3. CASE ok /\ intruded
    BY <2>1, <2>3 DEF LagOK
  <2>4. CASE ok /\ ~intruded
    <3>1. disk' = copy /\ IsPrefix(copy.cells, copy.cells)
      BY <2>1, <2>4, SnapshotFacts, PrefixSelf DEF LagOK
    <3>2. CASE current # 0
      <4>1. PICK g \in Vms : g = current
        BY <3>2, VmFacts
      <4>2. LineOK(g) /\ IsPrefix(copy.cells, disk.cells)
        BY <2>4, <3>2, <4>1 DEF LagOK
      <4>3. IsPrefix(copy.cells, cells[g])
        BY <4>2, SnapshotFacts, PrefixTrans DEF LineOK, TypeOK
      <4>4. \A i \in 1..Len(chain[g]) : IsPrefix(copy.cells, chain[g][i].cells)
        BY <4>2, SnapshotFacts, PrefixTrans DEF LineOK
      <4>5. LineOK(g)'
        BY <2>1, <3>1, <4>2, <4>3, <4>4 DEF LineOK
      <4> QED BY <2>1, <2>4, <3>1, <4>1, <4>5 DEF LagOK
    <3>3. CASE current = 0
      BY <2>1, <2>4, <3>1, <3>3 DEF LagOK
    <3> QED BY <3>2, <3>3
  <2> QED BY <2>2, <2>3, <2>4
<1>17. ASSUME NEW kind \in {"restart", "reload"}, Restart(kind)
       PROVE  LagOK'
  BY <1>17, VmFacts, SnapshotFacts, PrefixSelf DEF Restart, LagOK, LineOK, Preparing,
     ShapeOK, TypeOK, OpTypeOK, Idle, vmVars, diskVars, countVars, historyVars
<1>18. ASSUME NEW g \in Vms, NEW x \in Files, Background(g, x)
       PROVE  LagOK'
  <2>1. PICK f \in SUBSET Files : f = Toggled(x, files[g])
    BY ToggledFacts DEF TypeOK
  <2>2. Change(g, f) /\ UNCHANGED <<cells, disk, copy, current, intruded, op>>
    BY <1>18, <2>1 DEF Background, diskVars, countVars
  <2>3. cells[g] \in Seq(Evals) /\ cells'[g] = cells[g] /\ IsPrefix(cells[g], cells[g])
    BY <2>2, PrefixSelf DEF TypeOK
  <2>4. Preparing => op.vm \in Vms /\ suppress[op.vm]
    BY VmFacts DEF SuppressOK, Preparing
  <2>5. Preparing => chain'[op.vm] = chain[op.vm]
    BY <2>2, <2>4, ChangeFacts
  <2>6. CASE g = current
    <3>1. CASE chain'[g] = chain[g]
      BY <2>2, <2>3, <2>5, <2>6, <3>1 DEF LagOK, LineOK, Preparing
    <3>2. CASE chain'[g] = Append(chain[g], [cells |-> cells[g], files |-> f])
      <4>1. LineOK(g) => LineOK(g)'
        BY <2>2, <2>3, <3>2, LineGrows
      <4> QED BY <2>2, <2>5, <2>6, <4>1 DEF LagOK, Preparing
    <3> QED BY <2>2, <3>1, <3>2, ChangeFacts
  <2>7. CASE g # current
    <3>1. current # 0 => chain'[current] = chain[current]
      <4>1. current # 0 => current \in Vms \ {g}
        BY <2>7, VmFacts
      <4> QED BY <2>2, <4>1, ChangeFacts
    <3> QED BY <2>2, <2>5, <3>1 DEF LagOK, LineOK, Preparing
  <2> QED BY <2>6, <2>7
<1>19. ASSUME NEW g \in Vms, Settle(g)
       PROVE  LagOK'
  BY <1>19, VmFacts, SnapshotFacts, PrefixSelf DEF Settle, LagOK, LineOK, Preparing,
     ShapeOK, TypeOK, OpTypeOK, Idle, diskVars, countVars, historyVars
<1>20. CASE UNCHANGED vars
  BY <1>20, VmFacts, SnapshotFacts, PrefixSelf DEF vars, vmVars, LagOK, LineOK,
     Preparing, ShapeOK, TypeOK, OpTypeOK, Idle, diskVars, countVars, historyVars
<1> QED
  BY <1>1, <1>2, <1>3, <1>4, <1>5, <1>6, <1>7, <1>8, <1>9, <1>10, <1>11, <1>12, <1>13,
     <1>14, <1>15, <1>16, <1>17, <1>18, <1>19, <1>20 DEF Step

\* What is answered is in the notebook, and what is being saved gets there.
LEMMA AnswerStep ==
  ASSUME VmInv, LagOK, AnswerOK, [Step]_vars
  PROVE  AnswerOK'
<1> USE DEF VmInv
<1>1. CASE Evaluate
  BY <1>1 DEF Evaluate, AnswerOK, TypeOK, OpTypeOK, Idle, diskVars, historyVars
<1>2. CASE FailedReplay
  BY <1>2 DEF FailedReplay, Busy, AnswerOK, TypeOK, OpTypeOK, Idle, diskVars,
     countVars, historyVars
<1>3. CASE EmbedRead
  <2>1. op' = [op EXCEPT !.step = "embedding", !.read = disk] /\ op.step = "embed"
    BY <1>3 DEF EmbedRead, Busy
  <2>2. op'.step = "embedding" /\ op'.kind = op.kind /\ op'.eval = op.eval /\ op'.read = disk
    BY <2>1 DEF TypeOK, OpTypeOK
  <2> QED BY <1>3, <2>1, <2>2 DEF EmbedRead, AnswerOK, diskVars, historyVars
<1>4. CASE Cancelled
  BY <1>4 DEF Cancelled, Busy, AnswerOK, TypeOK, OpTypeOK, Idle, vmVars, diskVars,
     countVars, historyVars
<1>5. CASE Boot
  BY <1>5 DEF Boot, AnswerOK, TypeOK, OpTypeOK, Idle, vmVars, diskVars, countVars,
     historyVars
<1>6. CASE Load
  <2>1. /\ op.kind \in {"restart", "reload"}
        /\ UNCHANGED <<disk, copy, answered, intruded>>
    BY <1>6 DEF Load, Busy, diskVars
  <2>2. op' = Idle \/ op' = [op EXCEPT !.step = "replay", !.vm = made + 1, !.at = 1]
    BY <1>6 DEF Load, Swap
  <2>3. CASE op' = Idle
    BY <2>1, <2>3 DEF AnswerOK, Idle
  <2>4. CASE op' = [op EXCEPT !.step = "replay", !.vm = made + 1, !.at = 1]
    <3>1. op'.kind = op.kind /\ op'.step = "replay"
      BY <2>4 DEF TypeOK, OpTypeOK
    <3> QED BY <2>1, <3>1 DEF AnswerOK
  <2> QED BY <2>2, <2>3, <2>4
<1>7. CASE Prepared
  BY <1>7 DEF Prepared, Busy, Swap, AnswerOK, TypeOK, OpTypeOK, Idle, Swap, diskVars
<1>8. CASE FailedPrepare
  BY <1>8 DEF FailedPrepare, Busy, AnswerOK, TypeOK, OpTypeOK, Idle, diskVars,
     countVars, historyVars
<1>9. CASE Crash
  BY <1>9 DEF Crash, AnswerOK, TypeOK, OpTypeOK, Idle, diskVars
<1>10. ASSUME NEW f \in SUBSET Files, NEW timer \in BOOLEAN, ReplayCell(f, timer)
       PROVE  AnswerOK'
  BY <1>10 DEF ReplayCell, Busy, Effect, AnswerOK, TypeOK, OpTypeOK, Idle, diskVars,
     countVars, historyVars
<1>11. ASSUME NEW f \in SUBSET Files, NEW timer \in BOOLEAN, RunCell(f, timer)
       PROVE  AnswerOK'
  <2>1. /\ op.kind = "eval" /\ op.eval \in Evals /\ op.vm \in Vms
        /\ op' = [op EXCEPT !.step = "persist"]
        /\ UNCHANGED <<disk, copy, answered, intruded>>
    BY <1>11, VmFacts DEF RunCell, Busy, ShapeOK, diskVars
  <2>2. op'.kind = "eval" /\ op'.step = "persist" /\ op'.vm = op.vm /\ op'.eval = op.eval
    BY <2>1 DEF TypeOK, OpTypeOK
  <2>3. PICK g \in Vms : g = op.vm
    BY <2>1
  <2>4. cells[g] \in Seq(Evals) /\ chain[g] \in Seq(Snapshots)
    BY DEF TypeOK
  <2>5. PICK c \in Seq(Evals) : c = Append(cells[g], op.eval) /\ op.eval \in ToSet(c)
    BY <2>1, <2>4, AppendKeeps, AppendProperties
  <2>6. Persist(g, c, f)
    BY <1>11, <2>3, <2>5 DEF RunCell
  <2>7. chain'[g] = Append(chain[g], [cells |-> c, files |-> f])
    BY <2>6, PersistFacts
  <2>8. [cells |-> c, files |-> f] \in Snapshots
    BY DEF Snapshots
  <2>9. /\ chain'[g] # <<>>
        /\ chain'[g][Len(chain'[g])] = [cells |-> c, files |-> f]
    <3>1. PICK s \in Seq(Snapshots), e \in Snapshots :
            s = chain[g] /\ e = [cells |-> c, files |-> f]
      BY <2>4, <2>8
    <3>2. chain'[g] = Append(s, e)
      BY <2>7, <3>1
    <3>3. Len(Append(s, e)) = Len(s) + 1 /\ Append(s, e)[Len(s) + 1] = e
      BY AppendProperties
    <3>4. Len(s) \in Nat
      OBVIOUS
    <3>5. Append(s, e) # <<>>
      BY AppendProperties
    <3> QED BY <3>1, <3>2, <3>3, <3>5
  <2>10. op'.eval \in ToSet(chain'[op'.vm][Len(chain'[op'.vm])].cells)
    BY <2>2, <2>3, <2>5, <2>9
  <2>11. ~intruded' => answered' \subseteq ToSet(copy'.cells)
    BY <2>1 DEF AnswerOK
  <2> QED BY <2>2, <2>3, <2>9, <2>10, <2>11 DEF AnswerOK
<1>12. ASSUME NEW f \in SUBSET Files, NEW timer \in BOOLEAN, FailCell(f, timer)
       PROVE  AnswerOK'
  BY <1>12 DEF FailCell, Busy, Effect, AnswerOK, TypeOK, OpTypeOK, Idle, diskVars,
     countVars
<1>13. ASSUME NEW g \in Vms, NEW ok \in BOOLEAN, Write(g, ok)
       PROVE  AnswerOK'
  <2>1. /\ UNCHANGED <<cells, copy, current, answered>> /\ chain[g] # <<>>
        /\ chain' = [chain EXCEPT ![g] = Tail(@)]
        /\ disk' = (IF ok THEN Head(chain[g]) ELSE disk)
        /\ intruded' = (intruded \/ (ok /\ g # Latest))
        /\ op' = IF ~(op.vm = g /\ op.step = "persist" /\ Len(chain[g]) = 1) THEN op
                 ELSE IF ok THEN [op EXCEPT !.step = "embed"] ELSE Idle
    BY <1>13 DEF Write, countVars
  <2>2. /\ chain[g] \in Seq(Snapshots) /\ Head(chain[g]) = chain[g][1]
        /\ Len(chain[g]) \in Nat \ {0}
    BY <2>1, EmptySeq DEF TypeOK
  <2>3. ~intruded' => ~intruded /\ answered' \subseteq ToSet(copy'.cells)
    BY <2>1 DEF AnswerOK, TypeOK
  <2>4. CASE op.step = "persist" /\ op.vm = g /\ Len(chain[g]) = 1
    <3>1. op' = IF ok THEN [op EXCEPT !.step = "embed"] ELSE Idle
      BY <2>1, <2>4
    <3>2. CASE ok
      <4>1. op.kind = "eval" /\ op.eval \in ToSet(disk'.cells)
        BY <2>1, <2>2, <2>4, <3>2 DEF AnswerOK
      <4>2. op'.step = "embed" /\ op'.eval = op.eval
        BY <3>1, <3>2 DEF TypeOK, OpTypeOK
      <4> QED BY <2>3, <4>1, <4>2 DEF AnswerOK
    <3>3. CASE ~ok
      <4>1. op'.step = "idle" /\ op'.kind = "idle"
        BY <3>1, <3>3 DEF Idle
      <4> QED BY <2>3, <4>1 DEF AnswerOK
    <3> QED BY <3>2, <3>3
  <2>5. CASE op.step = "persist" /\ op.vm = g /\ Len(chain[g]) # 1
    <3>1. PICK s \in Seq(Snapshots) : s = chain[g]
      BY <2>2
    <3>2. Len(s) \in Nat /\ Len(s) > 1
      <4>1. PICK n \in Nat \ {0} : n = Len(s) /\ n # 1
        BY <2>2, <2>5, <3>1, Zenon
      <4>2. n > 1
        BY <4>1
      <4> QED BY <4>1, <4>2
    <3>3. Len(Tail(s)) = Len(s) - 1 /\ Tail(s)[Len(s) - 1] = s[Len(s)]
      BY <3>2
    <3>4. Tail(s) # <<>>
      <4>1. Len(Tail(s)) # 0
        BY <3>2, <3>3
      <4> QED BY <4>1, EmptySeq
    <3>5. op' = op
      BY <2>1, <2>5
    <3>6. chain'[g] = Tail(s)
      BY <2>1, <3>1 DEF TypeOK
    <3> QED BY <2>3, <2>5, <3>1, <3>3, <3>4, <3>5, <3>6 DEF AnswerOK
  <2>6. CASE op.step = "persist" /\ op.vm # g
    <3>1. op' = op /\ chain'[op.vm] = chain[op.vm]
      BY <2>1, <2>6 DEF TypeOK
    <3> QED BY <2>3, <2>6, <3>1 DEF AnswerOK
  <2>7. CASE op.step # "persist"
    <3>1. op' = op
      BY <2>1, <2>7
    <3>2. ASSUME op.kind = "eval", op.step = "embed", ~intruded'
          PROVE  op.eval \in ToSet(disk'.cells)
      <4>1. op.eval \in ToSet(disk.cells)
        BY <2>3, <3>2 DEF AnswerOK
      <4>2. CASE ~ok
        BY <2>1, <4>1, <4>2
      <4>3. CASE ok
        <5>1. g = current /\ current # 0
          BY <2>1, <3>2, <4>3 DEF Latest, ShapeOK
        <5>2. LineOK(g)
          BY <2>3, <3>2, <5>1 DEF LagOK
        <5>3. IsPrefix(disk.cells, disk'.cells)
          BY <2>1, <5>2, LineMoves DEF TypeOK
        <5>4. disk'.cells \in Seq(Evals) /\ disk.cells \in Seq(Evals)
          BY TypeStep, <1>13, <2>1, <2>2, SnapshotFacts
        <5> QED BY <4>1, <5>3, <5>4, PrefixKeeps
      <4> QED BY <4>2, <4>3
    <3> QED BY <2>3, <2>7, <3>1, <3>2 DEF AnswerOK
  <2> QED BY <2>4, <2>5, <2>6, <2>7
<1>14. ASSUME NEW x \in Files, ChangeFile(x)
       PROVE  AnswerOK'
  <2>1. op'.kind # "eval" /\ op'.step # "persist"
    BY <1>14 DEF ChangeFile, Idle
  <2> QED BY <1>14, <2>1 DEF ChangeFile, AnswerOK, diskVars
<1>15. ASSUME NEW ok \in BOOLEAN, EmbedWrite(ok)
       PROVE  AnswerOK'
  <2>1. /\ op.kind \in {"eval", "file"} /\ op.step = "embedding"
        /\ copy' = (IF ok THEN op.read ELSE copy)
        /\ answered' = (IF ok /\ op.kind = "eval" THEN answered \union {op.eval}
                        ELSE answered)
        /\ op' = Idle /\ UNCHANGED <<disk, intruded>>
    BY <1>15 DEF EmbedWrite, Busy
  <2>2. op'.step = "idle" /\ op'.kind = "idle"
    BY <2>1 DEF Idle
  <2>3. ASSUME ~intruded PROVE answered' \subseteq ToSet(copy'.cells)
    <3>1. answered \subseteq ToSet(copy.cells)
      BY <2>3 DEF AnswerOK
    <3>2. CASE ok
      <4>1. ToSet(copy.cells) \subseteq ToSet(op.read.cells)
        BY <2>1, <2>3, SnapshotFacts, PrefixKeeps DEF LagOK
      <4>2. op.kind = "eval" => op.eval \in ToSet(op.read.cells)
        BY <2>1, <2>3 DEF AnswerOK
      <4> QED BY <2>1, <3>1, <3>2, <4>1, <4>2
    <3>3. CASE ~ok
      BY <2>1, <3>1, <3>3
    <3> QED BY <3>2, <3>3
  <2> QED BY <2>1, <2>2, <2>3 DEF AnswerOK
<1>16. ASSUME NEW ok \in BOOLEAN, Hydrate(ok)
       PROVE  AnswerOK'
  BY <1>16 DEF Hydrate, Busy, AnswerOK, TypeOK, OpTypeOK, Idle, vmVars, countVars,
     historyVars
<1>17. ASSUME NEW kind \in {"restart", "reload"}, Restart(kind)
       PROVE  AnswerOK'
  BY <1>17 DEF Restart, AnswerOK, TypeOK, OpTypeOK, Idle, vmVars, diskVars, countVars,
     historyVars
<1>18. ASSUME NEW g \in Vms, NEW x \in Files, Background(g, x)
       PROVE  AnswerOK'
  <2>1. PICK f \in SUBSET Files : f = Toggled(x, files[g])
    BY ToggledFacts DEF TypeOK
  <2>2. Change(g, f) /\ UNCHANGED <<disk, copy, answered, intruded, op>>
    BY <1>18, <2>1 DEF Background, diskVars
  <2>3. ASSUME op.step = "persist" PROVE chain'[op.vm] = chain[op.vm]
    <3>1. op.vm \in Vms /\ suppress[op.vm]
      BY <2>3, VmFacts DEF AnswerOK, SuppressOK
    <3> QED BY <2>2, <3>1, ChangeFacts
  <2> QED BY <2>2, <2>3 DEF AnswerOK
<1>19. ASSUME NEW g \in Vms, Settle(g)
       PROVE  AnswerOK'
  BY <1>19 DEF Settle, AnswerOK, TypeOK, OpTypeOK, Idle, diskVars, countVars,
     historyVars
<1>20. CASE UNCHANGED vars
  BY <1>20 DEF vars, vmVars, AnswerOK, TypeOK, OpTypeOK, Idle, diskVars, countVars,
     historyVars
<1> QED
  BY <1>1, <1>2, <1>3, <1>4, <1>5, <1>6, <1>7, <1>8, <1>9, <1>10, <1>11, <1>12, <1>13,
     <1>14, <1>15, <1>16, <1>17, <1>18, <1>19, <1>20 DEF Step

-----------------------------------------------------------------------------
(* What was answered is in the notebook. *)

LEMMA SavedInit == Init => LagOK /\ AnswerOK
<1> SUFFICES ASSUME Init PROVE LagOK /\ AnswerOK
  OBVIOUS
<1>1. current = 0 /\ op = Idle /\ op.step = "idle" /\ op.kind = "idle"
  BY DEF Init, Idle
<1>2. LagOK
  BY <1>1 DEF LagOK, Preparing
<1>3. answered \subseteq ToSet(copy.cells)
  <2>1. ASSUME NEW i \in 1..Past
        PROVE  i \in ToSet(copy.cells)
    <3>1. i \in DOMAIN copy.cells /\ copy.cells[i] = i
      BY DEF Init
    <3> QED BY <3>1 DEF ToSet
  <2> QED BY <2>1 DEF Init
<1> QED BY <1>1, <1>2, <1>3 DEF AnswerOK

LEMMA SavedStep == SavedInv /\ [Next]_vars => SavedInv'
<1> SUFFICES ASSUME SavedInv, [Next]_vars PROVE SavedInv'
  OBVIOUS
<1>1. [Step]_vars
  BY NextIsStep
<1> QED BY <1>1, VmStep, LagStep, AnswerStep DEF SavedInv

LEMMA SavedInvariant == Spec => []SavedInv
<1>1. Init => SavedInv
  BY InitFacts, SavedInit DEF SavedInv
<1> QED BY <1>1, SavedStep, PTL DEF Spec

\* The line from the notebook to the VM, one neighbour at a time.
LEMMA SavedLags == SavedInv => FilesLagBehind
<1> SUFFICES ASSUME SavedInv, current # 0, ~intruded
             PROVE  LET line == <<copy.cells, disk.cells>>
                                \o [i \in 1..Len(chain[current]) |-> chain[current][i].cells]
                                \o <<cells[current]>>
                    IN  \A i \in 1..Len(line) - 1 : IsPrefix(line[i], line[i + 1])
  BY DEF FilesLagBehind
<1> USE DEF SavedInv, VmInv
<1>1. PICK g \in Vms : g = current
  BY VmFacts
<1> DEFINE mid == [i \in 1..Len(chain[g]) |-> chain[g][i].cells]
           n == Len(chain[g])
           line == <<copy.cells, disk.cells>> \o mid \o <<cells[g]>>
<1>2. n \in Nat /\ chain[g] \in Seq(Snapshots)
  BY DEF TypeOK
<1>3. copy.cells \in Seq(Evals) /\ disk.cells \in Seq(Evals) /\ cells[g] \in Seq(Evals)
  BY SnapshotFacts DEF TypeOK
<1>4. mid \in Seq(Seq(Evals)) /\ Len(mid) = n /\ \A i \in 1..n : mid[i] = chain[g][i].cells
  BY <1>2, SnapshotFacts
<1> HIDE DEF mid, n
<1>5. /\ Len(line) = n + 3
      /\ line[1] = copy.cells /\ line[2] = disk.cells /\ line[n + 3] = cells[g]
      /\ \A i \in 1..n : line[i + 2] = mid[i]
  <2>1. PICK h : h = <<copy.cells, disk.cells>> \o mid
    OBVIOUS
  <2>2. <<copy.cells, disk.cells>> \in Seq(Seq(Evals))
    BY <1>3
  <2>3. h \in Seq(Seq(Evals)) /\ Len(h) = n + 2
    BY <1>2, <1>4, <2>1, <2>2
  <2>4. h[1] = copy.cells /\ h[2] = disk.cells
    BY <1>2, <1>4, <2>1, <2>2
  <2>5. \A i \in 1..n : h[i + 2] = mid[i]
    BY <1>2, <1>4, <2>1, <2>2
  <2>6. <<cells[g]>> \in Seq(Seq(Evals)) /\ line = h \o <<cells[g]>>
    BY <1>3, <2>1
  <2>7. Len(line) = n + 3 /\ line[n + 3] = cells[g]
    BY <1>2, <2>3, <2>6
  <2>8. \A i \in 1..(n + 2) : line[i] = h[i]
    BY <1>2, <2>3, <2>6
  <2>9. 1 \in 1..(n + 2) /\ 2 \in 1..(n + 2) /\ \A i \in 1..n : i + 2 \in 1..(n + 2)
    BY <1>2
  <2> HIDE DEF line
  <2> QED BY <2>4, <2>5, <2>7, <2>8, <2>9
<1> HIDE DEF line
<1>6. LineOK(g) /\ IsPrefix(copy.cells, disk.cells)
  BY <1>1 DEF LagOK
<1>7. \A i \in 1..n : /\ IsPrefix(disk.cells, mid[i]) /\ IsPrefix(mid[i], cells[g])
                      /\ \A j \in i..n : IsPrefix(mid[i], mid[j])
  <2>1. \A i \in 1..n : \A j \in i..n : j \in 1..n
    BY <1>2
  <2> QED BY <1>4, <1>6, <2>1 DEF LineOK, n
<1>8. ASSUME NEW i \in 1..(n + 2)
      PROVE  IsPrefix(line[i], line[i + 1])
  <2>1. CASE i = 1
    BY <1>5, <1>6, <2>1
  <2>2. CASE i = 2 /\ n = 0
    BY <1>5, <1>6, <2>2 DEF LineOK
  <2>3. CASE i = 2 /\ n # 0
    <3>1. 1 \in 1..n /\ i + 1 = 1 + 2
      BY <1>2, <2>3
    <3>2. line[i + 1] = mid[1] /\ line[i] = disk.cells
      BY <1>5, <2>3, <3>1
    <3> QED BY <1>7, <3>1, <3>2
  <2>4. CASE i > 2
    <3>1. PICK k \in 1..n : i = k + 2
      <4>1. i - 2 \in 1..n /\ i = (i - 2) + 2
        BY <1>2, <2>4
      <4> QED BY <4>1
    <3>2. line[i] = mid[k]
      BY <1>5, <3>1
    <3>3. CASE k = n
      <4>1. i + 1 = n + 3
        BY <1>2, <3>1, <3>3
      <4>2. line[i + 1] = cells[g]
        BY <1>5, <4>1
      <4> QED BY <1>7, <3>2, <4>2
    <3>4. CASE k # n
      <4>1. k + 1 \in 1..n /\ k + 1 \in k..n /\ i + 1 = (k + 1) + 2
        BY <1>2, <3>1, <3>4
      <4>2. line[i + 1] = mid[k + 1]
        BY <1>5, <4>1
      <4> QED BY <1>7, <3>2, <4>1, <4>2
    <3> QED BY <3>3, <3>4
  <2> QED BY <1>2, <2>1, <2>2, <2>3, <2>4
<1>9. Len(line) - 1 = n + 2
  BY <1>2, <1>5
<1>10. \A i \in 1..(Len(line) - 1) : IsPrefix(line[i], line[i + 1])
  BY <1>8, <1>9
<1> QED BY <1>1, <1>10 DEF line, mid

\* As long as no VM that was replaced writes the file: the notebook never holds a cell
\* the snapshot file does not have, nor that one a cell the VM does not have, and the
\* notebook holds every evaluation that was answered, whatever writes fail and
\* whenever the process ends.
THEOREM SnapshotsAlwaysKeepUp == Spec => []SnapshotsKeepUp
<1>1. SavedInv => SnapshotsKeepUp
  BY SavedLags DEF SavedInv, AnswerOK, SnapshotsKeepUp, AnsweredIsInTheNotebook
<1> QED BY <1>1, SavedInvariant, PTL
=============================================================================
