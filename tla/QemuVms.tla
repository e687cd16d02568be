------------------------------- MODULE QemuVms -------------------------------
(***************************************************************************)
(* The virtual machines of QemuKit (src/kits/qemu-kit.ts): processes the   *)
(* kit spawns, tracks and stops, and the tap interfaces and the bridge it  *)
(* makes for them.  A launch is either attached, its child process is the  *)
(* machine, or a daemon: the child is a launcher that forks the machine    *)
(* and exits, and the kit polls for the pid file the machine writes.       *)
(*                                                                         *)
(* Interfaces are made before the machine is spawned and removed by        *)
(* whoever sees it end: the exit handler of the child, the monitor of the  *)
(* daemon's pid, the launch that waits for the pid file in vain, the stop  *)
(* of the kit or the exit of the process.  Commands of the network run     *)
(* synchronously, so each of these is one step.                            *)
(***************************************************************************)
EXTENDS Naturals, FiniteSets

CONSTANTS Launches, \* calls of launch
          Taps,     \* names of tap interfaces
          TapSets,  \* the taps a command can name
          Hosts,    \* what a host may have: its own, or left by a kit that crashed
          Results   \* outcomes of removing an interface and of writing the marker

ASSUME TapSetsAssumption == TapSets \subseteq SUBSET Taps
Nets == [taps : SUBSET Taps, members : SUBSET Taps, bridge : BOOLEAN, marker : BOOLEAN]
ASSUME HostsAssumption ==
  \A n \in Hosts :
    n \in Nets /\ n.members \subseteq n.taps /\ (n.members # {} => n.bridge)
ASSUME ResultsAssumption == Results \subseteq BOOLEAN

VARIABLES
  net,      \* the interfaces of the host
  found,    \* the interfaces that were there before
  launch,   \* what was launched
  proc,     \* the processes of each launch
  pid,      \* launches whose pid file is written
  wait,     \* trackDaemonizedLaunch: what it waits for
  children, \* runningProcesses
  tracked,  \* trackedProcessMetadata
  killed,   \* processes that were sent SIGTERM
  kit,      \* the kit is new, active, stopping or stopped
  stopping, \* what onStop has taken out of children and tracked
  alive,    \* the process of the kit runs
  refused,  \* history: a deletion failed, or the bridge could not be marked
  missed    \* history: launches no stop knows of

netVars == <<net, found, refused>>
procVars == <<proc, pid, killed>>
trackVars == <<wait, children, tracked>>
kitVars == <<kit, stopping, alive, missed>>
vars == <<netVars, launch, procVars, trackVars, kitVars>>

Kinds == {"none", "attached", "daemon"}
NoLaunch == [kind |-> "none", taps |-> {}, made |-> {}]
Pids == Launches \X {"child", "daemon"}
Child(v) == <<v, "child">>
Daemon(v) == <<v, "daemon">>
Nothing == [children |-> {}, pids |-> {}]

Init ==
  /\ net \in Hosts /\ found = net
  /\ launch = [v \in Launches |-> NoLaunch]
  /\ proc = [p \in Pids |-> "none"]
  /\ pid = {}
  /\ wait = [v \in Launches |-> "none"]
  /\ children = {} /\ tracked = {} /\ killed = {}
  /\ kit = "new" /\ stopping = Nothing
  /\ alive = TRUE
  /\ refused = FALSE /\ missed = {}

Running(p) == proc[p] = "running"

\* The process that is the virtual machine.
Machine(v) == IF launch[v].kind = "daemon" THEN Daemon(v) ELSE Child(v)

-----------------------------------------------------------------------------
(* The network.  Members are the taps attached to the bridge; the marker is *)
(* a file that says that the kit made the bridge.                           *)

\* ensureManagedTapNetworkingSync has made the taps D and attached A.
\* (BuiltWithoutTaps: it attaches taps nobody has made.)
BuiltWithoutTaps(n, D, A, marked) ==
  [taps |-> n.taps, members |-> n.members \union A, bridge |-> TRUE,
   marker |-> n.marker \/ (~n.bridge /\ marked)]
Built(n, D, A, marked) ==
  [taps |-> n.taps \union D, members |-> n.members \union A, bridge |-> TRUE,
   marker |-> n.marker \/ (~n.bridge /\ marked)]

\* cleanupManagedTapNetworkingSync for the taps D: then a bridge that the kit
\* has made goes if nothing is attached to it, and a marker without a bridge.
Cleaned(n, D, ok) ==
  LET taps == IF ok THEN n.taps \ D ELSE n.taps
      gone == n.marker /\ (ok \/ ~n.bridge) /\ n.members \intersect taps = {}
  IN [taps |-> taps, members |-> n.members \intersect taps,
      bridge |-> n.bridge /\ ~gone, marker |-> n.marker /\ ~gone]

Clean(n, D) == \E ok \in Results :
  /\ net' = Cleaned(n, D, ok)
  /\ refused' = (refused \/ net' # Cleaned(n, D, TRUE))

\* removeTrackingArtifacts for the launches S.
RemoveArtifacts(S) ==
  LET managed == {v \in S : launch[v].taps # {}} IN
  IF managed = {} THEN UNCHANGED <<net, refused>>
  ELSE Clean(net, UNION {launch[v].made : v \in managed})

\* The launches whose interfaces are in the metadata of these processes.
Owners(S) == {v \in Launches : Machine(v) \in S}

-----------------------------------------------------------------------------
(* launch. *)

\* Commands of the network fail after they have made some of the taps.
LaunchFails(T) ==
  /\ alive /\ kit # "new" /\ T # {}
  /\ \/ ~net.bridge /\ Clean(net, {})
     \/ \E D \in SUBSET (T \ net.taps) : \E A \in SUBSET (D \union (T \intersect net.taps)) :
          Clean(Built(net, D, A, TRUE), D)
  /\ UNCHANGED <<found, launch, procVars, trackVars, kitVars>>

\* The taps are there; the process cannot be spawned.
SpawnFails(T) ==
  /\ alive /\ kit # "new" /\ T # {}
  /\ Clean(Built(net, T \ net.taps, T, TRUE), T \ net.taps)
  /\ UNCHANGED <<found, launch, procVars, trackVars, kitVars>>

\* trackSpawnedProcess and, for a daemon, trackDaemonizedLaunch.
Launch(v, kind, T, marked) ==
  /\ alive /\ kit # "new" /\ launch[v] = NoLaunch
  /\ launch' = [launch EXCEPT ![v] = [kind |-> kind, taps |-> T, made |-> T \ net.taps]]
  /\ net' = IF T = {} THEN net ELSE Built(net, T \ net.taps, T, marked)
  /\ refused' = (refused \/ (~marked /\ ~net.bridge /\ T # {}))
  /\ proc' = [proc EXCEPT ![Child(v)] = "running"]
  /\ children' = children \union {v}
  /\ tracked' = tracked \union {Child(v)}
  /\ wait' = [wait EXCEPT ![v] = IF kind = "daemon" THEN "pidfile" ELSE "done"]
  /\ missed' = IF kit = "active" THEN missed ELSE missed \union {v}
  /\ UNCHANGED <<found, pid, killed, kit, stopping, alive>>

-----------------------------------------------------------------------------
(* The processes, as long as somebody looks. *)

Daemonize(v) ==
  /\ alive /\ launch[v].kind = "daemon" /\ Running(Child(v)) /\ proc[Daemon(v)] = "none"
  /\ proc' = [proc EXCEPT ![Daemon(v)] = "running"]
  /\ UNCHANGED <<netVars, launch, pid, killed, trackVars, kitVars>>

WritePid(v) ==
  /\ alive /\ Running(Daemon(v)) /\ v \notin pid
  /\ pid' = pid \union {v}
  /\ UNCHANGED <<netVars, launch, proc, killed, trackVars, kitVars>>

Exit(p) ==
  /\ alive /\ Running(p)
  /\ proc' = [proc EXCEPT ![p] = "gone"]
  /\ UNCHANGED <<netVars, launch, pid, killed, trackVars, kitVars>>

-----------------------------------------------------------------------------
(* What the kit does when something has ended. *)

\* untrackProcessId.  (UntrackLauncher: the entry of a launcher has artifacts,
\* too.)
UntrackLauncher(p) ==
  /\ tracked' = tracked \ {p}
  /\ RemoveArtifacts({q[1] : q \in {p} \intersect tracked})
Untrack(p) ==
  /\ tracked' = tracked \ {p}
  /\ RemoveArtifacts(Owners({p} \intersect tracked))

\* The handler of child.exited.
ChildGone(v) ==
  /\ alive /\ proc[Child(v)] = "gone"
  /\ v \in children \/ Child(v) \in tracked
  /\ children' = children \ {v}
  /\ Untrack(Child(v))
  /\ UNCHANGED <<found, launch, procVars, wait, kitVars>>

\* waitForPidFile finds the pid; from now on monitorTrackedProcessExit polls.
FindPid(v) ==
  /\ alive /\ wait[v] = "pidfile" /\ v \in pid
  /\ wait' = [wait EXCEPT ![v] = "done"]
  /\ tracked' = tracked \union {Daemon(v)}
  /\ UNCHANGED <<netVars, launch, procVars, children, kitVars>>

\* It gives up after five seconds, and waits for the launcher to exit.
Timeout(v) ==
  /\ alive /\ wait[v] = "pidfile"
  /\ wait' = [wait EXCEPT ![v] = "launcher"]
  /\ missed' = missed \union {v}
  /\ UNCHANGED <<netVars, launch, procVars, children, tracked, kit, stopping, alive>>

GiveUp(v) ==
  /\ alive /\ wait[v] = "launcher" /\ proc[Child(v)] = "gone"
  /\ wait' = [wait EXCEPT ![v] = "done"]
  /\ RemoveArtifacts({v})
  /\ UNCHANGED <<found, launch, procVars, children, tracked, kitVars>>

DaemonGone(v) ==
  /\ alive /\ proc[Daemon(v)] = "gone" /\ Daemon(v) \in tracked
  /\ Untrack(Daemon(v))
  /\ UNCHANGED <<found, launch, procVars, wait, children, kitVars>>

-----------------------------------------------------------------------------
(* The life of the kit. *)

\* SIGTERM reaches the processes that run.
Sent(S) == {p \in S : Running(p)}

\* attachKit gets a new kit each time, and gives it away when it has started.
Start ==
  /\ alive /\ kit = "new"
  /\ kit' = "active"
  /\ UNCHANGED <<netVars, launch, procVars, trackVars, stopping, alive, missed>>

\* onStop: the hooks are taken off, everything known is killed...
\* (StopWaits: nothing is.)
TakeOut ==
  /\ alive /\ kit = "active"
  /\ kit' = "stopping"
  /\ stopping' = [children |-> children, pids |-> tracked]
  /\ children' = {} /\ tracked' = {}
  /\ missed' = missed \union {v \in Launches : wait[v] = "pidfile"}
  /\ UNCHANGED <<netVars, launch, proc, pid, wait, alive>>
StopWaits == TakeOut /\ UNCHANGED killed
Stop ==
  TakeOut /\ killed' = killed \union Sent(tracked \union {Child(v) : v \in children})

\* ... and once the children have exited, the artifacts are removed.
Stopped ==
  /\ alive /\ kit = "stopping"
  /\ \A v \in stopping.children : ~Running(Child(v))
  /\ kit' = "stopped" /\ stopping' = Nothing
  /\ RemoveArtifacts(Owners(stopping.pids))
  /\ UNCHANGED <<found, launch, procVars, trackVars, alive, missed>>

\* A signal, or the end of the program: with the hooks of an active kit,
\* terminateTrackedProcessesSync.  (QuitChildren: only the children's.)
QuitChildren ==
  /\ alive /\ alive' = FALSE
  /\ IF kit = "active"
       THEN /\ killed' = killed \union Sent({Child(v) : v \in children})
            /\ RemoveArtifacts(Owners({Child(v) : v \in children}))
            /\ children' = {} /\ tracked' = {}
       ELSE UNCHANGED <<net, refused, killed, children, tracked>>
  /\ UNCHANGED <<found, launch, proc, pid, wait, kit, stopping, missed>>
Quit ==
  /\ alive /\ alive' = FALSE
  /\ IF kit = "active"
       THEN /\ killed' = killed \union Sent(tracked)
            /\ RemoveArtifacts(Owners(tracked))
            /\ children' = {} /\ tracked' = {}
       ELSE UNCHANGED <<net, refused, killed, children, tracked>>
  /\ UNCHANGED <<found, launch, proc, pid, wait, kit, stopping, missed>>

-----------------------------------------------------------------------------
Call(v) == \E kind \in {"attached", "daemon"}, T \in TapSets, marked \in Results :
             Launch(v, kind, T, marked)
FailedCall == \E T \in TapSets : LaunchFails(T) \/ SpawnFails(T)
Handle(v) == ChildGone(v) \/ FindPid(v) \/ GiveUp(v) \/ DaemonGone(v)
React == Stopped \/ \E v \in Launches : Handle(v) \/ Timeout(v)
Next ==
  \/ \E v \in Launches : Call(v) \/ Daemonize(v) \/ WritePid(v)
  \/ FailedCall
  \/ \E p \in Pids : Exit(p)
  \/ React \/ Start \/ Stop \/ Quit

\* The process handles what has happened, timers fire, and a process that was
\* sent SIGTERM exits.  A machine need never exit on its own.
Fairness == WF_vars(React) /\ WF_vars(\E p \in killed : Exit(p))
Spec == Init /\ [][Next]_vars /\ Fairness

-----------------------------------------------------------------------------
(* Properties. *)

\* Every variable keeps its type, members of the bridge are taps that exist.
TypeOK ==
  /\ net \in Nets /\ net.members \subseteq net.taps
  /\ found \in Nets
  /\ launch \in [Launches -> [kind : Kinds, taps : SUBSET Taps, made : SUBSET Taps]]
  /\ proc \in [Pids -> {"none", "running", "gone"}]
  /\ pid \subseteq Launches
  /\ wait \in [Launches -> {"none", "pidfile", "launcher", "done"}]
  /\ children \subseteq Launches /\ tracked \subseteq Pids /\ killed \subseteq Pids
  /\ kit \in {"new", "active", "stopping", "stopped"}
  /\ stopping \in [children : SUBSET Launches, pids : SUBSET Pids]
  /\ alive \in BOOLEAN /\ refused \in BOOLEAN /\ missed \subseteq Launches

\* Somebody will remove the interfaces made for launch v.
Owes(v) ==
  \/ Machine(v) \in tracked \union stopping.pids
  \/ wait[v] \in {"pidfile", "launcher"}

\* As long as commands to remove an interface work, a tap the kit has made has
\* exactly one launch that will remove it: none is left behind, whichever way a
\* launch or a machine ends, and none is removed twice.
TapsHaveAnOwner ==
  (alive /\ ~refused) =>
    \A t \in net.taps \ found.taps :
      \E v \in Launches :
        /\ t \in launch[v].made /\ Owes(v)
        /\ \A w \in Launches \ {v} : ~(t \in launch[w].made /\ Owes(w))

\* The taps and the bridge that were there before are never removed, unless the
\* marker says that a kit whose process has died made the bridge.
ForeignStays ==
  /\ found.taps \subseteq net.taps
  /\ found.bridge /\ ~found.marker => net.bridge /\ ~net.marker

\* The bridge the kit has made goes with its last member.
BridgeGoesWithTheLast ==
  (alive /\ ~refused /\ net.bridge /\ ~found.bridge) => net.marker /\ net.members # {}

\* A machine that runs and was not stopped keeps the taps that were made for it,
\* unless its pid file came too late to be seen.
TapsOutliveTheMachine ==
  \A v \in Launches :
    (Running(Machine(v)) /\ Machine(v) \notin killed
       /\ (launch[v].kind = "attached" \/ Owes(v)))
      => launch[v].made \subseteq net.taps

\* The interfaces the kit makes are removed once, with what they were made for, and
\* no others.
InterfacesAreOwned ==
  /\ TapsHaveAnOwner
  /\ ForeignStays
  /\ BridgeGoesWithTheLast
  /\ TapsOutliveTheMachine

\* A kit that was stopped has sent SIGTERM to every machine, but those whose pid
\* it did not know yet and those launched since.
StopReachesAll ==
  kit # "active" =>
    \A v \in Launches \ missed : Running(Machine(v)) => Machine(v) \in killed

\* When the process ends under an active kit, only launches whose pid file was
\* still awaited leave a tap behind.
ExitLeavesNoTap ==
  (~alive /\ kit = "active" /\ ~refused) =>
    \A t \in net.taps \ found.taps :
      \E v \in Launches : t \in launch[v].made /\ wait[v] \in {"pidfile", "launcher"}

\* The stop of the kit and the end of the process reach whatever the kit knows.
NothingIsLeft == StopReachesAll /\ ExitLeavesNoTap

\* A machine that has ended is forgotten and its interfaces are removed, however
\* it ended and whoever has to see it.
Ended(v) == proc[Child(v)] = "gone" /\ ~Running(Daemon(v))
EndedIsCleaned == []<>(alive => \A v \in Launches : ~(Ended(v) /\ Owes(v)))
=============================================================================
