---------------------------- MODULE QemuVmsProofs ----------------------------
(***************************************************************************)
(* Proofs about QemuVms, for any number of launches and taps, commands of  *)
(* any sets of taps, hosts with interfaces of their own and commands of    *)
(* the network that fail at any time.                                      *)
(***************************************************************************)
EXTENDS QemuVms, TLAPS

\* What the fields of a launch say of each other.
LaunchOK ==
  \A v \in Launches :
    /\ launch[v].made \subseteq launch[v].taps
    /\ launch[v].kind = "none" =>
         /\ launch[v] = NoLaunch
         /\ wait[v] = "none" /\ v \notin children /\ v \notin stopping.children
         /\ proc[Child(v)] = "none" /\ proc[Daemon(v)] = "none"
         /\ Child(v) \notin tracked \union stopping.pids
         /\ Daemon(v) \notin tracked \union stopping.pids
    /\ launch[v].kind = "attached" =>
         /\ wait[v] = "done" /\ proc[Daemon(v)] = "none"
         /\ Daemon(v) \notin tracked \union stopping.pids
    /\ launch[v].kind = "daemon" => wait[v] # "none"
    /\ wait[v] \in {"pidfile", "launcher"} =>
         launch[v].kind = "daemon" /\ Daemon(v) \notin tracked \union stopping.pids
    /\ kit = "new" => launch[v].kind = "none"

\* No process is in the hands of two.
HandsOK == tracked \intersect stopping.pids = {} /\ (kit # "stopping" => stopping = Nothing)

\* Taps that somebody will remove are there, made for one launch, and not found.
OwnedOK ==
  /\ \A v \in Launches : Owes(v) => launch[v].made \subseteq net.taps \ found.taps
  /\ \A v, w \in Launches :
       v # w /\ Owes(v) /\ Owes(w) => launch[v].made \intersect launch[w].made = {}

\* Taps nobody has refused to remove are owned.
AllOwned ==
  ~refused => \A t \in net.taps \ found.taps :
                alive => \E v \in Launches : t \in launch[v].made /\ Owes(v)

BridgeOK ==
  (~refused /\ net.bridge /\ ~found.bridge) => net.marker /\ net.members # {}

\* How a machine that runs is known to the kit.
KnownOK ==
  \A v \in Launches :
    /\ Running(Machine(v)) /\ launch[v].kind = "attached" /\ Machine(v) \notin killed
         => Machine(v) \in tracked
    /\ Running(Machine(v)) /\ v \notin missed =>
         IF kit = "active"
           THEN Machine(v) \in tracked \union killed \/ wait[v] = "pidfile"
           ELSE Machine(v) \in killed
    /\ Running(Child(v)) /\ launch[v].kind = "daemon" /\ proc[Daemon(v)] = "none"
         => wait[v] \in {"pidfile", "launcher"}
    /\ v \in pid => proc[Daemon(v)] # "none"
    /\ wait[v] = "launcher" => v \in missed
    /\ wait[v] = "pidfile" /\ kit # "active" => v \in missed

NetOK == OwnedOK /\ AllOwned /\ BridgeOK /\ ForeignStays
QemuInv == TypeOK /\ LaunchOK /\ HandsOK /\ NetOK /\ KnownOK /\ ExitLeavesNoTap

-----------------------------------------------------------------------------
(* The network. *)

LEMMA PidFacts ==
  /\ \A v \in Launches : Child(v) \in Pids /\ Daemon(v) \in Pids
  /\ \A v, w : Child(v) # Daemon(w)
  /\ \A v, w : Child(v) = Child(w) => v = w
  /\ \A v, w : Daemon(v) = Daemon(w) => v = w
BY DEF Child, Daemon, Pids

\* What is attached is there and what the host had is kept.
Sound(n) ==
  /\ n \in Nets /\ n.members \subseteq n.taps
  /\ found.taps \subseteq n.taps
  /\ found.bridge /\ ~found.marker => n.bridge /\ ~n.marker

LEMMA CleanFacts ==
  ASSUME NEW n, Sound(n), NEW D, D \intersect found.taps = {}, refused \in BOOLEAN,
         Clean(n, D), found \in Nets
  PROVE  /\ Sound(net') /\ refused' \in BOOLEAN
         /\ n.taps \ D \subseteq net'.taps /\ net'.taps \subseteq n.taps
         /\ ~refused' => ~refused /\ net'.taps = n.taps \ D
         /\ net'.bridge => n.bridge /\ net'.marker = n.marker
         /\ ~refused' /\ net'.marker => net'.members # {}
<1>1. PICK ok \in Results :
        net' = Cleaned(n, D, ok) /\ refused' = (refused \/ net' # Cleaned(n, D, TRUE))
  BY DEF Clean
<1>2. ok \in BOOLEAN
  BY ResultsAssumption
<1>3. ASSUME NEW b \in BOOLEAN
      PROVE  LET m == Cleaned(n, D, b) IN
             /\ Sound(m)
             /\ n.taps \ D \subseteq m.taps /\ m.taps \subseteq n.taps
             /\ m.bridge => n.bridge /\ m.marker = n.marker
             /\ b => m.taps = n.taps \ D /\ (m.marker => m.members # {})
  BY <1>3 DEF Cleaned, Sound, Nets
<1>4. Sound(net') /\ n.taps \ D \subseteq net'.taps /\ net'.taps \subseteq n.taps
      /\ (net'.bridge => n.bridge /\ net'.marker = n.marker)
  BY <1>1, <1>2, <1>3
<1>5. refused' \in BOOLEAN
  BY <1>1
<1>6. ~refused' => ~refused /\ net' = Cleaned(n, D, TRUE)
  BY <1>1
<1> QED BY <1>3, <1>4, <1>5, <1>6

LEMMA RemoveFacts ==
  ASSUME TypeOK, LaunchOK, NetOK, NEW S \in SUBSET Launches, RemoveArtifacts(S),
         \A v \in S : Owes(v), UNCHANGED found
  PROVE  /\ Sound(net') /\ refused' \in BOOLEAN
         /\ net'.taps \subseteq net.taps
         /\ \A t \in net.taps : (\A v \in S : t \notin launch[v].made) => t \in net'.taps
         /\ ~refused' => ~refused /\ \A t \in net'.taps : \A v \in S : t \notin launch[v].made
         /\ BridgeOK'
<1> DEFINE managed == {v \in S : launch[v].taps # {}}
           D == UNION {launch[v].made : v \in managed}
<1>1. Sound(net) /\ found \in Nets /\ refused \in BOOLEAN
  BY DEF TypeOK, NetOK, ForeignStays, BridgeOK, Sound
<1>2. \A v \in S : launch[v].made \subseteq launch[v].taps
  BY DEF LaunchOK
<1>3. \A v \in S : v \notin managed => launch[v].made = {}
  BY <1>2
<1>4. \A t : t \in D <=> \E v \in S : t \in launch[v].made
  BY <1>3
<1>5. CASE managed = {}
  <2>1. UNCHANGED <<net, refused>>
    BY <1>5 DEF RemoveArtifacts
  <2>2. \A t : \A v \in S : t \notin launch[v].made
    BY <1>5, <1>3
  <2> QED BY <1>1, <2>1, <2>2 DEF Sound, BridgeOK, NetOK
<1>6. CASE managed # {}
  <2>1. Clean(net, D)
    BY <1>6 DEF RemoveArtifacts
  <2>2. D \intersect found.taps = {}
    BY <1>4 DEF NetOK, OwnedOK
  <2> HIDE DEF D, managed
  <2>3. /\ Sound(net') /\ refused' \in BOOLEAN
        /\ net.taps \ D \subseteq net'.taps /\ net'.taps \subseteq net.taps
        /\ ~refused' => ~refused /\ net'.taps = net.taps \ D
        /\ net'.bridge => net.bridge /\ net'.marker = net.marker
        /\ ~refused' /\ net'.marker => net'.members # {}
    BY <1>1, <2>1, <2>2, CleanFacts
  <2>4. BridgeOK'
    BY <1>1, <2>3 DEF BridgeOK, NetOK, Sound
  <2> QED BY <1>4, <2>3, <2>4
<1> QED BY <1>5, <1>6

-----------------------------------------------------------------------------
(* Steps that remove interfaces, and steps that leave them alone. *)

LEMMA RemoveKeepsNet ==
  ASSUME QemuInv, NEW S \in SUBSET Launches, RemoveArtifacts(S),
         \A v \in S : Owes(v), \A v \in S : ~Owes(v)',
         \A v \in Launches \ S : Owes(v)' = Owes(v),
         UNCHANGED <<found, launch>>, alive' => alive
  PROVE  /\ NetOK' /\ net' \in Nets /\ net'.members \subseteq net'.taps
         /\ refused' \in BOOLEAN
         /\ ~refused' => ~refused /\ net'.taps \subseteq net.taps
                          /\ \A t \in net'.taps : \A v \in S : t \notin launch[v].made
<1>1. /\ Sound(net') /\ refused' \in BOOLEAN
      /\ net'.taps \subseteq net.taps
      /\ \A t \in net.taps : (\A v \in S : t \notin launch[v].made) => t \in net'.taps
      /\ ~refused' => ~refused /\ \A t \in net'.taps : \A v \in S : t \notin launch[v].made
      /\ BridgeOK'
  BY RemoveFacts DEF QemuInv
<1>2. OwnedOK'
  <2>1. \A v \in Launches : Owes(v)' => v \notin S /\ Owes(v)
    OBVIOUS
  <2>2. \A v \in Launches : Owes(v)' => launch[v].made \subseteq net'.taps \ found.taps
    BY <1>1, <2>1 DEF QemuInv, NetOK, OwnedOK
  <2> QED BY <2>1, <2>2 DEF QemuInv, NetOK, OwnedOK
<1>3. AllOwned'
  <2> SUFFICES ASSUME ~refused', alive', NEW t \in net'.taps \ found.taps
               PROVE  \E v \in Launches : t \in launch[v].made /\ Owes(v)'
    BY DEF AllOwned
  <2>1. PICK v \in Launches : t \in launch[v].made /\ Owes(v)
    BY <1>1 DEF QemuInv, NetOK, AllOwned
  <2>2. v \notin S
    BY <1>1, <2>1
  <2> QED BY <2>1, <2>2
<1> QED BY <1>1, <1>2, <1>3 DEF NetOK, ForeignStays, Sound

LEMMA SameNet ==
  ASSUME QemuInv, UNCHANGED <<net, found, refused, launch>>, alive' => alive,
         \A v \in Launches : Owes(v)' = Owes(v)
  PROVE  NetOK'
BY DEF QemuInv, NetOK, OwnedOK, AllOwned, BridgeOK, ForeignStays

LEMMA StillOpen ==
  ASSUME alive'
  PROVE  ExitLeavesNoTap'
BY DEF ExitLeavesNoTap

-----------------------------------------------------------------------------
(* launch. *)

\* A command that fails leaves no interface it has made.
LEMMA FailedCallKeeps ==
  ASSUME QemuInv, NEW T \in TapSets, LaunchFails(T) \/ SpawnFails(T)
  PROVE  QemuInv'
<1>1. Sound(net) /\ found \in Nets /\ refused \in BOOLEAN /\ T \subseteq Taps
  BY TapSetsAssumption DEF QemuInv, TypeOK, NetOK, ForeignStays, BridgeOK, Sound
<1>2. UNCHANGED <<found, launch, procVars, trackVars, kitVars>> /\ alive /\ T # {}
  BY DEF LaunchFails, SpawnFails
<1>3. PICK D, A \in SUBSET Taps :
        /\ D \subseteq T \ net.taps /\ A \subseteq net.taps \union D
        /\ Clean(Built(net, D, A, TRUE), D) \/ (~net.bridge /\ D = {} /\ Clean(net, D))
  <2>1. CASE SpawnFails(T)
    <3>1. Clean(Built(net, T \ net.taps, T, TRUE), T \ net.taps)
      BY <2>1 DEF SpawnFails
    <3> QED BY <1>1, <3>1
  <2>2. CASE LaunchFails(T) /\ ~net.bridge /\ Clean(net, {})
    <3>1. {} \in SUBSET Taps /\ {} \subseteq T \ net.taps /\ {} \subseteq net.taps \union {}
      OBVIOUS
    <3> QED BY <2>2, <3>1
  <2>3. CASE LaunchFails(T) /\ \E D \in SUBSET (T \ net.taps) :
               \E A \in SUBSET (D \union (T \intersect net.taps)) :
                 Clean(Built(net, D, A, TRUE), D)
    BY <1>1, <2>3
  <2> QED BY <2>1, <2>2, <2>3 DEF LaunchFails
<1>4. D \intersect found.taps = {}
  BY <1>1, <1>3 DEF Sound
<1>5. /\ Sound(net') /\ refused' \in BOOLEAN /\ net.taps \subseteq net'.taps
      /\ ~refused' => ~refused /\ net'.taps = net.taps
      /\ ~refused' => (net'.marker => net'.members # {})
      /\ net'.bridge /\ ~net.bridge => net'.marker
      /\ net'.bridge /\ net.bridge => net'.marker = net.marker
  <2>1. CASE Clean(Built(net, D, A, TRUE), D)
    <3>0. PICK n : n = Built(net, D, A, TRUE) /\ Clean(n, D)
      BY <2>1
    <3>1. /\ Sound(n) /\ n.taps = net.taps \union D
          /\ (net.bridge => n.marker = net.marker) /\ (~net.bridge => n.marker)
      BY <1>1, <1>3, <3>0 DEF Built, Sound, Nets
    <3>2. Sound(n) /\ Clean(n, D) /\ D \intersect found.taps = {} /\ found \in Nets
          /\ refused \in BOOLEAN
      BY <1>1, <1>4, <3>0, <3>1
    <3>3. /\ Sound(net') /\ refused' \in BOOLEAN
          /\ n.taps \ D \subseteq net'.taps
          /\ ~refused' => ~refused /\ net'.taps = n.taps \ D
          /\ net'.bridge => n.bridge /\ net'.marker = n.marker
          /\ ~refused' /\ net'.marker => net'.members # {}
      BY <3>2, CleanFacts
    <3> QED BY <1>3, <3>1, <3>3
  <2>2. CASE ~net.bridge /\ D = {} /\ Clean(net, D)
    BY <1>1, <1>4, <2>2, CleanFacts
  <2> QED BY <1>3, <2>1, <2>2
<1>6. \A v \in Launches : Owes(v)' = Owes(v)
  BY <1>2 DEF Owes, Machine, trackVars, kitVars
<1>7. BridgeOK'
  BY <1>2, <1>5 DEF BridgeOK, Sound, QemuInv, NetOK
<1>8. OwnedOK' /\ AllOwned'
  BY <1>2, <1>5, <1>6 DEF QemuInv, NetOK, OwnedOK, AllOwned, kitVars
<1>9. NetOK'
  BY <1>2, <1>5, <1>7, <1>8 DEF NetOK, ForeignStays, Sound
<1>10. TypeOK'
  BY <1>2, <1>5 DEF QemuInv, TypeOK, Sound, procVars, trackVars, kitVars
<1>11. LaunchOK' /\ HandsOK' /\ KnownOK'
  BY <1>2 DEF QemuInv, LaunchOK, HandsOK, KnownOK, Running, Machine, procVars, trackVars,
              kitVars
<1>12. alive'
  BY <1>2 DEF kitVars
<1> QED BY <1>9, <1>10, <1>11, <1>12, StillOpen DEF QemuInv

\* A launch makes only taps that are not there, so that they are its own.
LEMMA LaunchKeeps ==
  ASSUME QemuInv, NEW v \in Launches, NEW kind \in {"attached", "daemon"},
         NEW T \in TapSets, NEW marked \in Results, Launch(v, kind, T, marked)
  PROVE  QemuInv'
<1> DEFINE made == T \ net.taps
<1>1. Sound(net) /\ found \in Nets /\ refused \in BOOLEAN /\ T \subseteq Taps
      /\ marked \in BOOLEAN
  BY TapSetsAssumption, ResultsAssumption
     DEF QemuInv, TypeOK, NetOK, ForeignStays, BridgeOK, Sound
<1>2. /\ alive /\ kit # "new" /\ launch[v] = NoLaunch
      /\ launch' = [launch EXCEPT ![v] = [kind |-> kind, taps |-> T, made |-> made]]
      /\ proc' = [proc EXCEPT ![Child(v)] = "running"]
      /\ children' = children \union {v}
      /\ tracked' = tracked \union {Child(v)}
      /\ wait' = [wait EXCEPT ![v] = IF kind = "daemon" THEN "pidfile" ELSE "done"]
      /\ missed' = IF kit = "active" THEN missed ELSE missed \union {v}
      /\ UNCHANGED <<found, pid, killed, kit, stopping, alive>>
  BY DEF Launch
<1>3. /\ net' = IF T = {} THEN net ELSE Built(net, made, T, marked)
      /\ refused' = (refused \/ (~marked /\ ~net.bridge /\ T # {}))
  BY DEF Launch
<1>4. /\ Sound(net') /\ net'.taps = net.taps \union made
      /\ net.members \subseteq net'.members
      /\ T # {} => net'.members # {} /\ net'.bridge
      /\ T = {} => net' = net
      /\ net.bridge => net'.marker = net.marker
      /\ ~net.bridge /\ T # {} /\ marked => net'.marker
  <2>1. CASE T = {}
    BY <1>1, <1>3, <2>1
  <2>2. CASE T # {}
    <3>1. T \subseteq net.taps \union made /\ made \in SUBSET Taps
      BY <1>1
    <3>2. net' = Built(net, made, T, marked)
      BY <1>3, <2>2
    <3> HIDE DEF made
    <3>3. /\ Sound(net') /\ net'.taps = net.taps \union made /\ net'.bridge
          /\ net'.members = net.members \union T
          /\ (net.bridge => net'.marker = net.marker)
          /\ (~net.bridge /\ marked => net'.marker)
      BY <1>1, <3>1, <3>2 DEF Built, Sound, Nets
    <3> QED BY <2>2, <3>3
  <2> QED BY <2>1, <2>2
<1> HIDE DEF made
<1>5. /\ launch'[v] = [kind |-> kind, taps |-> T, made |-> made]
      /\ wait'[v] = IF kind = "daemon" THEN "pidfile" ELSE "done"
      /\ \A w \in Launches \ {v} : launch'[w] = launch[w] /\ wait'[w] = wait[w]
      /\ \A p \in Pids : p # Child(v) => proc'[p] = proc[p]
      /\ proc'[Child(v)] = "running"
      /\ launch[v].kind = "none"
  BY <1>2, PidFacts DEF QemuInv, TypeOK, NoLaunch
<1>6. /\ ~Owes(v) /\ Owes(v)'
      /\ \A w \in Launches \ {v} : Owes(w)' = Owes(w) /\ Machine(w)' = Machine(w)
      /\ Machine(v)' = IF kind = "daemon" THEN Daemon(v) ELSE Child(v)
  BY <1>2, <1>5, PidFacts DEF QemuInv, LaunchOK, Owes, Machine
<1>7. OwnedOK'
  <2>1. made \intersect net.taps = {} /\ made \intersect found.taps = {}
    BY <1>1 DEF made, Sound
  <2> QED BY <1>2, <1>4, <1>5, <1>6, <2>1 DEF QemuInv, NetOK, OwnedOK
<1>8. AllOwned'
  <2> SUFFICES ASSUME ~refused', alive', NEW t \in net'.taps \ found'.taps
               PROVE  \E w \in Launches : t \in launch'[w].made /\ Owes(w)'
    BY DEF AllOwned
  <2>1. CASE t \in made
    BY <1>5, <1>6, <2>1
  <2>2. CASE t \in net.taps
    <3>1. PICK w \in Launches : t \in launch[w].made /\ Owes(w)
      BY <1>2, <1>3, <2>2 DEF QemuInv, NetOK, AllOwned
    <3> QED BY <1>5, <1>6, <3>1
  <2> QED BY <1>4, <2>1, <2>2
<1>9. BridgeOK'
  BY <1>1, <1>2, <1>3, <1>4 DEF QemuInv, NetOK, BridgeOK, Sound
<1>10. NetOK'
  BY <1>2, <1>4, <1>7, <1>8, <1>9 DEF NetOK, ForeignStays, Sound
<1>11. TypeOK'
  <2>1. launch' \in [Launches -> [kind : Kinds, taps : SUBSET Taps, made : SUBSET Taps]]
    BY <1>1, <1>2 DEF QemuInv, TypeOK, Kinds, made
  <2>2. proc' \in [Pids -> {"none", "running", "gone"}]
    BY <1>2, PidFacts DEF QemuInv, TypeOK
  <2>3. refused' \in BOOLEAN
    BY <1>1, <1>3
  <2> QED BY <1>1, <1>2, <1>4, <2>1, <2>2, <2>3, PidFacts DEF QemuInv, TypeOK, Sound
<1>12. LaunchOK'
  <2>1. made \subseteq T
    BY DEF made
  <2> QED BY <1>2, <1>5, <2>1, PidFacts DEF QemuInv, LaunchOK
<1>13. HandsOK'
  BY <1>2, <1>5 DEF QemuInv, HandsOK, LaunchOK
<1>14. KnownOK'
  <2>1. /\ proc'[Daemon(v)] = "none" /\ v \notin pid
    BY <1>5, PidFacts DEF QemuInv, LaunchOK, KnownOK
  <2>2. \A w \in Launches \ {v} : Child(w) # Child(v) /\ Daemon(w) # Child(v)
                                /\ Machine(w) # Child(v) /\ Machine(w) \in Pids
    BY PidFacts DEF Machine
  <2> QED BY <1>2, <1>5, <1>6, <2>1, <2>2, PidFacts DEF QemuInv, KnownOK, Running
<1> QED BY <1>2, <1>10, <1>11, <1>12, <1>13, <1>14, StillOpen DEF QemuInv

-----------------------------------------------------------------------------
(* Steps of the processes, of the wait for a pid file and of the kit that    *)
(* leave the interfaces alone: whoever owed their removal still does.        *)

LEMMA DaemonizeKeeps ==
  ASSUME QemuInv, NEW v \in Launches, Daemonize(v)
  PROVE  QemuInv'
<1>1. /\ launch[v].kind = "daemon" /\ Running(Child(v)) /\ proc[Daemon(v)] = "none"
      /\ proc' = [proc EXCEPT ![Daemon(v)] = "running"]
      /\ alive /\ UNCHANGED <<net, found, refused, launch, pid, killed, wait, children,
                              tracked, kit, stopping, alive, missed>>
  BY DEF Daemonize, netVars, trackVars, kitVars
<1>2. /\ \A p \in Pids : p # Daemon(v) => proc'[p] = proc[p]
      /\ proc'[Daemon(v)] = "running"
      /\ proc' \in [Pids -> {"none", "running", "gone"}]
  BY <1>1, PidFacts DEF QemuInv, TypeOK
<1>3. \A w \in Launches : Machine(w)' = Machine(w) /\ Owes(w)' = Owes(w)
  BY <1>1 DEF Machine, Owes
<1>4. NetOK'
  BY <1>1, <1>3, SameNet
<1>5. TypeOK' /\ HandsOK'
  BY <1>1, <1>2 DEF QemuInv, TypeOK, HandsOK
<1>6. LaunchOK'
  BY <1>1, <1>2, PidFacts DEF QemuInv, LaunchOK
<1>7. KnownOK'
  <2>1. wait[v] \in {"pidfile", "launcher"}
    BY <1>1 DEF QemuInv, KnownOK
  <2>2. v \notin missed => wait[v] = "pidfile" /\ kit = "active"
    BY <2>1 DEF QemuInv, KnownOK
  <2>3. Machine(v) = Daemon(v)
    BY <1>1 DEF Machine
  <2>4. \A w \in Launches : w # v =>
          Child(w) # Daemon(v) /\ Daemon(w) # Daemon(v) /\ Machine(w) # Daemon(v)
          /\ Machine(w) \in Pids
    BY PidFacts DEF Machine
  <2> QED BY <1>1, <1>2, <1>3, <2>1, <2>2, <2>3, <2>4, PidFacts
          DEF QemuInv, KnownOK, Running
<1> QED BY <1>1, <1>4, <1>5, <1>6, <1>7, StillOpen DEF QemuInv

LEMMA WritePidKeeps ==
  ASSUME QemuInv, NEW v \in Launches, WritePid(v)
  PROVE  QemuInv'
<1>1. /\ Running(Daemon(v)) /\ pid' = pid \union {v}
      /\ alive /\ UNCHANGED <<net, found, refused, launch, proc, killed, wait, children,
                              tracked, kit, stopping, alive, missed>>
  BY DEF WritePid, netVars, trackVars, kitVars
<1>2. \A w \in Launches : Machine(w)' = Machine(w) /\ Owes(w)' = Owes(w)
  BY <1>1 DEF Machine, Owes
<1>3. NetOK'
  BY <1>1, <1>2, SameNet
<1>4. TypeOK' /\ HandsOK' /\ LaunchOK'
  BY <1>1 DEF QemuInv, TypeOK, HandsOK, LaunchOK
<1>5. KnownOK'
  BY <1>1, <1>2 DEF QemuInv, KnownOK, Running
<1> QED BY <1>1, <1>3, <1>4, <1>5, StillOpen DEF QemuInv

LEMMA ExitKeeps ==
  ASSUME QemuInv, NEW p \in Pids, Exit(p)
  PROVE  QemuInv'
<1>1. /\ Running(p) /\ proc' = [proc EXCEPT ![p] = "gone"]
      /\ alive /\ UNCHANGED <<net, found, refused, launch, pid, killed, wait, children,
                              tracked, kit, stopping, alive, missed>>
  BY DEF Exit, netVars, trackVars, kitVars
<1>2. /\ \A q \in Pids : q # p => proc'[q] = proc[q]
      /\ proc[p] = "running" /\ proc'[p] = "gone"
      /\ proc' \in [Pids -> {"none", "running", "gone"}]
  BY <1>1 DEF QemuInv, TypeOK, Running
<1>3. \A w \in Launches : Machine(w)' = Machine(w) /\ Owes(w)' = Owes(w)
                          /\ Machine(w) \in Pids
  BY <1>1, PidFacts DEF Machine, Owes
<1>4. NetOK'
  BY <1>1, <1>3, SameNet
<1>5. TypeOK' /\ HandsOK'
  BY <1>1, <1>2 DEF QemuInv, TypeOK, HandsOK
<1>6. LaunchOK'
  BY <1>1, <1>2, PidFacts DEF QemuInv, LaunchOK
<1>7. KnownOK'
  BY <1>1, <1>2, <1>3, PidFacts DEF QemuInv, KnownOK, Running
<1> QED BY <1>1, <1>4, <1>5, <1>6, <1>7, StillOpen DEF QemuInv

LEMMA FindPidKeeps ==
  ASSUME QemuInv, NEW v \in Launches, FindPid(v)
  PROVE  QemuInv'
<1>1. /\ wait[v] = "pidfile" /\ v \in pid
      /\ wait' = [wait EXCEPT ![v] = "done"] /\ tracked' = tracked \union {Daemon(v)}
      /\ alive /\ UNCHANGED <<net, found, refused, launch, proc, pid, killed, children,
                              kit, stopping, alive, missed>>
  BY DEF FindPid, netVars, procVars, kitVars
<1>2. /\ \A w \in Launches : w # v => wait'[w] = wait[w]
      /\ wait'[v] = "done"
      /\ wait' \in [Launches -> {"none", "pidfile", "launcher", "done"}]
  BY <1>1 DEF QemuInv, TypeOK
<1>3. launch[v].kind = "daemon" /\ Daemon(v) \notin stopping.pids
  BY <1>1 DEF QemuInv, LaunchOK
<1>4. Machine(v) = Daemon(v)
  BY <1>3 DEF Machine
<1>5. \A w \in Launches : Machine(w)' = Machine(w) /\ (w # v => Machine(w) # Daemon(v))
  BY <1>1, PidFacts DEF Machine
<1>6. \A w \in Launches : Owes(w)' = Owes(w)
  BY <1>1, <1>2, <1>4, <1>5 DEF Owes
<1>7. NetOK'
  BY <1>1, <1>6, SameNet
<1>8. TypeOK'
  BY <1>1, <1>2, PidFacts DEF QemuInv, TypeOK
<1>9. HandsOK'
  BY <1>1, <1>3 DEF QemuInv, HandsOK
<1>10. LaunchOK'
  BY <1>1, <1>2, <1>3, PidFacts DEF QemuInv, LaunchOK
<1>11. KnownOK'
  BY <1>1, <1>2, <1>3, <1>4, <1>5 DEF QemuInv, KnownOK, Running
<1> QED BY <1>1, <1>7, <1>8, <1>9, <1>10, <1>11, StillOpen DEF QemuInv

LEMMA TimeoutKeeps ==
  ASSUME QemuInv, NEW v \in Launches, Timeout(v)
  PROVE  QemuInv'
<1>1. /\ wait[v] = "pidfile" /\ wait' = [wait EXCEPT ![v] = "launcher"]
      /\ missed' = missed \union {v}
      /\ alive /\ UNCHANGED <<net, found, refused, launch, proc, pid, killed, children,
                              tracked, kit, stopping, alive>>
  BY DEF Timeout, netVars, procVars
<1>2. /\ \A w \in Launches : w # v => wait'[w] = wait[w]
      /\ wait'[v] = "launcher"
      /\ wait' \in [Launches -> {"none", "pidfile", "launcher", "done"}]
  BY <1>1 DEF QemuInv, TypeOK
<1>3. \A w \in Launches : Machine(w)' = Machine(w) /\ Owes(w)' = Owes(w)
  BY <1>1, <1>2 DEF Machine, Owes
<1>4. NetOK'
  BY <1>1, <1>3, SameNet
<1>5. TypeOK' /\ HandsOK'
  BY <1>1, <1>2 DEF QemuInv, TypeOK, HandsOK
<1>6. LaunchOK'
  BY <1>1, <1>2 DEF QemuInv, LaunchOK
<1>7. KnownOK'
  BY <1>1, <1>2, <1>3 DEF QemuInv, KnownOK, Running
<1> QED BY <1>1, <1>4, <1>5, <1>6, <1>7, StillOpen DEF QemuInv

LEMMA StartKeeps ==
  ASSUME QemuInv, Start
  PROVE  QemuInv'
<1>1. /\ kit = "new" /\ kit' = "active"
      /\ alive /\ UNCHANGED <<net, found, refused, launch, proc, pid, killed, wait,
                              children, tracked, stopping, alive, missed>>
  BY DEF Start, netVars, procVars, trackVars
<1>2. \A w \in Launches : Machine(w)' = Machine(w) /\ Owes(w)' = Owes(w)
  BY <1>1 DEF Machine, Owes
<1>3. NetOK'
  BY <1>1, <1>2, SameNet
<1>4. TypeOK' /\ HandsOK'
  BY <1>1 DEF QemuInv, TypeOK, HandsOK
<1>5. \A w \in Launches : launch[w].kind = "none"
  BY <1>1 DEF QemuInv, LaunchOK
<1>6. LaunchOK'
  BY <1>1 DEF QemuInv, LaunchOK
<1>7. \A w \in Launches : ~Running(Machine(w)) /\ wait[w] = "none"
  BY <1>5 DEF QemuInv, LaunchOK, Machine, Running
<1>8. KnownOK'
  BY <1>1, <1>2, <1>5, <1>7 DEF QemuInv, KnownOK, Running
<1> QED BY <1>1, <1>3, <1>4, <1>6, <1>8, StillOpen DEF QemuInv

LEMMA StopKeeps ==
  ASSUME QemuInv, Stop
  PROVE  QemuInv'
<1>1. /\ kit = "active" /\ kit' = "stopping"
      /\ stopping' = [children |-> children, pids |-> tracked]
      /\ children' = {} /\ tracked' = {}
      /\ missed' = missed \union {v \in Launches : wait[v] = "pidfile"}
      /\ killed' = killed \union Sent(tracked \union {Child(v) : v \in children})
      /\ alive /\ UNCHANGED <<net, found, refused, launch, proc, pid, wait, alive>>
  BY DEF Stop, TakeOut, netVars
<1>2. stopping = Nothing
  BY <1>1 DEF QemuInv, HandsOK
<1>3. \A w \in Launches : Machine(w)' = Machine(w) /\ Owes(w)' = Owes(w)
  BY <1>1, <1>2 DEF Machine, Owes, Nothing
<1>4. NetOK'
  BY <1>1, <1>3, SameNet
<1>5. TypeOK'
  BY <1>1, PidFacts DEF QemuInv, TypeOK, Sent
<1>6. HandsOK'
  BY <1>1 DEF HandsOK
<1>7. LaunchOK'
  BY <1>1, <1>2 DEF QemuInv, LaunchOK, Nothing
<1>8. KnownOK'
  <2>1. \A p \in tracked : Running(p) => p \in killed'
    BY <1>1 DEF Sent
  <2>2. killed \subseteq killed'
    BY <1>1
  <2> QED BY <1>1, <1>3, <2>1, <2>2 DEF QemuInv, KnownOK, Running
<1> QED BY <1>1, <1>4, <1>5, <1>6, <1>7, <1>8, StillOpen DEF QemuInv

-----------------------------------------------------------------------------
(* Steps that see something end: the interfaces go with whoever owed them.   *)

LEMMA EndedKeeps ==
  ASSUME QemuInv, NEW p \in Pids, proc[p] = "gone", Untrack(p), alive,
         children' \subseteq children,
         UNCHANGED <<found, launch, proc, pid, killed, wait, kit, stopping, alive, missed>>
  PROVE  QemuInv'
<1> DEFINE S == Owners({p} \intersect tracked)
<1>1. tracked' = tracked \ {p} /\ RemoveArtifacts(S)
  BY DEF Untrack
<1>2. S \in SUBSET Launches /\ \A v \in Launches : v \in S <=> Machine(v) = p /\ p \in tracked
  BY DEF Owners
<1> HIDE DEF S
<1>3. \A v \in Launches : Machine(v)' = Machine(v)
  BY DEF Machine
<1>4. \A v \in S : Owes(v)
  BY <1>2 DEF Owes
<1>5. \A v \in S : ~Owes(v)'
  <2> SUFFICES ASSUME NEW v \in S PROVE ~Owes(v)'
    OBVIOUS
  <2>1. v \in Launches /\ Machine(v) = p /\ p \in tracked
    BY <1>2
  <2>2. p \notin stopping.pids
    BY <2>1 DEF QemuInv, HandsOK
  <2>3. wait[v] \notin {"pidfile", "launcher"}
    BY <2>1 DEF QemuInv, LaunchOK, Machine
  <2> QED BY <1>1, <1>3, <2>1, <2>2, <2>3 DEF Owes
<1>6. \A v \in Launches \ S : Owes(v)' = Owes(v)
  BY <1>1, <1>2, <1>3 DEF Owes
<1>7. NetOK' /\ net' \in Nets /\ net'.members \subseteq net'.taps /\ refused' \in BOOLEAN
  BY <1>1, <1>2, <1>4, <1>5, <1>6, RemoveKeepsNet
<1>8. TypeOK' /\ HandsOK'
  BY <1>1, <1>7 DEF QemuInv, TypeOK, HandsOK
<1>9. LaunchOK'
  BY <1>1 DEF QemuInv, LaunchOK
<1>10. KnownOK'
  BY <1>1, <1>3 DEF QemuInv, KnownOK, Running
<1> QED BY <1>7, <1>8, <1>9, <1>10, StillOpen DEF QemuInv

LEMMA ChildGoneKeeps ==
  ASSUME QemuInv, NEW v \in Launches, ChildGone(v)
  PROVE  QemuInv'
<1>1. /\ alive /\ proc[Child(v)] = "gone" /\ Untrack(Child(v))
      /\ children' \subseteq children
      /\ UNCHANGED <<found, launch, proc, pid, killed, wait, kit, stopping, alive, missed>>
  BY DEF ChildGone, procVars, kitVars
<1> QED BY <1>1, PidFacts, EndedKeeps

LEMMA DaemonGoneKeeps ==
  ASSUME QemuInv, NEW v \in Launches, DaemonGone(v)
  PROVE  QemuInv'
<1>1. /\ alive /\ proc[Daemon(v)] = "gone" /\ Untrack(Daemon(v))
      /\ children' \subseteq children
      /\ UNCHANGED <<found, launch, proc, pid, killed, wait, kit, stopping, alive, missed>>
  BY DEF DaemonGone, procVars, kitVars
<1> QED BY <1>1, PidFacts, EndedKeeps

LEMMA GiveUpKeeps ==
  ASSUME QemuInv, NEW v \in Launches, GiveUp(v)
  PROVE  QemuInv'
<1>1. /\ wait[v] = "launcher" /\ proc[Child(v)] = "gone"
      /\ wait' = [wait EXCEPT ![v] = "done"] /\ RemoveArtifacts({v})
      /\ alive /\ UNCHANGED <<found, launch, proc, pid, killed, children, tracked, kit,
                              stopping, alive, missed>>
  BY DEF GiveUp, procVars, kitVars
<1>2. /\ \A w \in Launches : w # v => wait'[w] = wait[w]
      /\ wait'[v] = "done"
      /\ wait' \in [Launches -> {"none", "pidfile", "launcher", "done"}]
  BY <1>1 DEF QemuInv, TypeOK
<1>3. launch[v].kind = "daemon" /\ Daemon(v) \notin tracked \union stopping.pids
  BY <1>1 DEF QemuInv, LaunchOK
<1>4. \A w \in Launches : Machine(w)' = Machine(w)
  BY <1>1 DEF Machine
<1>5. Owes(v) /\ ~Owes(v)' /\ \A w \in Launches \ {v} : Owes(w)' = Owes(w)
  BY <1>1, <1>2, <1>3, <1>4 DEF Owes, Machine
<1>6. NetOK' /\ net' \in Nets /\ net'.members \subseteq net'.taps /\ refused' \in BOOLEAN
  BY <1>1, <1>5, RemoveKeepsNet
<1>7. TypeOK' /\ HandsOK'
  BY <1>1, <1>2, <1>6 DEF QemuInv, TypeOK, HandsOK
<1>8. LaunchOK'
  BY <1>1, <1>2, <1>3 DEF QemuInv, LaunchOK
<1>9. KnownOK'
  BY <1>1, <1>2, <1>4 DEF QemuInv, KnownOK, Running
<1> QED BY <1>1, <1>6, <1>7, <1>8, <1>9, StillOpen DEF QemuInv

LEMMA StoppedKeeps ==
  ASSUME QemuInv, Stopped
  PROVE  QemuInv'
<1> DEFINE S == Owners(stopping.pids)
<1>1. /\ kit = "stopping" /\ kit' = "stopped" /\ stopping' = Nothing /\ RemoveArtifacts(S)
      /\ alive /\ UNCHANGED <<found, launch, proc, pid, killed, wait, children, tracked,
                              alive, missed>>
  BY DEF Stopped, procVars, trackVars
<1>2. S \in SUBSET Launches /\ \A v \in Launches : v \in S <=> Machine(v) \in stopping.pids
  BY DEF Owners
<1> HIDE DEF S
<1>3. \A v \in Launches : Machine(v)' = Machine(v)
  BY <1>1 DEF Machine
<1>4. \A v \in S : Owes(v)
  BY <1>2 DEF Owes
<1>5. \A v \in S : ~Owes(v)'
  <2> SUFFICES ASSUME NEW v \in S PROVE ~Owes(v)'
    OBVIOUS
  <2>1. v \in Launches /\ Machine(v) \in stopping.pids
    BY <1>2
  <2>2. Machine(v) \notin tracked
    BY <2>1 DEF QemuInv, HandsOK
  <2>3. wait[v] \notin {"pidfile", "launcher"}
    BY <2>1 DEF QemuInv, LaunchOK, Machine
  <2> QED BY <1>1, <1>3, <2>1, <2>2, <2>3 DEF Owes, Nothing
<1>6. \A v \in Launches \ S : Owes(v)' = Owes(v)
  BY <1>1, <1>2, <1>3 DEF Owes, Nothing
<1>7. NetOK' /\ net' \in Nets /\ net'.members \subseteq net'.taps /\ refused' \in BOOLEAN
  BY <1>1, <1>2, <1>4, <1>5, <1>6, RemoveKeepsNet
<1>8. TypeOK' /\ HandsOK'
  BY <1>1, <1>7 DEF QemuInv, TypeOK, HandsOK, Nothing
<1>9. LaunchOK'
  BY <1>1 DEF QemuInv, LaunchOK, Nothing
<1>10. KnownOK'
  BY <1>1, <1>3 DEF QemuInv, KnownOK, Running
<1> QED BY <1>1, <1>7, <1>8, <1>9, <1>10, StillOpen DEF QemuInv

\* At the end of the process only launches that wait for a pid file owe anything.
LEMMA QuitKeeps ==
  ASSUME QemuInv, Quit
  PROVE  QemuInv'
<1>1. alive /\ alive' = FALSE
      /\ UNCHANGED <<found, launch, proc, pid, wait, kit, stopping, missed>>
  BY DEF Quit
<1>2. \A v \in Launches : Machine(v)' = Machine(v)
  BY <1>1 DEF Machine
<1>3. CASE kit # "active"
  <2>1. UNCHANGED <<net, refused, killed, children, tracked>>
    BY <1>3 DEF Quit
  <2>2. \A v \in Launches : Owes(v)' = Owes(v)
    BY <1>1, <1>2, <2>1 DEF Owes
  <2>3. NetOK'
    BY <1>1, <2>1, <2>2, SameNet
  <2>4. TypeOK' /\ HandsOK' /\ LaunchOK'
    BY <1>1, <2>1 DEF QemuInv, TypeOK, HandsOK, LaunchOK
  <2>5. KnownOK'
    BY <1>1, <1>2, <2>1 DEF QemuInv, KnownOK, Running
  <2>6. ExitLeavesNoTap'
    BY <1>1, <1>3 DEF ExitLeavesNoTap
  <2> QED BY <2>3, <2>4, <2>5, <2>6 DEF QemuInv
<1>4. CASE kit = "active"
  <2> DEFINE S == Owners(tracked)
  <2>1. /\ killed' = killed \union Sent(tracked) /\ RemoveArtifacts(S)
        /\ children' = {} /\ tracked' = {}
    BY <1>4 DEF Quit
  <2>2. S \in SUBSET Launches /\ \A v \in Launches : v \in S <=> Machine(v) \in tracked
    BY DEF Owners
  <2> HIDE DEF S
  <2>3. stopping = Nothing
    BY <1>4 DEF QemuInv, HandsOK
  <2>4. \A v \in S : Owes(v)
    BY <2>2 DEF Owes
  <2>5. \A v \in S : wait[v] \notin {"pidfile", "launcher"}
    BY <2>2 DEF QemuInv, LaunchOK, Machine
  <2>6. \A v \in S : ~Owes(v)'
    BY <1>1, <2>1, <2>3, <2>5 DEF Owes, Nothing
  <2>7. \A v \in Launches \ S : Owes(v)' = Owes(v)
    BY <1>1, <1>2, <2>1, <2>2, <2>3 DEF Owes, Nothing
  <2>8. /\ NetOK' /\ net' \in Nets /\ net'.members \subseteq net'.taps
        /\ refused' \in BOOLEAN
        /\ ~refused' => ~refused /\ net'.taps \subseteq net.taps
                         /\ \A t \in net'.taps : \A v \in S : t \notin launch[v].made
    BY <1>1, <2>1, <2>2, <2>4, <2>6, <2>7, RemoveKeepsNet
  <2>9. TypeOK' /\ HandsOK'
    BY <1>1, <2>1, <2>8 DEF QemuInv, TypeOK, HandsOK, Sent
  <2>10. LaunchOK'
    BY <1>1, <2>1 DEF QemuInv, LaunchOK
  <2>11. KnownOK'
    <3>1. \A p \in tracked : Running(p) => p \in killed'
      BY <2>1 DEF Sent
    <3>2. killed \subseteq killed'
      BY <2>1
    <3> QED BY <1>1, <1>2, <1>4, <2>1, <3>1, <3>2 DEF QemuInv, KnownOK, Running
  <2>12. ExitLeavesNoTap'
    <3> SUFFICES ASSUME ~refused', NEW t \in net'.taps \ found.taps
                 PROVE  \E v \in Launches :
                          t \in launch[v].made /\ wait[v] \in {"pidfile", "launcher"}
      BY <1>1 DEF ExitLeavesNoTap
    <3>1. PICK v \in Launches : t \in launch[v].made /\ Owes(v)
      BY <1>1, <2>8 DEF QemuInv, NetOK, AllOwned
    <3>2. v \notin S
      BY <2>8, <3>1
    <3> QED BY <2>2, <2>3, <3>1, <3>2 DEF Owes, Nothing
  <2> QED BY <2>8, <2>9, <2>10, <2>11, <2>12 DEF QemuInv
<1> QED BY <1>3, <1>4

-----------------------------------------------------------------------------
(* The invariant, and what it says. *)

LEMMA InitEstablishesQemuInv == Init => QemuInv
<1> SUFFICES ASSUME Init PROVE QemuInv
  OBVIOUS
<1>1. net \in Nets /\ net.members \subseteq net.taps /\ found = net
  BY HostsAssumption DEF Init
<1>2. \A v \in Launches :
        /\ launch[v] = NoLaunch /\ wait[v] = "none"
        /\ proc[Child(v)] = "none" /\ proc[Daemon(v)] = "none"
  BY PidFacts DEF Init
<1>3. /\ children = {} /\ tracked = {} /\ killed = {} /\ pid = {} /\ missed = {}
      /\ kit = "new" /\ stopping = Nothing /\ alive = TRUE /\ refused = FALSE
  BY DEF Init
<1>4. TypeOK
  <2>1. launch \in [Launches -> [kind : Kinds, taps : SUBSET Taps, made : SUBSET Taps]]
    BY DEF Init, NoLaunch, Kinds
  <2>2. proc \in [Pids -> {"none", "running", "gone"}]
        /\ wait \in [Launches -> {"none", "pidfile", "launcher", "done"}]
    BY DEF Init
  <2> QED BY <1>1, <1>3, <2>1, <2>2 DEF TypeOK, Nothing
<1>5. LaunchOK /\ HandsOK
  BY <1>2, <1>3 DEF LaunchOK, HandsOK, NoLaunch, Nothing
<1>6. \A v \in Launches : ~Owes(v) /\ ~Running(Machine(v)) /\ ~Running(Child(v))
  BY <1>2, <1>3 DEF Owes, Machine, Running, Nothing, NoLaunch
<1>7. NetOK
  BY <1>1, <1>6 DEF NetOK, OwnedOK, AllOwned, BridgeOK, ForeignStays
<1>8. KnownOK /\ ExitLeavesNoTap
  BY <1>2, <1>3, <1>6 DEF KnownOK, ExitLeavesNoTap
<1> QED BY <1>4, <1>5, <1>7, <1>8 DEF QemuInv

LEMMA NextKeepsQemuInv == QemuInv /\ [Next]_vars => QemuInv'
<1> SUFFICES ASSUME QemuInv, [Next]_vars PROVE QemuInv'
  OBVIOUS
<1>1. ASSUME NEW v \in Launches, Call(v) PROVE QemuInv'
  BY <1>1, LaunchKeeps DEF Call
<1>2. ASSUME FailedCall PROVE QemuInv'
  BY <1>2, FailedCallKeeps DEF FailedCall
<1>3. ASSUME NEW v \in Launches, Handle(v) \/ Timeout(v) PROVE QemuInv'
  BY <1>3, ChildGoneKeeps, FindPidKeeps, GiveUpKeeps, DaemonGoneKeeps, TimeoutKeeps DEF Handle
<1>4. CASE UNCHANGED vars
  BY <1>4 DEF vars, netVars, procVars, trackVars, kitVars, QemuInv, TypeOK, LaunchOK, HandsOK,
              NetOK, OwnedOK, AllOwned, BridgeOK, ForeignStays, KnownOK, ExitLeavesNoTap, Owes,
              Machine, Running
<1> QED BY <1>1, <1>2, <1>3, <1>4, DaemonizeKeeps, WritePidKeeps, ExitKeeps, StoppedKeeps,
           StartKeeps, StopKeeps, QuitKeeps DEF Next, React

LEMMA SpecKeepsQemuInv == Spec => []QemuInv
BY InitEstablishesQemuInv, NextKeepsQemuInv, PTL DEF Spec

\* Every variable keeps its type, and what is attached to the bridge exists,
\* whatever the kit and its processes do.
THEOREM TypeIsInvariant == Spec => []TypeOK
<1>1. QemuInv => TypeOK
  BY DEF QemuInv
<1> QED BY <1>1, SpecKeepsQemuInv, PTL

\* As long as removing an interface works, a tap the kit has made is in the
\* hands of exactly one launch that will remove it.
THEOREM TapsAlwaysHaveAnOwner == Spec => []TapsHaveAnOwner
<1>1. QemuInv => TapsHaveAnOwner
  <2> SUFFICES ASSUME QemuInv, alive, ~refused, NEW t \in net.taps \ found.taps
               PROVE  \E v \in Launches :
                        /\ t \in launch[v].made /\ Owes(v)
                        /\ \A w \in Launches \ {v} : ~(t \in launch[w].made /\ Owes(w))
    BY DEF TapsHaveAnOwner
  <2>1. PICK v \in Launches : t \in launch[v].made /\ Owes(v)
    BY DEF QemuInv, NetOK, AllOwned
  <2>2. \A w \in Launches \ {v} : ~(t \in launch[w].made /\ Owes(w))
    BY <2>1 DEF QemuInv, NetOK, OwnedOK
  <2> QED BY <2>1, <2>2
<1> QED BY <1>1, SpecKeepsQemuInv, PTL

\* The kit never removes an interface that was there before it.
THEOREM ForeignAlwaysStays == Spec => []ForeignStays
<1>1. QemuInv => ForeignStays
  BY DEF QemuInv, NetOK
<1> QED BY <1>1, SpecKeepsQemuInv, PTL

\* The bridge the kit has made goes with the last tap attached to it.
THEOREM BridgeAlwaysGoesWithTheLast == Spec => []BridgeGoesWithTheLast
<1>1. QemuInv => BridgeGoesWithTheLast
  BY DEF QemuInv, NetOK, BridgeOK, BridgeGoesWithTheLast
<1> QED BY <1>1, SpecKeepsQemuInv, PTL

\* No machine that runs, and that nobody has stopped, loses a tap made for it.
THEOREM TapsAlwaysOutliveTheMachine == Spec => []TapsOutliveTheMachine
<1>1. QemuInv => TapsOutliveTheMachine
  <2> SUFFICES ASSUME QemuInv, NEW v \in Launches, Running(Machine(v)), Machine(v) \notin killed,
                      launch[v].kind = "attached" \/ Owes(v)
               PROVE  launch[v].made \subseteq net.taps
    BY DEF TapsOutliveTheMachine
  <2>1. Owes(v)
    BY DEF QemuInv, KnownOK, Owes
  <2> QED BY <2>1 DEF QemuInv, NetOK, OwnedOK
<1> QED BY <1>1, SpecKeepsQemuInv, PTL

\* A kit that was stopped has sent SIGTERM to every machine it knew of.
THEOREM StopAlwaysReachesAll == Spec => []StopReachesAll
<1>1. QemuInv => StopReachesAll
  BY DEF QemuInv, KnownOK, StopReachesAll
<1> QED BY <1>1, SpecKeepsQemuInv, PTL

\* When the process ends under an active kit, only a launch that still waits for
\* its pid file leaves a tap behind.
THEOREM ExitAlwaysLeavesNoTap == Spec => []ExitLeavesNoTap
<1>1. QemuInv => ExitLeavesNoTap
  BY DEF QemuInv
<1> QED BY <1>1, SpecKeepsQemuInv, PTL

\* For any launches and interfaces: the kit removes what it has made, with the
\* machine it was made for, and nothing else.
THEOREM InterfacesAlwaysOwned == Spec => []InterfacesAreOwned
<1>1. TapsHaveAnOwner /\ ForeignStays /\ BridgeGoesWithTheLast /\ TapsOutliveTheMachine
        => InterfacesAreOwned
  BY DEF InterfacesAreOwned
<1> QED BY <1>1, TapsAlwaysHaveAnOwner, ForeignAlwaysStays, BridgeAlwaysGoesWithTheLast,
           TapsAlwaysOutliveTheMachine, PTL

\* The stop of the kit reaches every machine it could know, and the end of the
\* process under an active kit leaves no tap of a machine it knew.
THEOREM NothingIsEverLeft == Spec => []NothingIsLeft
<1>1. StopReachesAll /\ ExitLeavesNoTap => NothingIsLeft
  BY DEF NothingIsLeft
<1> QED BY <1>1, StopAlwaysReachesAll, ExitAlwaysLeavesNoTap, PTL
=============================================================================
