----------------------------- MODULE ServerSockets -----------------------------
(***************************************************************************)
(* The WebSockets of the VM server that hold something while they are      *)
(* open (src/vm/server/index.ts, websocket.ts, browser-audio.ts): the      *)
(* screencast of a browser profile (kits/cloak-kit.ts), the terminal of a  *)
(* box (kits/bpkg-kit.ts), the polling of an inspector, and the one audio  *)
(* capture that all audio sockets share.  A socket can be closed by its    *)
(* client at any time: while what it asked for is being started, while it  *)
(* is in use, and while it is being stopped.                               *)
(*                                                                         *)
(* All browser sockets are of one profile.  The snapshots of its tabs, the *)
(* input of terminals and pages, and what is sent, are left out.           *)
(***************************************************************************)
EXTENDS Naturals, FiniteSets

CONSTANTS Sockets,
          Captures,  \* capture processes
          Mixes,     \* bound: which kinds of sockets there are together
          None

Kinds == {"browser", "terminal", "inspector", "audio"}
ASSUME MixesAssumption == Mixes \subseteq [Sockets -> Kinds \union {"none"}]
ASSUME NoneAssumption == None \notin Sockets \union Captures

VARIABLES
  kind,      \* ws.data.kind
  sock,      \* "open", "closing" once either side closes it, "closed" (isClosed)
  work,      \* the await at which the handler of "open" is
  stop,      \* sockets with stopStream or closeTerminal
  timers,    \* timers that are set for a socket
  held,      \* the screencast or the terminal of a socket
  \* the kit's side of a browser socket
  op,        \* the start of its screencast, which goes on after a timeout
  waitsFor,  \* the screencast that a start stops first
  discards,  \* the screencast that is thrown away with the profile's session
  handle,    \* activeScreencasts of the profile
  late,      \* history: sockets whose start has timed out
  \* the audio manager
  clients, capture, stopped,
  process,   \* of each capture process: "none", "running", "dead", "reaped"
  killed,    \* history: processes that were stopped on purpose
  overlap,   \* history: one was stopped while another had not been reaped
  alarmed    \* history: the exit of a stopped process closed sockets

handlerVars == <<kind, sock, work, stop, timers, held>>
kitVars == <<op, waitsFor, discards, handle, late>>
audioVars == <<clients, capture, stopped, process, killed, overlap, alarmed>>
serverVars == <<handlerVars, kitVars, audioVars>>

SocketsInit ==
  /\ kind \in Mixes
  /\ sock = [s \in Sockets |-> "none"]
  /\ work = [s \in Sockets |-> "none"]
  /\ stop = {}
  /\ timers = [s \in Sockets |-> {}]
  /\ held = [s \in Sockets |-> "none"]
  /\ op = [s \in Sockets |-> "none"]
  /\ waitsFor = [s \in Sockets |-> None]
  /\ discards = [s \in Sockets |-> None]
  /\ handle = None
  /\ late = {}
  /\ clients = {} /\ capture = None /\ stopped = None
  /\ process = [p \in Captures |-> "none"]
  /\ killed = {} /\ overlap = FALSE /\ alarmed = FALSE

Closed(s) == sock[s] = "closed"

\* ws.close, and what a client does at any time.
Closing(S) == sock' = [s \in Sockets |-> IF s \in S /\ sock[s] = "open"
                                           THEN "closing" ELSE sock[s]]

\* stop of a screencast, close of a terminal: the first call of them counts.
Stopping(h, s) == [h EXCEPT ![s] = IF @ = "on" THEN "stopping" ELSE @]

-----------------------------------------------------------------------------
(* open: the upgrade of a request. *)

\* The handler runs to its first await.  An inspector has its stopStream and its
\* first read at once; the kits answer the others.
Open(s) ==
  /\ sock[s] = "none" /\ kind[s] \in Kinds \ {"audio"}
  /\ sock' = [sock EXCEPT ![s] = "open"]
  /\ work' = [work EXCEPT ![s] =
                IF kind[s] = "inspector" THEN "reading" ELSE "starting"]
  /\ stop' = IF kind[s] = "inspector" THEN stop \union {s} ELSE stop
  /\ op' = IF kind[s] = "browser" THEN [op EXCEPT ![s] = "resolving"] ELSE op
  /\ UNCHANGED <<kind, timers, held, waitsFor, discards, handle, late, audioVars>>

\* The catch block of a handler: the socket is closed.
Fails(s) ==
  /\ work' = [work EXCEPT ![s] = "over"]
  /\ Closing({s})

Leave(s) ==
  /\ sock[s] = "open"
  /\ Closing({s})
  /\ UNCHANGED <<kind, work, stop, timers, held, kitVars, audioVars>>

-----------------------------------------------------------------------------
(* startProfileScreencast of the kit. *)

\* The page is there: a screencast that the profile has is stopped first, ...
Resolved(s) ==
  /\ op[s] = "resolving"
  /\ op' = [op EXCEPT ![s] = "replacing"]
  /\ waitsFor' = [waitsFor EXCEPT ![s] = handle]
  /\ held' = IF handle = None THEN held ELSE Stopping(held, handle)
  /\ UNCHANGED <<kind, sock, work, stop, timers, discards, handle, late, audioVars>>

\* ... then frames may come, ...
Attach(s) ==
  /\ op[s] = "replacing"
  /\ \A x \in {waitsFor[s]} \ {None} : held[x] = "off"
  /\ op' = [op EXCEPT ![s] = "starting"]
  /\ waitsFor' = [waitsFor EXCEPT ![s] = None]
  /\ held' = [held EXCEPT ![s] = "on"]
  /\ UNCHANGED <<kind, sock, work, stop, timers, discards, handle, late, audioVars>>

\* ... and the handle is kept and returned.
Started(s) ==
  /\ op[s] = "starting"
  /\ op' = [op EXCEPT ![s] = "done"]
  /\ handle' = s
  /\ UNCHANGED <<handlerVars, waitsFor, discards, late, audioVars>>

\* runBoundedProfileOperation ends with an error, of the browser or of its timer
\* (resets: one after which the session of the profile is thrown away).
Reject(s, resets) ==
  IF resets
    THEN /\ work' = [work EXCEPT ![s] = "resetting"]
         /\ discards' = [discards EXCEPT ![s] = handle]
         /\ handle' = None
         /\ UNCHANGED sock
    ELSE Fails(s) /\ UNCHANGED <<discards, handle>>

OpFails(s, resets) ==
  /\ op[s] \in {"resolving", "replacing", "starting"}
  /\ op' = [op EXCEPT ![s] = "failed"]
  /\ held' = [held EXCEPT ![s] = IF @ = "on" THEN "off" ELSE @]
  /\ IF work[s] = "starting" THEN Reject(s, resets)
     ELSE UNCHANGED <<work, sock, discards, handle>>
  /\ UNCHANGED <<kind, stop, timers, waitsFor, late, audioVars>>

\* withTimeout: the operation itself goes on.
Timeout(s) ==
  /\ work[s] = "starting" /\ op[s] \in {"resolving", "replacing", "starting"}
  /\ late' = late \union {s}
  /\ Reject(s, TRUE)
  /\ UNCHANGED <<kind, stop, timers, held, op, waitsFor, audioVars>>

\* Every screencast of the profile ends with its session.
AllOff == held' = [s \in Sockets |-> IF kind[s] = "browser" /\ held[s] # "none"
                                       THEN "off" ELSE held[s]]

\* cleanupProfileSession: the session is closed, or hangs and is forgotten.
ResetDone(s, closes) ==
  /\ work[s] = "resetting"
  /\ Fails(s)
  /\ IF closes THEN AllOff /\ handle' = None
     ELSE /\ held' = IF discards[s] = None THEN held ELSE Stopping(held, discards[s])
          /\ UNCHANGED handle
  /\ discards' = [discards EXCEPT ![s] = None]
  /\ UNCHANGED <<kind, stop, timers, op, waitsFor, late, audioVars>>

\* The browser is closed or crashes.
BrowserGone ==
  /\ \E s \in Sockets : kind[s] = "browser" /\ held[s] \in {"on", "stopping"}
  /\ AllOff /\ handle' = None
  /\ UNCHANGED <<kind, sock, work, stop, timers, op, waitsFor, discards, late,
                 audioVars>>

\* stopScreencast, and the close of a terminal, come to their end.
StopDone(s) ==
  /\ held[s] = "stopping"
  /\ held' = [held EXCEPT ![s] = "off"]
  /\ handle' = IF handle = s THEN None ELSE handle
  /\ UNCHANGED <<kind, sock, work, stop, timers, op, waitsFor, discards, late,
                 audioVars>>

-----------------------------------------------------------------------------
(* Browser sockets. *)

\* A frame arms the watchdog, whatever the socket's state.
Frame(s) ==
  /\ kind[s] = "browser" /\ held[s] = "on"
  /\ timers' = [timers EXCEPT ![s] = @ \union {"watchdog"}]
  /\ UNCHANGED <<kind, sock, work, stop, held, kitVars, audioVars>>

\* The watchdog fires.
Stalled(s) ==
  /\ "watchdog" \in timers[s]
  /\ timers' = [timers EXCEPT ![s] = @ \ {"watchdog"}]
  /\ Closing({s})
  /\ UNCHANGED <<kind, work, stop, held, kitVars, audioVars>>

\* The screencast is there: it is kept, or stopped if the socket was closed.
\* (KeepsCast: isClosed is not looked at.)
KeepsCast(s) ==
  /\ work[s] = "starting" /\ op[s] = "done"
  /\ timers' = [timers EXCEPT ![s] = {"watchdog", "tabs"}]
  /\ stop' = stop \union {s}
  /\ work' = [work EXCEPT ![s] = "tabs"]
  /\ UNCHANGED <<kind, sock, held, kitVars, audioVars>>
Casting(s) ==
  /\ work[s] = "starting" /\ op[s] = "done"
  /\ IF Closed(s)
       THEN /\ timers' = [timers EXCEPT ![s] = {}]
            /\ held' = Stopping(held, s)
            /\ work' = [work EXCEPT ![s] = "over"]
            /\ UNCHANGED stop
       ELSE /\ timers' = [timers EXCEPT ![s] = {"watchdog", "tabs"}]
            /\ stop' = stop \union {s}
            /\ work' = [work EXCEPT ![s] = "tabs"]
            /\ UNCHANGED held
  /\ UNCHANGED <<kind, sock, kitVars, audioVars>>

\* The first sendTabsSnapshot.
Tabs(s, ok) ==
  /\ work[s] = "tabs"
  /\ IF ok THEN work' = [work EXCEPT ![s] = "over"] /\ UNCHANGED sock ELSE Fails(s)
  /\ UNCHANGED <<kind, stop, timers, held, kitVars, audioVars>>

-----------------------------------------------------------------------------
(* Terminals: startVmPackageTerminalStream. *)

Terminal(s, ok) ==
  /\ work[s] = "starting" /\ kind[s] = "terminal"
  /\ IF ~ok THEN Fails(s) /\ UNCHANGED <<held, stop>>
     ELSE IF Closed(s)
       THEN /\ held' = [held EXCEPT ![s] = "stopping"]
            /\ work' = [work EXCEPT ![s] = "over"]
            /\ UNCHANGED <<stop, sock>>
       ELSE /\ held' = [held EXCEPT ![s] = "on"]
            /\ stop' = stop \union {s}
            /\ work' = [work EXCEPT ![s] = "watching"]
            /\ UNCHANGED sock
  /\ UNCHANGED <<kind, timers, kitVars, audioVars>>

ShellExits(s) ==
  /\ kind[s] = "terminal" /\ held[s] = "on"
  /\ held' = [held EXCEPT ![s] = "off"]
  /\ UNCHANGED <<kind, sock, work, stop, timers, kitVars, audioVars>>

\* child.exited, of a shell that ended or was killed.
Watched(s) ==
  /\ work[s] = "watching" /\ held[s] = "off"
  /\ Fails(s)
  /\ UNCHANGED <<kind, stop, timers, held, kitVars, audioVars>>

-----------------------------------------------------------------------------
(* Inspectors: startVmInspectorStream. *)

\* readInspectorStreamState answers or fails; either way the next one is planned.
Read(s) ==
  /\ work[s] = "reading"
  /\ IF Closed(s)
       THEN work' = [work EXCEPT ![s] = "over"] /\ UNCHANGED timers
       ELSE /\ work' = [work EXCEPT ![s] = "waiting"]
            /\ timers' = [timers EXCEPT ![s] = {"poll"}]
  /\ UNCHANGED <<kind, sock, stop, held, kitVars, audioVars>>

Poll(s) ==
  /\ "poll" \in timers[s]
  /\ timers' = [timers EXCEPT ![s] = {}]
  /\ work' = [work EXCEPT ![s] = "reading"]
  /\ UNCHANGED <<kind, sock, stop, held, kitVars, audioVars>>

-----------------------------------------------------------------------------
(* Audio: VmBrowserAudioStreamManager. *)

\* subscribe: the sink is prepared by synchronous commands and the capture process
\* is spawned, if there is none, in the turn that opens the socket.
Subscribe(s, p) ==
  /\ sock[s] = "none" /\ kind[s] = "audio"
  /\ process[p] = "none"
  /\ sock' = [sock EXCEPT ![s] = "open"]
  /\ clients' = clients \union {s}
  /\ IF capture = None
       THEN capture' = p /\ process' = [process EXCEPT ![p] = "running"]
       ELSE UNCHANGED <<capture, process>>
  /\ UNCHANGED <<kind, work, stop, timers, held, kitVars,
                 stopped, killed, overlap, alarmed>>

\* The sink cannot be prepared or the process cannot be spawned.
Refused(s) ==
  /\ sock[s] = "none" /\ kind[s] = "audio"
  /\ sock' = [sock EXCEPT ![s] = "closing"]
  /\ UNCHANGED <<kind, work, stop, timers, held, kitVars, audioVars>>

\* unsubscribe: the last client stops the capture.
\* (StopsQuietly: stoppedProcess is not set.)
StopsQuietly(s) ==
  /\ clients' = clients \ {s}
  /\ IF clients' = {} /\ capture # None
       THEN /\ capture' = None
            /\ killed' = killed \union {capture}
            /\ UNCHANGED <<stopped, overlap>>
       ELSE UNCHANGED <<capture, stopped, killed, overlap>>
Unsubscribe(s) ==
  /\ clients' = clients \ {s}
  /\ IF clients' = {} /\ capture # None
       THEN /\ capture' = None /\ stopped' = capture
            /\ killed' = killed \union {capture}
            /\ overlap' = (overlap \/ stopped # None)
       ELSE UNCHANGED <<capture, stopped, killed, overlap>>

Dies(p) ==
  /\ process[p] = "running"
  /\ process' = [process EXCEPT ![p] = "dead"]
  /\ UNCHANGED <<handlerVars, kitVars, clients, capture, stopped,
                 killed, overlap, alarmed>>

\* watchCaptureProcess: only the process stopped last is known to be stopped.
Reap(p) ==
  /\ process[p] = "dead"
  /\ process' = [process EXCEPT ![p] = "reaped"]
  /\ IF stopped = p
       THEN stopped' = None /\ UNCHANGED <<sock, capture, alarmed>>
       ELSE /\ capture' = IF capture = p THEN None ELSE capture
            /\ Closing(clients)
            /\ alarmed' = (alarmed \/ (clients # {} /\ p \in killed))
            /\ UNCHANGED stopped
  /\ UNCHANGED <<kind, work, stop, timers, held, kitVars, clients, killed, overlap>>

-----------------------------------------------------------------------------
(* close *)

\* stopStream clears the timers, and what is held is stopped.
CloseHandler(s) ==
  /\ sock[s] = "closing"
  /\ sock' = [sock EXCEPT ![s] = "closed"]
  /\ IF s \in stop
       THEN /\ timers' = [timers EXCEPT ![s] = {}]
            /\ held' = Stopping(held, s)
            /\ stop' = stop \ {s}
       ELSE UNCHANGED <<timers, held, stop>>
  /\ IF kind[s] = "audio" THEN Unsubscribe(s)
     ELSE UNCHANGED <<clients, capture, stopped, killed, overlap>>
  /\ UNCHANGED <<kind, work, kitVars, process, alarmed>>

-----------------------------------------------------------------------------
Kit(s) == \/ Resolved(s) \/ Attach(s) \/ Started(s)
          \/ \E resets \in BOOLEAN : OpFails(s, resets)
Browser(s) == \/ Casting(s) \/ Timeout(s)
              \/ \E closes \in BOOLEAN : ResetDone(s, closes)
              \/ \E ok \in BOOLEAN : Tabs(s, ok)
Audio(s) == Refused(s) \/ \E p \in Captures : Subscribe(s, p)

SocketsNext ==
  \/ \E s \in Sockets :
       \/ Open(s) \/ Leave(s) \/ CloseHandler(s)
       \/ Kit(s) \/ StopDone(s) \/ Browser(s) \/ Frame(s) \/ Stalled(s)
       \/ \E ok \in BOOLEAN : Terminal(s, ok)
       \/ ShellExits(s) \/ Watched(s)
       \/ Read(s) \/ Poll(s)
       \/ Audio(s)
  \/ BrowserGone
  \/ \E p \in Captures : Dies(p) \/ Reap(p)

SocketsSpec == SocketsInit /\ [][SocketsNext]_serverVars

\* The event loop runs.  A start of a screencast ends by itself or by its timeout,
\* and so do the reset and the first snapshot of the tabs; the watchdog fires if no
\* frame comes.  A box's terminal is opened or not, what is stopped ends, and a
\* process that is killed dies: assumed of the kits and the operating system.
SocketsFairness ==
  /\ \A s \in Sockets :
       /\ WF_serverVars(CloseHandler(s)) /\ WF_serverVars(Browser(s)) /\ WF_serverVars(StopDone(s))
       /\ WF_serverVars(held[s] # "on" /\ Stalled(s))
       /\ WF_serverVars(\E ok \in BOOLEAN : Terminal(s, ok)) /\ WF_serverVars(Watched(s))
       /\ WF_serverVars(Read(s))
  /\ \A p \in Captures : WF_serverVars(p \in killed /\ Dies(p)) /\ WF_serverVars(Reap(p))

FairSocketsSpec == SocketsSpec /\ SocketsFairness

-----------------------------------------------------------------------------
(* Properties. *)

\* The types of the variables.
SocketTypesOK ==
  /\ kind \in Mixes
  /\ sock \in [Sockets -> {"none", "open", "closing", "closed"}]
  /\ work \in [Sockets -> {"none", "starting", "resetting", "tabs", "watching",
                           "reading", "waiting", "over"}]
  /\ stop \subseteq Sockets
  /\ timers \in [Sockets -> SUBSET {"watchdog", "tabs", "poll"}]
  /\ held \in [Sockets -> {"none", "on", "stopping", "off"}]
  /\ op \in [Sockets -> {"none", "resolving", "replacing", "starting", "done", "failed"}]
  /\ waitsFor \in [Sockets -> Sockets \union {None}]
  /\ discards \in [Sockets -> Sockets \union {None}]
  /\ handle \in Sockets \union {None} /\ late \subseteq Sockets
  /\ clients \subseteq Sockets
  /\ {capture, stopped} \subseteq Captures \union {None}
  /\ process \in [Captures -> {"none", "running", "dead", "reaped"}]
  /\ killed \subseteq Captures /\ overlap \in BOOLEAN /\ alarmed \in BOOLEAN

\* A socket that was closed while it was opened keeps nothing: once its handler is
\* over no timer is set again and no screencast or terminal goes on, but that of a
\* start that has timed out.  An open page that gets no frames has its watchdog.
ClosedKeepsNothing ==
  \A s \in Sockets :
    /\ /\ Closed(s) /\ s \notin late
       /\ work[s] \in {"over", "watching", "waiting", "tabs"}
       => /\ held[s] # "on"
          /\ timers[s] \subseteq (IF op[s] = "failed" THEN {"watchdog"} ELSE {})
    /\ sock[s] = "open" /\ s \in stop /\ kind[s] = "browser" => "watchdog" \in timers[s]

\* One capture for all: it runs while there is somebody to hear it and no longer,
\* there is only one that was not stopped, and nobody who hears it is closed
\* because another one was stopped, unless two of those were ending at once.
OneCapture ==
  /\ \A p \in Captures : process[p] = "running" /\ p \notin killed => p = capture
  /\ capture # None => clients # {}
  /\ capture = None => \A s \in clients : sock[s] # "open"
  /\ \A s \in clients : ~Closed(s)
  /\ alarmed => overlap

\* The types, and what a socket that is closed leaves to the others.
SocketsOK == SocketTypesOK /\ ClosedKeepsNothing /\ OneCapture

\* A closed socket holds nothing for ever, however it was closed, unless its start
\* has timed out; a page whose screencast was taken over by another one is closed;
\* and without sockets no capture goes on.
SocketsAreFreed ==
  /\ \A s \in Sockets :
       /\ <>Closed(s) =>
            <>[](s \in late \/ (timers[s] = {} /\ held[s] \in {"none", "off"}))
       /\ (sock[s] = "open" /\ s \in stop /\ kind[s] = "browser" /\ held[s] # "on")
            ~> sock[s] # "open"
  /\ clients = {} ~> (clients # {} \/ \A p \in Captures : process[p] # "running")
=============================================================================
