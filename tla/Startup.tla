------------------------------ MODULE Startup ------------------------------
(***************************************************************************)
(* How a core comes up and goes down, and who starts it: the socket file   *)
(* and the port of PulpoDaemon.start() and stop() (core/src/server/        *)
(* daemon.ts), the command line (core/src/cli.ts), and the desktop host    *)
(* that makes sure a core runs (shell/src-tauri/src/lib.rs).               *)
(*                                                                         *)
(* Several processes use one file, and one port or several, or no port;    *)
(* every await of start() and stop() is a boundary between two actions.  A *)
(* core that dies leaves its socket file behind.                           *)
(***************************************************************************)
EXTENDS FiniteSets

CONSTANTS Cores,   \* processes of the core, each started at most once
          Hosts,   \* desktop shells
          Ports,   \* ports a core may be told to listen on (bound)
          DefaultPort,
          None

VARIABLES
  wants,   \* wants[c]: the transports c was started with (its options)
  core,    \* how far each core has come
  file,    \* whose socket file is at the path
  port,    \* port[q]: who listens on WebSocket port q
  before,  \* the cores that listened when a core looked at the file
  host,    \* how far ensure_core of each shell has come
  child    \* SpawnedCore: the core a shell has spawned

vars == <<wants, core, file, port, before, host, child>>

coreVars == <<wants, core, file, port, before>>
hostVars == <<host, child>>

\* The options of the command line: without --no-socket (or with the path of
\* this file), and the port, None with --no-ws.
Options == [socket : BOOLEAN, port : Ports \cup {None}]

Defaults == [socket |-> TRUE, port |-> DefaultPort]

TypeOK ==
  /\ wants \in [Cores -> Options]
  /\ core \in [Cores -> {"none", "starting", "probing", "clearing", "binding",
                         "onSocket", "serving", "closing", "closed", "gone"}]
  /\ file \in Cores \cup {None}
  /\ port \in [Ports -> Cores \cup {None}]
  /\ before \in [Cores -> SUBSET Cores]
  /\ host \in [Hosts -> {"idle", "waiting", "ready", "failed", "gone"}]
  /\ child \in [Hosts -> Cores \cup {None}]

Init ==
  /\ wants = [c \in Cores |-> Defaults]
  /\ core = [c \in Cores |-> "none"]
  /\ file = None
  /\ port = [q \in Ports |-> None]
  /\ before = [c \in Cores |-> {}]
  /\ host = [h \in Hosts |-> "idle"]
  /\ child = [h \in Hosts |-> None]

-----------------------------------------------------------------------------
(* PulpoDaemon.start().                                                    *)

Listening == {c \in Cores : wants[c].socket /\ core[c] \in {"onSocket", "serving"}}
Alive(c)  == core[c] \notin {"none", "gone"}

Goes(c, to) == core' = [core EXCEPT ![c] = to]

\* fs.existsSync of the socket file.
Look(c) ==
  /\ core[c] = "starting" /\ wants[c].socket
  /\ Goes(c, IF file = None THEN "binding" ELSE "probing")
  /\ before' = [before EXCEPT ![c] = Listening]
  /\ UNCHANGED <<wants, file, port, hostVars>>

NoSocket(c) ==
  /\ core[c] = "starting" /\ ~wants[c].socket
  /\ Goes(c, "onSocket")
  /\ UNCHANGED <<wants, file, port, before, hostVars>>

\* Mutant: a file that is there is taken for a leftover.
Answered == FALSE

\* A connection to the file is accepted by the core that listens on it.
Answers == file \in Listening

\* An answer means that a core runs: this one gives up, and exits.
Probe(c) ==
  /\ core[c] = "probing"
  /\ Goes(c, IF Answers THEN "gone" ELSE "clearing")
  /\ UNCHANGED <<wants, file, port, before, hostVars>>

\* unlinkSync of whatever is at the path by now; it throws if nothing is.
Clear(c) ==
  /\ core[c] = "clearing"
  /\ Goes(c, IF file = None THEN "gone" ELSE "binding")
  /\ file' = None
  /\ UNCHANGED <<wants, port, before, hostVars>>

Bind(c) ==
  /\ core[c] = "binding"
  /\ Goes(c, IF file = None THEN "onSocket" ELSE "gone")
  /\ file' = IF file = None THEN c ELSE file
  /\ UNCHANGED <<wants, port, before, hostVars>>

\* A port in use makes start() reject, and the process exits without closing
\* the server it has on the socket.
BindPort(c) ==
  /\ core[c] = "onSocket" /\ wants[c].port # None
  /\ LET q == wants[c].port
     IN  /\ Goes(c, IF port[q] = None THEN "serving" ELSE "gone")
         /\ port' = [port EXCEPT ![q] = IF @ = None THEN c ELSE @]
  /\ UNCHANGED <<wants, file, before, hostVars>>

NoPort(c) ==
  /\ core[c] = "onSocket" /\ wants[c].port = None
  /\ Goes(c, "serving")
  /\ UNCHANGED <<wants, file, port, before, hostVars>>

\* stop(): the server on the socket closes, which unlinks its path, and waits
\* for its connections; the port stays taken.
CloseSocket(c) ==
  /\ core[c] = "serving"
  /\ Goes(c, "closing")
  /\ file' = IF wants[c].socket THEN None ELSE file
  /\ UNCHANGED <<wants, port, before, hostVars>>

\* Whatever file is at the path by then is removed.
RemoveFile(c) ==
  /\ core[c] = "closing"
  /\ Goes(c, "closed")
  /\ file' = IF wants[c].socket THEN None ELSE file
  /\ UNCHANGED <<wants, port, before, hostVars>>

Released(C) == [q \in Ports |-> IF port[q] \in C THEN None ELSE port[q]]

ClosePort(c) ==
  /\ core[c] = "closed"
  /\ Goes(c, "gone")
  /\ port' = Released({c})
  /\ UNCHANGED <<wants, file, before, hostVars>>

\* Crashes and kills.
Gone(C) ==
  /\ core' = [c \in Cores |-> IF c \in C /\ Alive(c) THEN "gone" ELSE core[c]]
  /\ port' = Released(C)
  /\ UNCHANGED <<wants, file, before>>

Crash(c) == Alive(c) /\ Gone({c}) /\ UNCHANGED hostVars

\* The user runs pulpo-core from a terminal, with any options.
RunByHand(c) ==
  /\ core[c] = "none"
  /\ Goes(c, "starting")
  /\ \E w \in Options : wants' = [wants EXCEPT ![c] = w]
  /\ UNCHANGED <<file, port, before, hostVars>>

-----------------------------------------------------------------------------
(* The desktop host.                                                       *)

\* port_is_open of ws_port.
PortIsOpen == port[DefaultPort] # None

\* ensure_core: a core that listens is used, a core spawned before is waited
\* for, and else a new one is spawned, without options.
EnsureCore(h) ==
  /\ host[h] = "idle"
  /\ IF PortIsOpen
     THEN host' = [host EXCEPT ![h] = "ready"] /\ UNCHANGED <<core, child>>
     ELSE /\ host' = [host EXCEPT ![h] = "waiting"]
          /\ IF child[h] # None
             THEN UNCHANGED <<core, child>>
             ELSE \E c \in Cores :
                    /\ core[c] = "none"
                    /\ Goes(c, "starting")
                    /\ child' = [child EXCEPT ![h] = c]
  /\ UNCHANGED <<wants, file, port, before>>

\* No executable is found, or it cannot be run.
SpawnFails(h) ==
  /\ host[h] = "idle" /\ ~PortIsOpen /\ child[h] = None
  /\ host' = [host EXCEPT ![h] = "failed"]
  /\ UNCHANGED <<coreVars, child>>

CoreIsUp(h) ==
  /\ host[h] = "waiting" /\ PortIsOpen
  /\ host' = [host EXCEPT ![h] = "ready"]
  /\ UNCHANGED <<coreVars, child>>

WaitTimesOut(h) ==
  /\ host[h] = "waiting" /\ ~PortIsOpen
  /\ host' = [host EXCEPT ![h] = "failed"]
  /\ UNCHANGED <<coreVars, child>>

\* The page of the shell is loaded again.
Reload(h) ==
  /\ host[h] \in {"ready", "failed"}
  /\ host' = [host EXCEPT ![h] = "idle"]
  /\ UNCHANGED <<coreVars, child>>

\* reap_spawned_core: what the shell has spawned itself.
Spawned(h) == {child[h]} \ {None}

HostExits(h) ==
  /\ host[h] # "gone"
  /\ host' = [host EXCEPT ![h] = "gone"]
  /\ child' = [child EXCEPT ![h] = None]
  /\ Gone(Spawned(h))

-----------------------------------------------------------------------------
StartStep(c) == \/ Look(c) \/ NoSocket(c) \/ Probe(c) \/ Clear(c) \/ Bind(c)
                \/ BindPort(c) \/ NoPort(c)
StopStep(c)  == RemoveFile(c) \/ ClosePort(c)

Next ==
  \/ \E c \in Cores : StartStep(c) \/ CloseSocket(c) \/ StopStep(c)
                      \/ Crash(c) \/ RunByHand(c)
  \/ \E h \in Hosts : EnsureCore(h) \/ SpawnFails(h) \/ CoreIsUp(h) \/ WaitTimesOut(h)
                      \/ Reload(h) \/ HostExits(h)

Spec == Init /\ [][Next]_vars

-----------------------------------------------------------------------------
(* Properties.                                                             *)

\* A core that starts never removes the socket file of a core that listened
\* when it looked, however the two and others interleave (daemon.ts,
\* clearStaleSocket: a running core is not robbed of its socket).
NoStealing ==
  [][\A c \in Cores :
       Clear(c) => file \notin before[c] \cap Listening]_vars

\* Of two cores told to use one port, as all are that are started without
\* options, the one that stops never removes the socket file of the one that
\* serves: the port it still holds keeps a successor from serving before the
\* file has been removed (daemon.ts, stop: the order of its steps).  Without a
\* port in common nothing orders the two.
StopSparesServing ==
  [][\A c, d \in Cores :
       /\ c # d
       /\ CloseSocket(c) \/ RemoveFile(c)
       /\ file = d /\ file' # d
       /\ wants[c].port = wants[d].port /\ wants[c].port # None
       => core[d] # "serving"]_vars

\* So a core that serves keeps its file, whoever comes and goes on its port.
FileIsSpared == NoStealing /\ StopSparesServing

=============================================================================
