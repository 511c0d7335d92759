---------------------------- MODULE Connections ----------------------------
(***************************************************************************)
(* A client of the core and its connection: the RpcClient of the shell     *)
(* (shell/src/lib/rpc.ts), which reconnects by itself, or the CoreClient   *)
(* of a companion (companion/src/coreClient.ts), which connects when it is *)
(* called; and the core's end of it (core/src/server/rpc.ts, and attachWs, *)
(* onFrame and broadcast of daemon.ts), with crashes and restarts.         *)
(*                                                                         *)
(* Sockets are numbered in the order in which they are opened.  A socket   *)
(* that breaks is noticed by the client later, by its close event.         *)
(***************************************************************************)
EXTENDS Naturals, FiniteSets

CONSTANTS Calls,        \* requests of the client
          MaxSockets,   \* sockets a client opens
          MaxCrashes    \* crashes of the core

ASSUME BoundsAssumption == MaxSockets \in Nat /\ MaxCrashes \in Nat

VARIABLES
  who,       \* which client: the shell or a companion
  core,      \* whether the core runs
  crashes,   \* how often it has crashed
  sock,      \* each socket as the client's end of it stands
  cur,       \* RpcClient.ws, CoreClient.conn: the socket in use, 0 if none
  dial,      \* CoreClient.connecting: the socket that is being opened
  retry,     \* RpcClient.retryHandle is set
  disposed,  \* RpcClient.disposed, or the companion has gone
  call,      \* what has become of each call
  via,       \* the socket a call was sent on
  wire,      \* where the request or its response is
  conns      \* PulpoDaemon.conns

vars == <<who, core, crashes, sock, cur, dial, retry, disposed, call, via, wire, conns>>

coreVars == <<core, crashes, conns>>
wireVars == <<via, wire>>

Sockets == 1..MaxSockets

TypeOK ==
  /\ who \in {"shell", "companion"}
  /\ core \in {"up", "down"} /\ crashes \in 0..MaxCrashes
  /\ sock \in [Sockets -> {"none", "opening", "open", "broken", "shut", "gone"}]
  /\ cur \in 0..MaxSockets /\ dial \in 0..MaxSockets
  /\ retry \in BOOLEAN /\ disposed \in BOOLEAN
  /\ call \in [Calls -> {"idle", "connecting", "pending", "answered", "failed"}]
  /\ via \in [Calls -> 0..MaxSockets]
  /\ wire \in [Calls -> {"none", "request", "response"}]
  /\ conns \subseteq Sockets

Init ==
  /\ who \in {"shell", "companion"}
  /\ core = "up" /\ crashes = 0
  /\ sock = [n \in Sockets |-> "none"]
  /\ cur = 0 /\ dial = 0
  /\ retry = FALSE /\ disposed = (who = "shell")
  /\ call = [c \in Calls |-> "idle"]
  /\ via = [c \in Calls |-> 0]
  /\ wire = [c \in Calls |-> "none"]
  /\ conns = {}

-----------------------------------------------------------------------------
(* What both clients do.                                                   *)

Pending == {c \in Calls : call[c] = "pending"}
Settled(C, how) == [c \in Calls |-> IF c \in C THEN how ELSE call[c]]

NextSocket == Cardinality({n \in Sockets : sock[n] # "none"}) + 1
MayOpen == NextSocket \in Sockets

Opened(from) == [from EXCEPT ![NextSocket] = "opening"]

\* The calls in C are sent on socket n.  What is sent on a socket that has
\* broken, and is not known to have, is lost.
Sent(C, n) ==
  /\ via' = [c \in Calls |-> IF c \in C THEN n ELSE via[c]]
  /\ wire' = [c \in Calls |-> IF c \in C /\ sock'[n] = "open" THEN "request" ELSE wire[c]]

\* A socket that is being opened reaches the core or is refused.
Accepted(n) ==
  /\ sock[n] = "opening" /\ core = "up"
  /\ sock' = [sock EXCEPT ![n] = "open"]
  /\ conns' = conns \cup {n}

Broken(n) ==
  /\ sock' = [sock EXCEPT ![n] = "broken"]
  /\ UNCHANGED <<who, core, crashes, cur, dial, retry, disposed, call, wireVars, conns>>

ConnectionRefused(n) == sock[n] = "opening" /\ core = "down" /\ Broken(n)

-----------------------------------------------------------------------------
(* RpcClient.                                                              *)

\* openSocket: a timer that would open another is cleared.
OpenSocket ==
  /\ MayOpen
  /\ sock' = Opened(sock)
  /\ cur' = NextSocket
  /\ retry' = FALSE

\* AppStore.start(): the workspace is mounted; it is never mounted twice
\* without an unmount between.
Connect ==
  /\ who = "shell" /\ disposed
  /\ disposed' = FALSE
  /\ OpenSocket
  /\ UNCHANGED <<who, dial, call, wireVars, coreVars>>

RetryFires ==
  /\ who = "shell" /\ retry
  /\ OpenSocket
  /\ UNCHANGED <<who, dial, disposed, call, wireVars, coreVars>>

ShellSocketOpens(n) ==
  /\ who = "shell"
  /\ Accepted(n)
  /\ UNCHANGED <<who, core, crashes, cur, dial, retry, disposed, call, wireVars>>

\* The handlers of a socket look whether it is still the one in use.
IsCurrent(n) == cur = n

\* Mutant: calls are left to the next connection.
RejectedByNobody == call

\* handleDown: every call that is under way fails at once.
Rejected == Settled(Pending, "failed")

ShellSocketCloses(n) ==
  /\ who = "shell" /\ sock[n] \in {"broken", "shut"}
  /\ sock' = [sock EXCEPT ![n] = "gone"]
  /\ IF IsCurrent(n)
     THEN /\ cur' = 0
          /\ call' = Rejected
          /\ retry' = ~disposed
     ELSE UNCHANGED <<cur, call, retry>>
  /\ UNCHANGED <<who, dial, disposed, wireVars, coreVars>>

\* call(): refused at once if the socket is not open as far as one can see.
ShellCalls(c) ==
  /\ who = "shell" /\ call[c] = "idle"
  /\ IF cur # 0 /\ sock[cur] \in {"open", "broken"}
     THEN call' = Settled({c}, "pending") /\ UNCHANGED sock /\ Sent({c}, cur)
     ELSE call' = Settled({c}, "failed") /\ UNCHANGED <<sock, wireVars>>
  /\ UNCHANGED <<who, cur, dial, retry, disposed, coreVars>>

\* Mutant: the timer survives close().
TimerKept == retry

\* close() clears the timer.
TimerCleared == FALSE

ShellCloses ==
  /\ who = "shell" /\ ~disposed
  /\ disposed' = TRUE
  /\ retry' = TimerCleared
  /\ cur' = 0
  /\ sock' = [n \in Sockets |->
       IF n = cur /\ sock[n] \in {"opening", "open"} THEN "shut" ELSE sock[n]]
  /\ conns' = conns \ {cur}
  /\ call' = Rejected
  /\ UNCHANGED <<who, dial, wireVars, core, crashes>>

-----------------------------------------------------------------------------
(* CoreClient.                                                             *)

\* Calls that find no connection share one attempt to connect.
CompanionCalls(c) ==
  /\ who = "companion" /\ call[c] = "idle" /\ ~disposed
  /\ IF cur # 0
     THEN call' = Settled({c}, "pending") /\ UNCHANGED <<sock, dial>> /\ Sent({c}, cur)
     ELSE /\ call' = Settled({c}, "connecting")
          /\ IF dial # 0
             THEN UNCHANGED <<sock, dial>>
             ELSE MayOpen /\ sock' = Opened(sock) /\ dial' = NextSocket
          /\ UNCHANGED wireVars
  /\ UNCHANGED <<who, cur, retry, disposed, coreVars>>

\* Connected: the calls that waited are sent.
CompanionSocketOpens(n) ==
  /\ who = "companion"
  /\ Accepted(n)
  /\ cur' = n
  /\ dial' = 0
  /\ LET waiting == {c \in Calls : call[c] = "connecting"}
     IN  call' = Settled(waiting, "pending") /\ Sent(waiting, n)
  /\ UNCHANGED <<who, retry, disposed, core, crashes>>

\* The error and the close event of a socket; onDisconnect does not ask
\* whether the socket is the one in use.
CompanionSocketCloses(n) ==
  /\ who = "companion" /\ sock[n] \in {"broken", "shut"}
  /\ sock' = [sock EXCEPT ![n] = "gone"]
  /\ cur' = 0
  /\ dial' = IF dial = n THEN 0 ELSE dial
  /\ call' = Settled(Pending \cup
                     {c \in Calls : call[c] = "connecting" /\ dial = n}, "failed")
  /\ UNCHANGED <<who, retry, disposed, wireVars, coreVars>>

\* The timer of a call; only calls of a companion have one.
CallTimesOut(c) ==
  /\ who = "companion" /\ call[c] = "pending"
  /\ call' = Settled({c}, "failed")
  /\ UNCHANGED <<who, sock, cur, dial, retry, disposed, wireVars, coreVars>>

\* main() of the companion ends with its agent.
CompanionCloses ==
  /\ who = "companion" /\ ~disposed
  /\ disposed' = TRUE
  /\ cur' = 0
  /\ sock' = [n \in Sockets |-> IF n = cur /\ sock[n] = "open" THEN "shut" ELSE sock[n]]
  /\ conns' = conns \ {cur}
  /\ UNCHANGED <<who, dial, retry, call, wireVars, core, crashes>>

-----------------------------------------------------------------------------
(* The core.                                                               *)

\* onFrame and handle: every request is answered, with a result or an error,
\* when its handler is done; on a connection that is closed nothing is sent.
CoreAnswers(c) ==
  /\ wire[c] = "request" /\ core = "up"
  /\ wire' = [wire EXCEPT ![c] = IF via[c] \in conns THEN "response" ELSE "none"]
  /\ UNCHANGED <<who, core, crashes, sock, cur, dial, retry, disposed, call, via, conns>>

\* handleMessage and onMessage: the response of a call that is still under
\* way settles it; the shell looks at nothing from another socket.
Receive(c) ==
  /\ wire[c] = "response" /\ sock[via[c]] = "open"
  /\ wire' = [wire EXCEPT ![c] = "none"]
  /\ call' = IF call[c] = "pending" /\ (who = "shell" => IsCurrent(via[c]))
             THEN Settled({c}, "answered")
             ELSE call
  /\ UNCHANGED <<who, sock, cur, dial, retry, disposed, via, coreVars>>

CoreCrashes ==
  /\ core = "up" /\ crashes < MaxCrashes
  /\ core' = "down"
  /\ crashes' = crashes + 1
  /\ conns' = {}
  /\ sock' = [n \in Sockets |-> IF sock[n] = "open" THEN "broken" ELSE sock[n]]
  /\ wire' = [c \in Calls |-> "none"]
  /\ UNCHANGED <<who, cur, dial, retry, disposed, call, via>>

CoreRestarts ==
  /\ core = "down"
  /\ core' = "up"
  /\ UNCHANGED <<who, crashes, sock, cur, dial, retry, disposed, call, wireVars, conns>>

-----------------------------------------------------------------------------
Shell ==
  \/ Connect \/ RetryFires \/ ShellCloses
  \/ \E n \in Sockets : ShellSocketOpens(n) \/ ShellSocketCloses(n)
  \/ \E c \in Calls : ShellCalls(c)

Companion ==
  \/ CompanionCloses
  \/ \E n \in Sockets : CompanionSocketOpens(n) \/ CompanionSocketCloses(n)
  \/ \E c \in Calls : CompanionCalls(c) \/ CallTimesOut(c)

Core ==
  \/ CoreCrashes \/ CoreRestarts
  \/ \E n \in Sockets : ConnectionRefused(n)
  \/ \E c \in Calls : CoreAnswers(c) \/ Receive(c)

Next == Shell \/ Companion \/ Core

\* Events and timers are delivered, the core answers and is started again.
Fairness ==
  /\ WF_vars(RetryFires) /\ WF_vars(CoreRestarts)
  /\ \A n \in Sockets :
       /\ WF_vars(ShellSocketOpens(n) \/ CompanionSocketOpens(n) \/ ConnectionRefused(n))
       /\ WF_vars(ShellSocketCloses(n) \/ CompanionSocketCloses(n))
  /\ \A c \in Calls : WF_vars(CoreAnswers(c)) /\ WF_vars(Receive(c))

Spec == Init /\ [][Next]_vars /\ Fairness

-----------------------------------------------------------------------------
(* Properties.                                                             *)

\* A call that is under way hangs on a socket whose loss the client will
\* still notice: the one in use, for the shell, which has no timers.
NothingHangs ==
  \A c \in Pending :
    /\ sock[via[c]] \in {"open", "broken", "shut"}
    /\ who = "shell" => via[c] = cur

\* A shell that is not closed has a socket or the timer that will open one,
\* and never both; neither client has a second connection it knows nothing of.
OneWayBack ==
  /\ who = "shell" =>
       /\ disposed => cur = 0 /\ ~retry
       /\ ~disposed => (cur = 0) = retry
  /\ \A n \in Sockets : sock[n] \in {"opening", "open"} => n \in {cur, dial}

\* The client loses sight of nothing: no call can wait for ever, no socket is
\* left open and no way back is missing, however connects, closes, retries
\* and the close events of old sockets interleave (rpc.ts, openSocket,
\* handleDown, close; coreClient.ts, connect, onDisconnect).
NothingIsForgotten == NothingHangs /\ OneWayBack

\* Every call is settled, though the shell has no timers and the core may
\* crash while it answers; and a shell that is not closed is connected again
\* and again, as long as it may open sockets (rpc.ts, handleDown).
ClientsRecover ==
  /\ \A c \in Calls :
       call[c] \in {"connecting", "pending"} ~> call[c] \in {"answered", "failed"}
  /\ who = "shell" /\ ~disposed /\ MayOpen
       ~> disposed \/ ~MayOpen \/ (cur # 0 /\ sock[cur] = "open")
=============================================================================
