--------------------------- MODULE Clients_proofs ---------------------------
(***************************************************************************)
(* Proofs about the cores and their clients: the race for the socket file  *)
(* and the port (Startup, here as Address), and the life of a connection   *)
(* (Connections).                                                          *)
(***************************************************************************)
EXTENDS MCClients, FiniteSetTheorems, TLAPS

-----------------------------------------------------------------------------
(* The address.                                                            *)

\* Who stops still has the port it served on, if it was told to use one.
PortIsHeld ==
  \A c \in Cores :
    proc[c] \in {"serving", "closing", "closed"} /\ wants[c].port # None
      => port[wants[c].port] = c

\* A core that was seen to listen never comes to bind the file again.
HaveBound ==
  \A c \in Cores : \A d \in before[c] :
    proc[d] \notin {"none", "starting", "probing", "clearing", "binding"}

\* What a core is about to remove is not a file that was answered for.
ClearsLeftovers ==
  \A c \in Cores :
    proc[c] = "clearing" => file \notin before[c] \cap Address!Listening

AddressInv == Address!TypeOK /\ PortIsHeld /\ HaveBound /\ ClearsLeftovers

-----------------------------------------------------------------------------
(* The connection.                                                         *)

\* Sockets are numbered as they are opened.
OpenedInOrder ==
  \E k \in 0..MaxSockets : \A n \in Sockets : (sock[n] # "none") <=> (n <= k)

\* The shell closes the socket in use only together with letting go of it.
ShellSees ==
  who = "shell" =>
    /\ dial = 0
    /\ cur # 0 => sock[cur] \in {"opening", "open", "broken"}

\* A companion that can no longer connect.
HasEnded == disposed /\ cur = 0 /\ dial = 0

\* A companion has one socket at a time, so that it does no harm that the
\* close event of any socket makes it forget the one in use.
CompanionSees ==
  who = "companion" =>
    /\ cur = 0 \/ dial = 0
    /\ cur # 0 => sock[cur] \in {"open", "broken"}
    /\ dial # 0 => sock[dial] \in {"opening", "broken"}
    /\ \A n \in Sockets : sock[n] = "broken" => n \in {cur, dial} \/ HasEnded
    /\ \A n \in Sockets : sock[n] = "shut" => HasEnded

\* A call that is under way was sent on a socket.
PendingIsSent == \A c \in Pending : via[c] \in Sockets

ConnectionInv ==
  /\ TypeOK /\ OpenedInOrder
  /\ ShellSees /\ CompanionSees /\ PendingIsSent
  /\ NothingIsForgotten

-----------------------------------------------------------------------------
(* Steps of the address.                                                   *)

\* The invariant holds before any core has started.
LEMMA AddressInitial == Address!Init => AddressInv
BY AddressAssumption
DEF Address!Init, Address!Defaults, Address!Options, AddressInv, Address!TypeOK, PortIsHeld,
    HaveBound, ClearsLeftovers

\* A core that looks, asks, removes or binds leaves the invariant as it is:
\* who binds has not been seen to listen by anybody.
LEMMA StartPreserves ==
  ASSUME AddressInv, NEW c \in Cores, Address!StartStep(c)
  PROVE  AddressInv'
<1> USE AddressAssumption DEF AddressInv, Address!TypeOK, PortIsHeld, HaveBound, ClearsLeftovers,
        Address!Listening, Address!Goes, Address!hostVars
<1>1. CASE Address!Look(c)
  BY <1>1 DEF Address!Look
<1>2. CASE Address!Probe(c)
  BY <1>2 DEF Address!Probe, Address!Answers
<1>3. CASE Address!Clear(c)
  BY <1>3 DEF Address!Clear
<1>4. CASE Address!Bind(c)
  BY <1>4 DEF Address!Bind
<1>5. CASE Address!BindPort(c)
  <2>1. wants[c].port \in Ports
    BY <1>5 DEF Address!BindPort, Address!Options
  <2> QED
    BY <1>5, <2>1 DEF Address!BindPort
<1>6. CASE Address!NoSocket(c)
  BY <1>6 DEF Address!NoSocket
<1>7. CASE Address!NoPort(c)
  BY <1>7 DEF Address!NoPort
<1> QED
  BY <1>1, <1>2, <1>3, <1>4, <1>5, <1>6, <1>7 DEF Address!StartStep

\* So does a core that stops.
LEMMA StopPreserves ==
  ASSUME AddressInv, NEW c \in Cores, Address!CloseSocket(c) \/ Address!StopStep(c)
  PROVE  AddressInv'
<1> USE AddressAssumption DEF AddressInv, Address!TypeOK, PortIsHeld, HaveBound, ClearsLeftovers,
        Address!Listening, Address!Goes, Address!hostVars
<1>1. CASE Address!CloseSocket(c)
  BY <1>1 DEF Address!CloseSocket
<1>2. CASE Address!RemoveFile(c)
  BY <1>2 DEF Address!RemoveFile
<1>3. CASE Address!ClosePort(c)
  BY <1>3 DEF Address!ClosePort, Address!Released, Address!Options
<1> QED
  BY <1>1, <1>2, <1>3 DEF Address!StopStep

\* Whatever cores die, and whatever becomes of the shells.
LEMMA GonePreserves ==
  ASSUME AddressInv, NEW C \in SUBSET Cores, Address!Gone(C),
         host' \in [Hosts -> {"idle", "waiting", "ready", "failed", "gone"}],
         child' \in [Hosts -> Cores \cup {None}]
  PROVE  AddressInv'
<1> USE AddressAssumption DEF AddressInv, Address!TypeOK, PortIsHeld, HaveBound, ClearsLeftovers,
        Address!Listening, Address!Gone, Address!Released
<1>1. /\ proc' \in [Cores -> {"none", "starting", "probing", "clearing", "binding",
                              "onSocket", "serving", "closing", "closed", "gone"}]
      /\ \A c \in Cores : proc'[c] # proc[c] => c \in C /\ proc'[c] = "gone"
      /\ \A c \in Cores : c \in C => proc'[c] \in {"none", "gone"}
  BY DEF Address!Alive
<1>2. Address!TypeOK'
  BY <1>1
<1>3. PortIsHeld'
  <2> SUFFICES ASSUME NEW c \in Cores, proc'[c] \in {"serving", "closing", "closed"},
                      wants'[c].port # None
               PROVE  port'[wants'[c].port] = c
    OBVIOUS
  <2>1. c \notin C /\ proc[c] = proc'[c]
    BY <1>1
  <2>2. wants' = wants /\ wants[c].port \in Ports
    BY DEF Address!Options
  <2> QED
    BY <2>1, <2>2
<1>4. HaveBound'
  BY <1>1
<1>5. ClearsLeftovers'
  BY <1>1
<1> QED
  BY <1>2, <1>3, <1>4, <1>5

\* The steps of a shell that leave the cores alone, or start one.
LEMMA HostPreserves ==
  ASSUME AddressInv, NEW h \in Hosts,
         \/ Address!EnsureCore(h) \/ Address!SpawnFails(h) \/ Address!CoreIsUp(h)
         \/ Address!WaitTimesOut(h) \/ Address!Reload(h)
  PROVE  AddressInv'
<1> USE DEF AddressInv, Address!TypeOK, PortIsHeld, HaveBound, ClearsLeftovers,
        Address!Listening, Address!Goes, Address!coreVars
<1>1. CASE Address!EnsureCore(h)
  <2>1. CASE proc' = proc /\ child' = child
    BY <1>1, <2>1 DEF Address!EnsureCore
  <2>2. CASE \E c \in Cores : /\ proc[c] = "none"
                              /\ proc' = [proc EXCEPT ![c] = "starting"]
                              /\ child' = [child EXCEPT ![h] = c]
    BY <1>1, <2>2 DEF Address!EnsureCore
  <2> QED
    BY <1>1, <2>1, <2>2 DEF Address!EnsureCore
<1>2. CASE Address!SpawnFails(h)
  BY <1>2 DEF Address!SpawnFails
<1>3. CASE Address!CoreIsUp(h) \/ Address!WaitTimesOut(h) \/ Address!Reload(h)
  BY <1>3 DEF Address!CoreIsUp, Address!WaitTimesOut, Address!Reload
<1> QED
  BY <1>1, <1>2, <1>3

\* Every step of the cores and the shells preserves the invariant.
LEMMA AddressPreserved ==
  ASSUME AddressInv, [Address!Next]_addressVars
  PROVE  AddressInv'
<1>1. CASE UNCHANGED addressVars
  BY <1>1 DEF addressVars, AddressInv, Address!TypeOK, PortIsHeld, HaveBound, ClearsLeftovers,
     Address!Listening
<1>2. ASSUME NEW c \in Cores, Address!Crash(c)
      PROVE  AddressInv'
  BY <1>2, GonePreserves DEF Address!Crash, Address!hostVars, AddressInv, Address!TypeOK
<1>3. ASSUME NEW c \in Cores, Address!RunByHand(c)
      PROVE  AddressInv'
  <2> USE <1>3 DEF Address!RunByHand, Address!Goes, Address!hostVars, AddressInv,
          Address!TypeOK, PortIsHeld, HaveBound, ClearsLeftovers, Address!Listening
  <2>1. PICK w \in Address!Options : wants' = [wants EXCEPT ![c] = w]
    OBVIOUS
  <2>2. /\ proc[c] = "none" /\ proc' = [proc EXCEPT ![c] = "starting"]
        /\ \A d \in Cores \ {c} : wants'[d] = wants[d] /\ proc'[d] = proc[d]
    BY <2>1
  <2>3. Address!TypeOK'
    BY <2>1, <2>2
  <2>4. PortIsHeld'
    BY <2>2
  <2>5. HaveBound'
    BY <2>2
  <2>6. ClearsLeftovers'
    BY <2>2
  <2> QED
    BY <2>3, <2>4, <2>5, <2>6
<1>4. ASSUME NEW h \in Hosts, Address!HostExits(h)
      PROVE  AddressInv'
  <2>1. Address!Spawned(h) \in SUBSET Cores
    BY DEF Address!Spawned, AddressInv, Address!TypeOK
  <2> QED
    BY <1>4, <2>1, GonePreserves DEF Address!HostExits, AddressInv, Address!TypeOK
<1> QED
  BY <1>1, <1>2, <1>3, <1>4, StartPreserves, StopPreserves, HostPreserves DEF Address!Next

\* The types of the cores, of what they share and of the shells hold in every
\* state (PulpoDaemon.start and stop, ensure_core).
THEOREM AddressTypeCorrect == Address!Spec => []Address!TypeOK
<1>1. Address!Init => AddressInv
  BY AddressInitial
<1>2. AddressInv /\ [Address!Next]_addressVars => AddressInv'
  BY AddressPreserved
<1>3. AddressInv => Address!TypeOK
  BY DEF AddressInv
<1> QED
  BY <1>1, <1>2, <1>3, PTL DEF Address!Spec, Address!vars, addressVars

\* No core that starts removes the file of one that it saw listening, and of
\* two cores told to use one port the one that stops never that of the one that
\* serves, with any number of cores, ports and shells and any options (daemon.ts,
\* clearStaleSocket and stop).
THEOREM FileIsSparedHolds == Address!Spec => FileIsSpared
<1>1. Address!Init => AddressInv
  BY AddressInitial
<1>2. AddressInv /\ [Address!Next]_addressVars => AddressInv'
  BY AddressPreserved
<1>3. AddressInv /\ [Address!Next]_addressVars =>
        [\A c \in Cores : Address!Clear(c) => file \notin before[c] \cap Address!Listening]_addressVars
  BY DEF AddressInv, ClearsLeftovers, Address!Clear
<1>4. AddressInv /\ [Address!Next]_addressVars =>
        [\A c, d \in Cores :
           /\ c # d
           /\ Address!CloseSocket(c) \/ Address!RemoveFile(c)
           /\ file = d /\ file' # d
           /\ wants[c].port = wants[d].port /\ wants[c].port # None
           => proc[d] # "serving"]_addressVars
  <2> SUFFICES ASSUME AddressInv, NEW c \in Cores, NEW d \in Cores, c # d,
                      proc[c] \in {"serving", "closing"},
                      wants[c].port = wants[d].port, wants[c].port # None
               PROVE  proc[d] # "serving"
    BY DEF Address!CloseSocket, Address!RemoveFile
  <2> QED
    BY DEF AddressInv, PortIsHeld
<1> QED
  BY <1>1, <1>2, <1>3, <1>4, PTL
  DEF Address!Spec, Address!vars, addressVars, FileIsSpared, Address!FileIsSpared,
      Address!NoStealing, Address!StopSparesServing

-----------------------------------------------------------------------------
(* Steps of the connection.                                                *)

\* The invariant holds before the first socket.
LEMMA ConnectionInitial == Init => ConnectionInv
<1> SUFFICES ASSUME Init PROVE ConnectionInv
  OBVIOUS
<1>1. TypeOK
  <2>1. retry \in BOOLEAN /\ disposed \in BOOLEAN
    BY DEF Init
  <2>2. /\ who \in {"shell", "companion"} /\ core = "up" /\ crashes = 0
        /\ sock = [n \in Sockets |-> "none"] /\ cur = 0 /\ dial = 0
        /\ call = [c \in Calls |-> "idle"] /\ via = [c \in Calls |-> 0]
        /\ wire = [c \in Calls |-> "none"] /\ conns = {}
    BY DEF Init
  <2> QED
    BY <2>1, <2>2, BoundsAssumption DEF TypeOK
<1>2. OpenedInOrder
  <2>1. 0 \in 0..MaxSockets /\ \A n \in Sockets : (sock[n] # "none") <=> (n <= 0)
    BY BoundsAssumption DEF Init, Sockets
  <2> QED
    BY <2>1 DEF OpenedInOrder
<1> QED
  BY <1>1, <1>2 DEF Init, ConnectionInv, ShellSees, CompanionSees, PendingIsSent, Pending,
     NothingIsForgotten, NothingHangs, OneWayBack

\* The next socket has not been opened, and the numbering goes on with it.
LEMMA NextSocketIsNew ==
  ASSUME TypeOK, OpenedInOrder, MayOpen
  PROVE  /\ NextSocket \in Sockets
         /\ sock[NextSocket] = "none"
         /\ sock' = Opened(sock) => OpenedInOrder'
<1>1. PICK k \in 0..MaxSockets : \A n \in Sockets : (sock[n] # "none") <=> (n <= k)
  BY DEF OpenedInOrder
<1>2. {n \in Sockets : sock[n] # "none"} = 1..k
  BY <1>1, BoundsAssumption DEF Sockets
<1>3. Cardinality(1..k) = k
  BY FS_Interval, BoundsAssumption
<1>4. NextSocket = k + 1
  BY <1>2, <1>3 DEF NextSocket
<1>5. k + 1 \in Sockets
  BY <1>4 DEF MayOpen
<1>6. sock[k + 1] = "none"
  BY <1>1, <1>5, BoundsAssumption
<1>7. ASSUME sock' = Opened(sock)
      PROVE  OpenedInOrder'
  <2>1. \A n \in Sockets : sock'[n] = IF n = k + 1 THEN "opening" ELSE sock[n]
    BY <1>7, <1>4 DEF Opened, TypeOK
  <2>2. \A n \in Sockets : (sock'[n] # "none") <=> (n <= k + 1)
    BY <2>1, <1>1, <1>5, BoundsAssumption DEF Sockets
  <2> QED
    BY <2>2, <1>5, BoundsAssumption DEF OpenedInOrder, Sockets
<1> QED
  BY <1>4, <1>5, <1>6, <1>7

\* The numbering is that of the sockets opened so far, whatever becomes of them.
LEMMA OrderIsKept ==
  ASSUME OpenedInOrder, \A n \in Sockets : (sock'[n] = "none") <=> (sock[n] = "none")
  PROVE  OpenedInOrder'
BY DEF OpenedInOrder

\* Both clients open a socket with nothing else open.
LEMMA ConnectPreserves ==
  ASSUME ConnectionInv, Connect \/ RetryFires
  PROVE  ConnectionInv'
<1>1. /\ who = "shell" /\ cur = 0 /\ dial = 0
      /\ MayOpen /\ sock' = Opened(sock) /\ cur' = NextSocket
      /\ retry' = FALSE /\ disposed' = FALSE
      /\ UNCHANGED <<who, dial, call, via, wire, core, crashes, conns>>
  BY DEF Connect, RetryFires, OpenSocket, ConnectionInv, ShellSees, NothingIsForgotten,
     OneWayBack, TypeOK, wireVars, coreVars
<1>2. /\ NextSocket \in Sockets /\ sock[NextSocket] = "none" /\ OpenedInOrder'
  BY <1>1, NextSocketIsNew DEF ConnectionInv
<1>3. \A n \in Sockets : sock'[n] = IF n = NextSocket THEN "opening" ELSE sock[n]
  BY <1>1 DEF Opened, ConnectionInv, TypeOK
<1>4. Pending = {}
  BY <1>1, BoundsAssumption
  DEF ConnectionInv, NothingIsForgotten, NothingHangs, PendingIsSent, Sockets
<1>5. TypeOK'
  <2>1. sock' \in [Sockets -> {"none", "opening", "open", "broken", "shut", "gone"}]
    BY <1>1 DEF Opened, ConnectionInv, TypeOK
  <2>2. NextSocket \in 0..MaxSockets
    BY <1>2, BoundsAssumption DEF Sockets
  <2> QED
    BY <1>1, <2>1, <2>2 DEF ConnectionInv, TypeOK
<1>6. Pending' = {}
  BY <1>1, <1>4 DEF Pending
<1>7. ShellSees' /\ CompanionSees' /\ PendingIsSent' /\ NothingHangs'
  BY <1>1, <1>2, <1>3, <1>6 DEF ShellSees, CompanionSees, PendingIsSent, NothingHangs
<1>8. OneWayBack'
  <2>1. cur' # 0
    BY <1>1, <1>2, BoundsAssumption DEF Sockets
  <2>2. ASSUME NEW n \in Sockets, sock'[n] \in {"opening", "open"}
        PROVE  n = NextSocket
    BY <2>2, <1>1, <1>3, BoundsAssumption
    DEF ConnectionInv, NothingIsForgotten, OneWayBack, Sockets
  <2> QED
    BY <1>1, <2>1, <2>2 DEF OneWayBack
<1> QED
  BY <1>2, <1>5, <1>7, <1>8 DEF ConnectionInv, NothingIsForgotten

\* The events of a socket of the shell: only those of the one in use count.
LEMMA ShellSocketPreserves ==
  ASSUME ConnectionInv, NEW n \in Sockets, ShellSocketOpens(n) \/ ShellSocketCloses(n)
  PROVE  ConnectionInv'
<1> USE BoundsAssumption DEF ConnectionInv, TypeOK, ShellSees, CompanionSees, PendingIsSent,
        NothingIsForgotten, NothingHangs, OneWayBack, Pending, Sockets, wireVars, coreVars
<1>1. CASE ShellSocketOpens(n)
  <2>1. OpenedInOrder'
    BY <1>1, OrderIsKept DEF ShellSocketOpens, Accepted
  <2> QED
    BY <1>1, <2>1 DEF ShellSocketOpens, Accepted
<1>2. CASE ShellSocketCloses(n)
  <2>1. OpenedInOrder'
    BY <1>2, OrderIsKept DEF ShellSocketCloses
  <2>2. CASE IsCurrent(n)
    BY <1>2, <2>1, <2>2 DEF ShellSocketCloses, IsCurrent, Rejected, Settled
  <2>3. CASE ~IsCurrent(n)
    BY <1>2, <2>1, <2>3 DEF ShellSocketCloses, IsCurrent
  <2> QED
    BY <2>2, <2>3
<1> QED
  BY <1>1, <1>2

\* A call of the shell is sent on the socket in use, or fails; close() fails
\* those that are under way.
LEMMA ShellCallPreserves ==
  ASSUME ConnectionInv, ShellCloses \/ \E c \in Calls : ShellCalls(c)
  PROVE  ConnectionInv'
<1> USE BoundsAssumption DEF ConnectionInv, TypeOK, ShellSees, CompanionSees, PendingIsSent,
        NothingIsForgotten, NothingHangs, OneWayBack, Pending, Sockets, wireVars, coreVars
<1>1. ASSUME NEW c \in Calls, ShellCalls(c)
      PROVE  ConnectionInv'
  <2>1. OpenedInOrder'
    BY <1>1, OrderIsKept DEF ShellCalls
  <2>2. CASE cur # 0 /\ sock[cur] \in {"open", "broken"}
    <3>1. /\ call' = [x \in Calls |-> IF x = c THEN "pending" ELSE call[x]]
          /\ via' = [x \in Calls |-> IF x = c THEN cur ELSE via[x]]
          /\ \A x \in Calls : wire'[x] \in {"request", wire[x]}
          /\ wire' \in [Calls -> {"none", "request", "response"}]
          /\ UNCHANGED <<who, sock, cur, dial, retry, disposed, core, crashes, conns>>
      BY <1>1, <2>2 DEF ShellCalls, Settled, Sent
    <3> QED
      BY <1>1, <2>1, <2>2, <3>1 DEF ShellCalls
  <2>3. CASE ~(cur # 0 /\ sock[cur] \in {"open", "broken"})
    BY <1>1, <2>1, <2>3 DEF ShellCalls, Settled
  <2> QED
    BY <2>2, <2>3
<1>2. CASE ShellCloses
  <2>1. OpenedInOrder'
    BY <1>2, OrderIsKept DEF ShellCloses
  <2> QED
    BY <1>2, <2>1 DEF ShellCloses, Rejected, Settled, TimerCleared
<1> QED
  BY <1>1, <1>2

\* The events of a socket of a companion, which has no other.
LEMMA CompanionSocketPreserves ==
  ASSUME ConnectionInv, NEW n \in Sockets, CompanionSocketOpens(n) \/ CompanionSocketCloses(n)
  PROVE  ConnectionInv'
<1> USE BoundsAssumption DEF ConnectionInv, TypeOK, ShellSees, CompanionSees, HasEnded,
        PendingIsSent, NothingIsForgotten, NothingHangs, OneWayBack, Pending, Sockets,
        wireVars, coreVars
<1>1. CASE CompanionSocketOpens(n)
  <2>1. OpenedInOrder'
    BY <1>1, OrderIsKept DEF CompanionSocketOpens, Accepted
  <2> QED
    BY <1>1, <2>1 DEF CompanionSocketOpens, Accepted, Settled, Sent
<1>2. CASE CompanionSocketCloses(n)
  <2>1. OpenedInOrder'
    BY <1>2, OrderIsKept DEF CompanionSocketCloses
  <2> QED
    BY <1>2, <2>1 DEF CompanionSocketCloses, Settled
<1> QED
  BY <1>1, <1>2

\* A call of a companion is sent, waits for the one attempt to connect, or
\* begins it; and the companion ends with its agent.
LEMMA CompanionCallPreserves ==
  ASSUME ConnectionInv, CompanionCloses \/ \E c \in Calls : CompanionCalls(c) \/ CallTimesOut(c)
  PROVE  ConnectionInv'
<1> USE BoundsAssumption DEF ConnectionInv, TypeOK, ShellSees, CompanionSees, HasEnded,
        PendingIsSent, NothingIsForgotten, NothingHangs, OneWayBack, Pending, Sockets,
        wireVars, coreVars
<1>1. ASSUME NEW c \in Calls, CompanionCalls(c)
      PROVE  ConnectionInv'
  <2>1. CASE cur = 0 /\ dial = 0
    <3>1. MayOpen /\ sock' = Opened(sock)
      BY <1>1, <2>1 DEF CompanionCalls
    <3>2. /\ NextSocket \in Sockets /\ sock[NextSocket] = "none" /\ OpenedInOrder'
      BY <3>1, NextSocketIsNew
    <3> QED
      BY <1>1, <2>1, <3>1, <3>2 DEF CompanionCalls, Settled, Opened
  <2>2. CASE ~(cur = 0 /\ dial = 0)
    <3>1. OpenedInOrder'
      BY <1>1, <2>2, OrderIsKept DEF CompanionCalls
    <3> QED
      BY <1>1, <2>2, <3>1 DEF CompanionCalls, Settled, Sent
  <2> QED
    BY <2>1, <2>2
<1>2. ASSUME NEW c \in Calls, CallTimesOut(c)
      PROVE  ConnectionInv'
  <2>1. OpenedInOrder'
    BY <1>2, OrderIsKept DEF CallTimesOut
  <2> QED
    BY <1>2, <2>1 DEF CallTimesOut, Settled
<1>3. CASE CompanionCloses
  <2>1. OpenedInOrder'
    BY <1>3, OrderIsKept DEF CompanionCloses
  <2> QED
    BY <1>3, <2>1 DEF CompanionCloses
<1> QED
  BY <1>1, <1>2, <1>3

\* What the core does to the connection, its crashes and restarts included.
LEMMA CorePreserves ==
  ASSUME ConnectionInv, Core
  PROVE  ConnectionInv'
<1> USE BoundsAssumption DEF ConnectionInv, TypeOK, ShellSees, CompanionSees, HasEnded,
        PendingIsSent, NothingIsForgotten, NothingHangs, OneWayBack, Pending, Sockets,
        wireVars, coreVars
<1>1. CASE CoreCrashes
  <2>1. OpenedInOrder'
    BY <1>1, OrderIsKept DEF CoreCrashes
  <2> QED
    BY <1>1, <2>1 DEF CoreCrashes
<1>2. CASE CoreRestarts
  <2>1. OpenedInOrder'
    BY <1>2, OrderIsKept DEF CoreRestarts
  <2> QED
    BY <1>2, <2>1 DEF CoreRestarts
<1>3. ASSUME NEW n \in Sockets, ConnectionRefused(n)
      PROVE  ConnectionInv'
  <2>1. OpenedInOrder'
    BY <1>3, OrderIsKept DEF ConnectionRefused, Broken
  <2> QED
    BY <1>3, <2>1 DEF ConnectionRefused, Broken
<1>4. ASSUME NEW c \in Calls, CoreAnswers(c) \/ Receive(c)
      PROVE  ConnectionInv'
  <2>1. OpenedInOrder'
    BY <1>4, OrderIsKept DEF CoreAnswers, Receive
  <2>2. CASE CoreAnswers(c)
    BY <2>1, <2>2 DEF CoreAnswers
  <2>3. CASE Receive(c)
    BY <2>1, <2>3 DEF Receive, Settled
  <2> QED
    BY <1>4, <2>2, <2>3
<1> QED
  BY <1>1, <1>2, <1>3, <1>4 DEF Core

\* Every step of a client and of the core preserves the invariant.
LEMMA ConnectionPreserved ==
  ASSUME ConnectionInv, [Next]_vars
  PROVE  ConnectionInv'
<1>1. CASE UNCHANGED vars
  BY <1>1, OrderIsKept DEF vars, wireVars, coreVars, ConnectionInv, TypeOK, ShellSees,
     CompanionSees, HasEnded, PendingIsSent, NothingIsForgotten, NothingHangs, OneWayBack, Pending
<1>2. CASE Shell
  BY <1>2, ConnectPreserves, ShellSocketPreserves, ShellCallPreserves DEF Shell
<1>3. CASE Companion
  BY <1>3, CompanionSocketPreserves, CompanionCallPreserves DEF Companion
<1> QED
  BY <1>1, <1>2, <1>3, CorePreserves DEF Next

\* The types of a client, its sockets and its calls hold in every state
\* (rpc.ts and coreClient.ts).
THEOREM ConnectionTypeCorrect == Spec => []TypeOK
<1>1. Init => ConnectionInv
  BY ConnectionInitial
<1>2. ConnectionInv /\ [Next]_vars => ConnectionInv'
  BY ConnectionPreserved
<1>3. ConnectionInv => TypeOK
  BY DEF ConnectionInv
<1> QED
  BY <1>1, <1>2, <1>3, PTL DEF Spec

\* A client loses sight of no call, of no open socket and of no way back to
\* the core, with any number of calls, sockets and crashes (rpc.ts,
\* openSocket, handleDown, close; coreClient.ts, connect, onDisconnect).
THEOREM NothingIsForgottenHolds == Spec => []NothingIsForgotten
<1>1. Init => ConnectionInv
  BY ConnectionInitial
<1>2. ConnectionInv /\ [Next]_vars => ConnectionInv'
  BY ConnectionPreserved
<1>3. ConnectionInv => NothingIsForgotten
  BY DEF ConnectionInv
<1> QED
  BY <1>1, <1>2, <1>3, PTL DEF Spec

=============================================================================
