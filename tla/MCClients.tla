----------------------------- MODULE MCClients -----------------------------
(* The cores, their clients and the connections between them for TLC.      *)
(* The race for the address and the life of one connection share no state  *)
(* beyond a core that comes and goes, so that a run follows one of them:   *)
(* part says which.                                                        *)
(*                                                                         *)
(* Address: three cores, because a thief needs a victim and a third that   *)
(* had left the file behind; two shells, so that both may start a core.    *)
(* Two ports, so that cores may have one in common or not.                 *)
(* Connection: two calls on four sockets, so that a socket can be lost     *)
(* with its reconnection still in flight; the core crashes twice.          *)
EXTENDS Connections, TLC

CONSTANTS Cores, Hosts, Ports, DefaultPort, None

ASSUME AddressAssumption == DefaultPort \in Ports /\ None \notin Cores \cup Ports

VARIABLES part, wants, proc, file, port, before, host, child

Address == INSTANCE Startup WITH core <- proc

addressVars == <<wants, proc, file, port, before, host, child>>

MCInit ==
  /\ part \in {"address", "connection"}
  /\ Init /\ Address!Init
  /\ part = "address" => who = "shell"

MCNext ==
  /\ UNCHANGED part
  /\ \/ part = "address" /\ Address!Next /\ UNCHANGED vars
     \/ part = "connection" /\ Next /\ UNCHANGED addressVars

MCSpec == MCInit /\ [][MCNext]_<<part, vars, addressVars>> /\ Fairness

\* Cores and hosts are alike.  Of the address only safety is checked; a behaviour
\* of the connection, about which there is a liveness property, leaves them all
\* as they were in the initial state, where no permutation tells them apart.
AddressSymmetry == Permutations(Cores) \cup Permutations(Hosts)

\* A core that starts never removes the socket file of a core that listened
\* when it looked, and one that stops never that of a core that serves and was
\* told to use the same port (daemon.ts, clearStaleSocket and stop).
FileIsSpared == Address!FileIsSpared
=============================================================================
