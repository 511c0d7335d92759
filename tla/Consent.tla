------------------------------ MODULE Consent ------------------------------
(***************************************************************************)
(* What the approval hub promises, whatever clients, timers, cancellations *)
(* and a stopping core do: a request is settled once and for good, and it  *)
(* is granted only by somebody who may grant it.                           *)
(***************************************************************************)
CONSTANTS
  Requests,      \* requests agents make
  Deciders,      \* everything that can settle a request
  Authorities    \* the deciders that may grant one

VARIABLES
  status,  \* status[r]: "none", "open", "granted" or "denied"
  by       \* by[r]: who settled r

Nobody == "nobody"

vars == <<status, by>>

Init ==
  /\ status = [r \in Requests |-> "none"]
  /\ by = [r \in Requests |-> Nobody]

Ask(r) ==
  /\ status[r] = "none"
  /\ status' = [status EXCEPT ![r] = "open"]
  /\ UNCHANGED by

(* A set of requests is settled by one decider, at once. *)
Decide(settled, who) ==
  /\ \A r \in settled : status[r] \in {"none", "open"}
  /\ \A r \in Requests \ settled : status'[r] = status[r] /\ by'[r] = by[r]
  /\ \A r \in settled :
       /\ by'[r] = who
       /\ status'[r] \in {"denied"} \cup (IF who \in Authorities THEN {"granted"} ELSE {})

Next ==
  \/ \E r \in Requests : Ask(r)
  \/ \E settled \in SUBSET Requests, who \in Deciders : Decide(settled, who)

Spec == Init /\ [][Next]_vars
=============================================================================
