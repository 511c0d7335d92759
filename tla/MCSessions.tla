----------------------------- MODULE MCSessions -----------------------------
(* The sessions of the core and the requests of their agents, for TLC.     *)
(* What the hub needs of the kernel is which sessions are open, so that a  *)
(* behaviour follows one of the two.                                       *)
(*                                                                         *)
(* Kernel: two calls, two closes, a companion that asks and two sessions:  *)
(* two calls may race for one session, two closes for one handle, and one  *)
(* call may ask on the process of the other while that is closed.          *)
(* Requests: a permission request with a reject option, and a question,    *)
(* each in a session of its own; two clients, one that wins and one that   *)
(* is late; a policy.                                                      *)
EXTENDS Sessions, Approvals

CONSTANTS s1, s2, r1

MCRefs == {s1, s2}
MCSessionOf == [r \in Requests |-> IF r = r1 THEN s1 ELSE s2]

VARIABLE part

MCInit == part \in {"kernel", "requests"} /\ Init /\ HubInit

MCNext ==
  /\ UNCHANGED part
  /\ \/ part = "kernel" /\ Next /\ UNCHANGED hubVars
     \/ part = "requests" /\ HubNext /\ UNCHANGED vars

MCSpec ==
  /\ MCInit /\ [][MCNext]_<<part, vars, hubVars>>
  /\ Fairness
  /\ \A r \in Requests : WF_hubVars(Expire(r))
=============================================================================
