----------------------------- MODULE Approvals -----------------------------
(***************************************************************************)
(* The approval channel: permission requests and questions of the agents   *)
(* (ApprovalHub.request), the clients that answer them, the timer, the     *)
(* cancellation of a session and the stop of the core.                     *)
(*                                                                         *)
(* A decision is given to the agent in the microtasks that follow it, so   *)
(* settling and answering are one action.  The notification that a cancel  *)
(* awaits and the awaits of stop() are boundaries between actions.         *)
(***************************************************************************)
CONSTANTS
  Refs,         \* open sessions
  Requests,         \* requests agents make
  SessionOf,        \* SessionOf[r]: the session r is asked in
  Questions,        \* the requests that are elicitations
  Rejectable,       \* the requests whose options have a reject kind
  Clients,          \* connected clients
  PolicyDecisions   \* what approvalPolicy may decide; {} without a policy

(* A selected option counts as allow or reject, by its kind. *)
PermissionWords == {"allow", "reject", "cancelled"}
ElicitationWords == {"accept", "decline"}
Decisions == PermissionWords \cup ElicitationWords

Settlers == {"policy", "client", "timeout", "cancel", "shutdown"}

ASSUME ApprovalsConstants ==
  /\ SessionOf \in [Requests -> Refs]
  /\ Questions \subseteq Requests /\ Rejectable \subseteq Requests \ Questions
  /\ PolicyDecisions \subseteq Decisions

VARIABLES
  open,        \* sessions the kernel has
  stopping,    \* stop(): "no", "begun" or "done"
  asked,       \* requests that were made
  pending,     \* ApprovalHub.pending
  decision,    \* decision[r], NotYet while there is none
  settler,     \* who settled r
  told,        \* told[c][r]: what the respond call of client c for r returned
  chose,       \* chose[c][r]: what that call decided, if it was told ok
  cancelling   \* cancelling[s]: the cancel call under way in s

requestVars == <<asked, pending, decision, settler>>
clientVars == <<told, chose>>
hubVars == <<open, stopping, requestVars, clientVars, cancelling>>

NotYet == "none"
Nobody == "nobody"

PendingOf(s) == {r \in pending : SessionOf[r] = s}

(* The entry leaves the map and its promise is resolved. *)
Settle(rs, d, who) ==
  /\ pending' = pending \ rs
  /\ decision' = [r \in Requests |-> IF r \in rs THEN d[r] ELSE decision[r]]
  /\ settler' = [r \in Requests |-> IF r \in rs THEN who ELSE settler[r]]

AllCancelled == [r \in Requests |-> "cancelled"]

(* Mutant: the first option of the agent is selected. *)
DefaultDenyFirstOption(r) == IF r \in Questions THEN "cancelled" ELSE "allow"

(* defaultDeny: the agent's own reject option, else cancelled. *)
DefaultDeny(r) == IF r \in Rejectable THEN "reject" ELSE "cancelled"
-----------------------------------------------------------------------------
(* A request of an agent.  The policy is asked first; what it leaves open  *)
(* waits, with a timer armed.                                              *)
Ask(r) ==
  /\ SessionOf[r] \in open
  /\ r \notin asked
  /\ asked' = asked \cup {r}
  /\ \/ /\ pending' = pending \cup {r}
        /\ UNCHANGED <<decision, settler>>
     \/ /\ \E d \in PolicyDecisions :
             decision' = [decision EXCEPT ![r] = d]
        /\ settler' = [settler EXCEPT ![r] = "policy"]
        /\ UNCHANGED pending
  /\ UNCHANGED <<open, stopping, clientVars, cancelling>>

(* Mutant: the answer counts whether or not the request is pending. *)
RespondAlways(c, r) ==
  /\ stopping = "no"
  /\ r \in asked
  /\ told[c][r] = NotYet
  /\ \E d \in Decisions :
       /\ chose' = [chose EXCEPT ![c][r] = d]
       /\ told' = [told EXCEPT ![c][r] = "ok"]
       /\ Settle({r}, [x \in Requests |-> d], "client")
  /\ UNCHANGED <<open, stopping, asked, cancelling>>

(* permission/respond and elicitation/respond.  Either method reaches a    *)
(* request of either kind; one that is settled is answered with -32004.    *)
Respond(c, r) ==
  /\ stopping = "no"
  /\ r \in asked
  /\ told[c][r] = NotYet
  /\ \/ /\ r \in pending
        /\ told' = [told EXCEPT ![c][r] = "ok"]
        /\ \E d \in Decisions :
             /\ chose' = [chose EXCEPT ![c][r] = d]
             /\ Settle({r}, [x \in Requests |-> d], "client")
     \/ /\ r \notin pending
        /\ told' = [told EXCEPT ![c][r] = "late"]
        /\ UNCHANGED <<pending, decision, settler, chose>>
  /\ UNCHANGED <<open, stopping, asked, cancelling>>

(* Mutant: only permission requests get a timer. *)
ExpirePermission(r) ==
  /\ r \in pending \ Questions
  /\ stopping # "done"
  /\ Settle({r}, [x \in Requests |-> DefaultDeny(x)], "timeout")
  /\ UNCHANGED <<open, stopping, asked, clientVars, cancelling>>

(* The timer of a request that is still pending. *)
Expire(r) ==
  /\ r \in pending
  /\ stopping # "done"
  /\ Settle({r}, [x \in Requests |-> DefaultDeny(x)], "timeout")
  /\ UNCHANGED <<open, stopping, asked, clientVars, cancelling>>

(* A cancel call: session/cancel, or one without the approvals (task/cancel *)
(* and the soft interrupt).  It throws for a session that is gone; else the *)
(* notification to the agent is awaited.                                    *)
Cancel(s, how) ==
  /\ stopping = "no"
  /\ s \in open
  /\ cancelling[s] = NotYet
  /\ cancelling' = [cancelling EXCEPT ![s] = how]
  /\ UNCHANGED <<open, stopping, requestVars, clientVars>>

(* Mutant: the requests are not settled after the notification. *)
SessionCancelSkipsRequests(s) ==
  /\ cancelling[s] = "session"
  /\ UNCHANGED <<pending, decision, settler>>
  /\ cancelling' = [cancelling EXCEPT ![s] = NotYet]
  /\ UNCHANGED <<open, stopping, asked, clientVars>>

(* session/cancel after its await: cancelForSession. *)
SessionCancelReturns(s) ==
  /\ cancelling[s] = "session"
  /\ Settle(PendingOf(s), AllCancelled, "cancel")
  /\ cancelling' = [cancelling EXCEPT ![s] = NotYet]
  /\ UNCHANGED <<open, stopping, asked, clientVars>>

(* task/cancel and the soft interrupt after theirs. *)
OtherCancelReturns(s) ==
  /\ cancelling[s] = "other"
  /\ cancelling' = [cancelling EXCEPT ![s] = NotYet]
  /\ UNCHANGED <<open, stopping, requestVars, clientVars>>

(* session/close or the exit of the agent: the hub hears nothing of it. *)
SessionEnds(s) ==
  /\ s \in open
  /\ open' = open \ {s}
  /\ UNCHANGED <<stopping, requestVars, clientVars, cancelling>>

Resume(s) ==
  /\ stopping = "no"
  /\ s \notin open
  /\ open' = open \cup {s}
  /\ UNCHANGED <<stopping, requestVars, clientVars, cancelling>>

(* stop(): the hub is shut down first, then the connections are closed ... *)
StopBegins ==
  /\ stopping = "no"
  /\ stopping' = "begun"
  /\ Settle(pending, AllCancelled, "shutdown")
  /\ UNCHANGED <<open, asked, clientVars, cancelling>>

(* ... and at the end of several awaits the agents are stopped. *)
StopEnds ==
  /\ stopping = "begun"
  /\ stopping' = "done"
  /\ open' = {}
  /\ UNCHANGED <<requestVars, clientVars, cancelling>>
-----------------------------------------------------------------------------
HubInit ==
  /\ open = Refs
  /\ stopping = "no"
  /\ asked = {} /\ pending = {}
  /\ decision = [r \in Requests |-> NotYet]
  /\ settler = [r \in Requests |-> Nobody]
  /\ told = [c \in Clients |-> [r \in Requests |-> NotYet]]
  /\ chose = [c \in Clients |-> [r \in Requests |-> NotYet]]
  /\ cancelling = [s \in Refs |-> NotYet]

CancelReturns(s) == SessionCancelReturns(s) \/ OtherCancelReturns(s)

HubNext ==
  \/ \E r \in Requests : Ask(r) \/ Expire(r)
  \/ \E c \in Clients, r \in Requests : Respond(c, r)
  \/ \E s \in Refs, how \in {"session", "other"} : Cancel(s, how)
  \/ \E s \in Refs : CancelReturns(s) \/ SessionEnds(s) \/ Resume(s)
  \/ StopBegins
  \/ StopEnds

HubSpec == HubInit /\ [][HubNext]_hubVars

(* A timer that is armed fires; nobody has to answer, cancel or stop. *)
FairSpec == HubSpec /\ \A r \in Requests : WF_hubVars(Expire(r))
-----------------------------------------------------------------------------
(***************************************************************************)
(* Properties                                                              *)
(***************************************************************************)

(* Every variable has its type. *)
HubTypeOK ==
  /\ open \subseteq Refs
  /\ stopping \in {"no", "begun", "done"}
  /\ asked \subseteq Requests /\ pending \subseteq asked
  /\ decision \in [Requests -> Decisions \cup {NotYet}]
  /\ settler \in [Requests -> Settlers \cup {Nobody}]
  /\ told \in [Clients -> [Requests -> {NotYet, "ok", "late"}]]
  /\ chose \in [Clients -> [Requests -> Decisions \cup {NotYet}]]
  /\ cancelling \in [Refs -> {NotYet, "session", "other"}]

(* PROTOCOL on permission/respond: ok, or -32004 when the request has been *)
(* settled.  So one client at most is told ok for a request, and what it   *)
(* chose is what the agent got, timers and cancellations notwithstanding.  *)
OkMeansDecided ==
  \A c \in Clients, r \in Requests :
    told[c][r] = "ok" =>
      /\ settler[r] = "client" /\ decision[r] = chose[c][r]
      /\ \A d \in Clients \ {c} : told[d][r] # "ok"

(* What the agent is answered: toElicitationResponse for a question. *)
Answer(r) ==
  IF r \notin Questions THEN decision[r]
  ELSE IF decision[r] \in {"allow", "reject", "accept"} THEN "accept" ELSE "decline"

Granted(r) == Answer(r) \in {"allow", "accept"}

Status(r) ==
  IF r \notin asked THEN "none"
  ELSE IF decision[r] = NotYet THEN "open"
  ELSE IF Granted(r) THEN "granted" ELSE "denied"

Promise == INSTANCE Consent WITH
  Deciders <- Settlers,
  Authorities <- {"policy", "client"},
  status <- [r \in Requests |-> Status(r)],
  by <- settler

(* The hub keeps the promise of Consent: nothing is granted by a timer, a  *)
(* cancellation or the shutdown, and nothing that is settled changes.      *)
KeepsPromise == Promise!Spec

(* When session/cancel returns, no request of the session is pending, also *)
(* none that was made while the notification was on its way; what other    *)
(* sessions have asked still is.                                           *)
SessionCancelSettles ==
  [][\A s \in Refs :
       cancelling[s] = "session" /\ cancelling'[s] = NotYet =>
         pending' = {r \in pending : SessionOf[r] # s}]_hubVars

(* Nobody has to answer: every request is settled in the end. *)
RequestsAreSettled ==
  \A r \in Requests : r \in pending ~> r \notin pending \/ stopping = "done"
=============================================================================
