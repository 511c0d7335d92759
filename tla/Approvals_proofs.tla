------------------------- MODULE Approvals_proofs --------------------------
(***************************************************************************)
(* Proofs about Approvals, for any sets of sessions, requests and clients  *)
(* and any policy.                                                         *)
(***************************************************************************)
EXTENDS Approvals, TLAPS

(* What is pending or not yet asked has no decision. *)
Undecided ==
  \A r \in Requests :
    r \in pending \/ r \notin asked => decision[r] = NotYet /\ settler[r] = Nobody

HubInv == HubTypeOK /\ Undecided /\ OkMeansDecided

(* Settling pending requests with proper decisions keeps the types. *)
LEMMA SettleTypes ==
  ASSUME HubTypeOK, NEW rs \in SUBSET Requests, NEW d, NEW who \in Settlers,
         \A r \in rs : d[r] \in Decisions, Settle(rs, d, who)
  PROVE  /\ pending' \subseteq pending
         /\ decision' \in [Requests -> Decisions \cup {NotYet}]
         /\ settler' \in [Requests -> Settlers \cup {Nobody}]
         /\ \A r \in Requests \ rs : decision'[r] = decision[r] /\ settler'[r] = settler[r]
         /\ \A r \in rs : decision'[r] = d[r] /\ settler'[r] = who /\ r \notin pending'
  BY DEF HubTypeOK, Settle

(* The decision of a timer is a decision, and never grants anything. *)
LEMMA DenyDenies ==
  ASSUME NEW r \in Requests
  PROVE  /\ DefaultDeny(r) \in Decisions \ {"allow", "accept"}
         /\ r \in Questions => DefaultDeny(r) = "cancelled"
  BY ApprovalsConstants DEF DefaultDeny, Decisions, PermissionWords, ElicitationWords

(* Settling by anybody but a client spoils no ok a client was given. *)
LEMMA SettleKeepsInv ==
  ASSUME HubInv, NEW rs \in SUBSET pending, NEW d, NEW who \in Settlers,
         \A r \in rs : d[r] \in Decisions, Settle(rs, d, who),
         UNCHANGED <<asked, told, chose>>, open' \subseteq Refs,
         stopping' \in {"no", "begun", "done"},
         cancelling' \in [Refs -> {NotYet, "session", "other"}]
  PROVE  HubInv'
<1>1. rs \subseteq Requests
  BY DEF HubInv, HubTypeOK
<1>2. HubTypeOK'
  BY <1>1, SettleTypes DEF HubInv, HubTypeOK
<1>3. Undecided'
  BY <1>1, SettleTypes DEF HubInv, HubTypeOK, Undecided
<1>4. OkMeansDecided'
  <2>1. \A r \in Requests \ rs : decision'[r] = decision[r] /\ settler'[r] = settler[r]
    BY <1>1, SettleTypes DEF HubInv
  <2>2. \A c \in Clients, r \in rs : told[c][r] # "ok"
    BY <1>1 DEF HubInv, Undecided, OkMeansDecided, Nobody
  <2> QED
    BY <2>1, <2>2 DEF HubInv, OkMeansDecided
<1> QED
  BY <1>2, <1>3, <1>4 DEF HubInv

(* Steps that leave requests and clients alone keep the invariant. *)
LEMMA FrameKeepsInv ==
  ASSUME HubInv, UNCHANGED <<requestVars, clientVars>>, open' \subseteq Refs,
         stopping' \in {"no", "begun", "done"},
         cancelling' \in [Refs -> {NotYet, "session", "other"}]
  PROVE  HubInv'
<1>1. HubTypeOK'
  BY DEF HubInv, HubTypeOK, requestVars, clientVars
<1>2. Undecided' /\ OkMeansDecided'
  BY DEF HubInv, Undecided, OkMeansDecided, requestVars, clientVars
<1> QED
  BY <1>1, <1>2 DEF HubInv

(* Every step keeps the invariant. *)
LEMMA HubInductive == HubInv /\ [HubNext]_hubVars => HubInv'
<1> SUFFICES ASSUME HubInv, [HubNext]_hubVars PROVE HubInv'
  OBVIOUS
<1>type. HubTypeOK
  BY DEF HubInv
<1>1. ASSUME NEW r \in Requests, Ask(r) PROVE HubInv'
  <2>1. /\ r \notin asked /\ asked' = asked \cup {r}
        /\ UNCHANGED <<open, stopping, told, chose, cancelling>>
    BY <1>1 DEF Ask, clientVars
  <2>2. CASE pending' = pending \cup {r} /\ UNCHANGED <<decision, settler>>
    <3>1. HubTypeOK'
      BY <2>1, <2>2, <1>type DEF HubTypeOK
    <3>2. Undecided' /\ OkMeansDecided'
      BY <2>1, <2>2, <1>type DEF HubInv, Undecided, OkMeansDecided, HubTypeOK
    <3> QED
      BY <3>1, <3>2 DEF HubInv
  <2>3. CASE /\ \E d \in PolicyDecisions : decision' = [decision EXCEPT ![r] = d]
             /\ settler' = [settler EXCEPT ![r] = "policy"]
             /\ UNCHANGED pending
    <3>1. PICK d \in Decisions : decision' = [decision EXCEPT ![r] = d]
      BY <2>3, ApprovalsConstants
    <3>2. HubTypeOK'
      BY <2>1, <2>3, <3>1, <1>type DEF HubTypeOK, Settlers
    <3>3. Undecided'
      BY <2>1, <2>3, <3>1, <1>type DEF HubInv, Undecided, HubTypeOK
    <3>4. OkMeansDecided'
      BY <2>1, <2>3, <3>1, <1>type DEF HubInv, Undecided, OkMeansDecided, HubTypeOK, Nobody
    <3> QED
      BY <3>2, <3>3, <3>4 DEF HubInv
  <2> QED
    BY <1>1, <2>2, <2>3 DEF Ask
<1>2. ASSUME NEW r \in Requests, Expire(r) PROVE HubInv'
  BY <1>2, <1>type, SettleKeepsInv, DenyDenies
     DEF Expire, clientVars, Settlers, HubTypeOK
<1>3. ASSUME NEW c \in Clients, NEW r \in Requests, Respond(c, r) PROVE HubInv'
  <2>1. r \in asked /\ told[c][r] = NotYet /\ UNCHANGED <<open, stopping, asked, cancelling>>
    BY <1>3 DEF Respond
  <2>2. CASE r \in pending
    <3>1. /\ told' = [told EXCEPT ![c][r] = "ok"]
          /\ \E d \in Decisions : /\ chose' = [chose EXCEPT ![c][r] = d]
                                 /\ Settle({r}, [x \in Requests |-> d], "client")
      BY <1>3, <2>2 DEF Respond
    <3>2. PICK d \in Decisions : /\ chose' = [chose EXCEPT ![c][r] = d]
                                 /\ Settle({r}, [x \in Requests |-> d], "client")
      BY <3>1
    <3>3. /\ told \in [Clients -> [Requests -> {NotYet, "ok", "late"}]]
          /\ chose \in [Clients -> [Requests -> Decisions \cup {NotYet}]]
      BY <1>type DEF HubTypeOK
    <3>4. /\ chose' \in [Clients -> [Requests -> Decisions \cup {NotYet}]]
          /\ told' \in [Clients -> [Requests -> {NotYet, "ok", "late"}]]
          /\ \A e \in Clients, q \in Requests :
               e # c \/ q # r => told'[e][q] = told[e][q] /\ chose'[e][q] = chose[e][q]
          /\ chose'[c][r] = d /\ told'[c][r] = "ok"
      BY <3>1, <3>2, <3>3
    <3>5. /\ pending' = pending \ {r}
          /\ decision' = [q \in Requests |-> IF q = r THEN d ELSE decision[q]]
          /\ settler' = [q \in Requests |-> IF q = r THEN "client" ELSE settler[q]]
      BY <3>2 DEF Settle
    <3>6. /\ pending' \subseteq pending
          /\ decision' \in [Requests -> Decisions \cup {NotYet}]
          /\ settler' \in [Requests -> Settlers \cup {Nobody}]
          /\ \A q \in Requests \ {r} :
               decision'[q] = decision[q] /\ settler'[q] = settler[q]
          /\ decision'[r] = d /\ settler'[r] = "client" /\ r \notin pending'
      BY <3>5, <1>type DEF HubTypeOK, Settlers
    <3>7. HubTypeOK'
      BY <2>1, <3>4, <3>6, <1>type DEF HubTypeOK
    <3>8. Undecided'
      BY <2>1, <3>6, <1>type DEF HubInv, Undecided, HubTypeOK
    <3>9. \A e \in Clients : told[e][r] # "ok"
      BY <2>2 DEF HubInv, Undecided, OkMeansDecided, Nobody
    <3>10. OkMeansDecided'
      <4> SUFFICES ASSUME NEW e \in Clients, NEW q \in Requests, told'[e][q] = "ok"
                   PROVE  /\ settler'[q] = "client" /\ decision'[q] = chose'[e][q]
                          /\ \A f \in Clients \ {e} : told'[f][q] # "ok"
        BY DEF OkMeansDecided
      <4>1. CASE q = r
        BY <3>4, <3>6, <3>9, <4>1
      <4>2. CASE q # r
        <5>1. told[e][q] = "ok" /\ \A f \in Clients : told'[f][q] = told[f][q]
          BY <3>4, <4>2
        <5>2. /\ settler[q] = "client" /\ decision[q] = chose[e][q]
              /\ \A f \in Clients \ {e} : told[f][q] # "ok"
          BY <5>1 DEF HubInv, OkMeansDecided
        <5> QED
          BY <3>4, <3>6, <4>2, <5>1, <5>2
      <4> QED
        BY <4>1, <4>2
    <3> QED
      BY <3>7, <3>8, <3>10 DEF HubInv
  <2>3. CASE r \notin pending
    <3>1. /\ UNCHANGED <<pending, decision, settler, chose>>
          /\ told' = [told EXCEPT ![c][r] = "late"]
      BY <1>3, <2>3 DEF Respond
    <3>2. /\ told' \in [Clients -> [Requests -> {NotYet, "ok", "late"}]]
          /\ \A e \in Clients, q \in Requests :
               told'[e][q] = "ok" => told[e][q] = "ok"
      BY <3>1, <1>type DEF HubTypeOK
    <3>3. HubTypeOK'
      BY <2>1, <3>1, <3>2, <1>type DEF HubTypeOK
    <3>4. Undecided'
      BY <2>1, <3>1 DEF HubInv, Undecided
    <3>5. OkMeansDecided'
      BY <3>1, <3>2 DEF HubInv, OkMeansDecided
    <3> QED
      BY <3>3, <3>4, <3>5 DEF HubInv
  <2> QED
    BY <2>2, <2>3
<1>4. ASSUME NEW s \in Refs, NEW how \in {"session", "other"}, Cancel(s, how)
      PROVE  HubInv'
  BY <1>4, <1>type, FrameKeepsInv DEF Cancel, HubTypeOK
<1>5. ASSUME NEW s \in Refs, SessionCancelReturns(s) PROVE HubInv'
  <2>1. PendingOf(s) \subseteq pending
    BY DEF PendingOf
  <2>2. \A r \in PendingOf(s) : AllCancelled[r] \in Decisions
    BY <2>1, <1>type DEF AllCancelled, Decisions, PermissionWords, HubTypeOK
  <2> QED
    BY <1>5, <2>1, <2>2, <1>type, SettleKeepsInv
       DEF SessionCancelReturns, clientVars, Settlers, HubTypeOK
<1>6. ASSUME NEW s \in Refs, OtherCancelReturns(s) PROVE HubInv'
  BY <1>6, <1>type, FrameKeepsInv DEF OtherCancelReturns, HubTypeOK
<1>7. ASSUME NEW s \in Refs, SessionEnds(s) PROVE HubInv'
  BY <1>7, <1>type, FrameKeepsInv DEF SessionEnds, HubTypeOK
<1>8. ASSUME NEW s \in Refs, Resume(s) PROVE HubInv'
  BY <1>8, <1>type, FrameKeepsInv DEF Resume, HubTypeOK
<1>9. CASE StopBegins
  <2>1. \A r \in pending : AllCancelled[r] \in Decisions
    BY <1>type DEF AllCancelled, Decisions, PermissionWords, HubTypeOK
  <2> QED
    BY <1>9, <2>1, <1>type, SettleKeepsInv DEF StopBegins, clientVars, Settlers, HubTypeOK
<1>10. CASE StopEnds
  BY <1>10, <1>type, FrameKeepsInv DEF StopEnds, HubTypeOK
<1>11. CASE UNCHANGED hubVars
  BY <1>11, <1>type, FrameKeepsInv DEF hubVars, HubTypeOK
<1> QED
  BY <1>1, <1>2, <1>3, <1>4, <1>5, <1>6, <1>7, <1>8, <1>9, <1>10, <1>11
     DEF HubNext, CancelReturns

(* The hub starts with nothing asked. *)
LEMMA HubInitial == HubInit => HubInv
  BY DEF HubInit, HubInv, HubTypeOK, Undecided, OkMeansDecided, NotYet

(* Type correctness of the hub. *)
THEOREM TypeCorrect == HubSpec => []HubTypeOK
<1>1. HubInv => HubTypeOK
  BY DEF HubInv
<1> QED
  BY <1>1, HubInitial, HubInductive, PTL DEF HubSpec

(* One client at most is told ok for a request, and the agent got what that *)
(* client chose.                                                            *)
THEOREM OkMeansDecidedHolds == HubSpec => []OkMeansDecided
<1>1. HubInv => OkMeansDecided
  BY DEF HubInv
<1> QED
  BY <1>1, HubInitial, HubInductive, PTL DEF HubSpec
-----------------------------------------------------------------------------
(***************************************************************************)
(* The hub implements Consent: a step settles nothing, or a set of         *)
(* undecided requests for one settler, who grants only with authority.     *)
(***************************************************************************)

(* Settling undecided requests is a Decide step of the promise. *)
LEMMA SettleDecides ==
  ASSUME HubInv, HubInv', NEW rs \in SUBSET pending, NEW d, NEW who \in Settlers,
         \A r \in rs : d[r] \in Decisions, Settle(rs, d, who), UNCHANGED asked,
         \A r \in rs : Granted(r)' => who \in {"policy", "client"}
  PROVE  Promise!Decide(rs, who)
<1>0. rs \in SUBSET Requests /\ HubTypeOK
  BY DEF HubInv, HubTypeOK
<1>1. \A r \in rs : decision'[r] # NotYet /\ settler'[r] = who
  <2>1. \A x \in Decisions : x # NotYet
    BY DEF Decisions, PermissionWords, ElicitationWords, NotYet
  <2>2. \A r \in rs : decision'[r] = d[r] /\ settler'[r] = who
    BY <1>0, SettleTypes
  <2> QED
    BY <2>1, <2>2
<1>2. \A r \in Requests \ rs : decision'[r] = decision[r] /\ settler'[r] = settler[r]
  BY <1>0, SettleTypes
<1>3. \A r \in rs : Status(r) = "open"
  BY <1>1 DEF HubInv, HubTypeOK, Undecided, Status
<1>4. \A r \in Requests \ rs : Status(r)' = Status(r)
  BY <1>2 DEF Status, Granted, Answer
<1>5. \A r \in rs : Status(r)' \in {"denied", "granted"} /\ (Status(r)' = "granted" => Granted(r)')
  BY <1>1 DEF HubInv, HubTypeOK, Status
<1> QED
  BY <1>0, <1>1, <1>2, <1>3, <1>4, <1>5 DEF Promise!Decide

(* A step that changes no request is a stutter of the promise. *)
LEMMA FrameStutters ==
  ASSUME UNCHANGED <<asked, decision, settler>> PROVE UNCHANGED Promise!vars
  BY DEF Promise!vars, Status, Granted, Answer

(* Every step of the hub is a step or a stutter of the promise. *)
LEMMA StepImplements ==
  ASSUME HubInv, HubInv', [HubNext]_hubVars PROVE [Promise!Next]_(Promise!vars)
<1>type. HubTypeOK
  BY DEF HubInv
<1>decide. ASSUME NEW rs \in SUBSET Requests, NEW who \in Settlers, Promise!Decide(rs, who)
           PROVE  Promise!Next
  BY <1>decide DEF Promise!Next
<1>1. ASSUME NEW r \in Requests, Ask(r) PROVE Promise!Next
  <2>1. r \notin asked /\ asked' = asked \cup {r}
    BY <1>1 DEF Ask
  <2>2. decision[r] = NotYet /\ settler[r] = Nobody /\ Status(r) = "none"
    BY <2>1 DEF HubInv, Undecided, Status
  <2>3. CASE UNCHANGED <<decision, settler>>
    <3>1. Status(r)' = "open"
      BY <2>1, <2>2, <2>3 DEF Status
    <3>2. \A q \in Requests \ {r} : Status(q)' = Status(q)
      BY <2>1, <2>3 DEF Status, Granted, Answer
    <3>3. Promise!Ask(r)
      BY <2>2, <2>3, <3>1, <3>2 DEF Promise!Ask
    <3> QED
      BY <3>3 DEF Promise!Next
  <2>4. CASE /\ \E d \in PolicyDecisions : decision' = [decision EXCEPT ![r] = d]
             /\ settler' = [settler EXCEPT ![r] = "policy"]
    <3>1. \A q \in Requests \ {r} : decision'[q] = decision[q] /\ settler'[q] = settler[q]
      BY <2>4, <1>type DEF HubTypeOK
    <3>2. settler'[r] = "policy" /\ decision'[r] \in Decisions
      BY <2>4, <1>type, ApprovalsConstants DEF HubTypeOK
    <3>3. \A q \in Requests \ {r} : Status(q)' = Status(q)
      BY <2>1, <3>1 DEF Status, Granted, Answer
    <3>4. decision'[r] # NotYet
      BY <3>2 DEF Decisions, PermissionWords, ElicitationWords, NotYet
    <3>5. Status(r)' \in {"denied", "granted"}
      BY <2>1, <3>4 DEF Status
    <3>6. Promise!Decide({r}, "policy")
      BY <2>2, <3>1, <3>2, <3>3, <3>5 DEF Promise!Decide
    <3> QED
      BY <3>6, <1>decide DEF Settlers
  <2> QED
    BY <1>1, <2>3, <2>4 DEF Ask
<1>2. ASSUME NEW r \in Requests, Expire(r) PROVE Promise!Next
  <2>1. {r} \in SUBSET pending /\ "timeout" \in Settlers /\ UNCHANGED asked
    BY <1>2 DEF Expire, Settlers
  <2>2. /\ Settle({r}, [x \in Requests |-> DefaultDeny(x)], "timeout")
        /\ decision' = [q \in Requests |-> IF q = r THEN DefaultDeny(r) ELSE decision[q]]
    BY <1>2 DEF Expire, Settle
  <2>3. ~Granted(r)'
    <3>1. decision'[r] = DefaultDeny(r)
      BY <2>2
    <3> QED
      BY <3>1, DenyDenies DEF Granted, Answer
  <2>4. \A q \in {r} : [x \in Requests |-> DefaultDeny(x)][q] \in Decisions
    BY DenyDenies
  <2>5. Promise!Decide({r}, "timeout")
    BY <2>1, <2>2, <2>3, <2>4, SettleDecides
  <2> QED
    BY <2>1, <2>5, <1>decide
<1>3. ASSUME NEW c \in Clients, NEW r \in Requests, Respond(c, r)
      PROVE  Promise!Next \/ UNCHANGED Promise!vars
  <2>1. UNCHANGED asked
    BY <1>3 DEF Respond
  <2>2. CASE r \in pending
    <3>1. PICK d \in Decisions : Settle({r}, [x \in Requests |-> d], "client")
      BY <1>3, <2>2 DEF Respond
    <3>2. {r} \in SUBSET pending /\ "client" \in Settlers
      BY <2>2 DEF Settlers
    <3>3. \A q \in {r} : [x \in Requests |-> d][q] \in Decisions
      OBVIOUS
    <3>4. Promise!Decide({r}, "client")
      BY <2>1, <3>1, <3>2, <3>3, SettleDecides
    <3> QED
      BY <3>2, <3>4, <1>decide
  <2>3. CASE r \notin pending
    <3>1. UNCHANGED <<pending, decision, settler>>
      BY <1>3, <2>3 DEF Respond
    <3> QED
      BY <2>1, <3>1, FrameStutters
  <2> QED
    BY <2>2, <2>3
<1>4. ASSUME NEW rs \in SUBSET pending, NEW who \in Settlers,
             Settle(rs, AllCancelled, who), UNCHANGED asked
      PROVE  Promise!Next
  <2>1. rs \in SUBSET Requests
    BY <1>type DEF HubTypeOK
  <2>2. \A r \in rs : AllCancelled[r] = "cancelled" /\ decision'[r] = "cancelled"
    BY <1>4, <2>1 DEF AllCancelled, Settle
  <2>3. \A r \in rs : ~Granted(r)'
    BY <2>2 DEF Granted, Answer
  <2>4. \A r \in rs : AllCancelled[r] \in Decisions
    BY <2>2 DEF Decisions, PermissionWords
  <2>5. Promise!Decide(rs, who)
    BY <1>4, <2>3, <2>4, SettleDecides
  <2> QED
    BY <2>1, <2>5, <1>decide
<1>5. ASSUME NEW s \in Refs, SessionCancelReturns(s) PROVE Promise!Next
  BY <1>4, <1>5 DEF SessionCancelReturns, PendingOf, Settlers
<1>6. CASE StopBegins
  BY <1>4, <1>6 DEF StopBegins, Settlers
<1>7. ASSUME NEW s \in Refs,
             \/ \E how \in {"session", "other"} : Cancel(s, how)
             \/ OtherCancelReturns(s) \/ SessionEnds(s) \/ Resume(s)
      PROVE  UNCHANGED Promise!vars
  BY <1>7, FrameStutters DEF Cancel, OtherCancelReturns, SessionEnds, Resume, requestVars
<1>8. CASE StopEnds \/ UNCHANGED hubVars
  BY <1>8, FrameStutters DEF StopEnds, hubVars, requestVars
<1> QED
  BY <1>1, <1>2, <1>3, <1>5, <1>6, <1>7, <1>8 DEF HubNext, CancelReturns

(* The hub keeps its promise: a request is settled once, for good, and is  *)
(* granted by a client or the policy only, never by a timer, a cancel or   *)
(* the shutdown.                                                           *)
THEOREM HubKeepsPromise == HubSpec => KeepsPromise
<1>1. HubInit => Promise!Init
  BY DEF HubInit, Promise!Init, Status, Nobody, Promise!Nobody
<1>2. HubInv /\ HubInv' /\ [HubNext]_hubVars => [Promise!Next]_(Promise!vars)
  BY StepImplements
<1> QED
  BY <1>1, <1>2, HubInitial, HubInductive, PTL DEF HubSpec, KeepsPromise, Promise!Spec

(* When session/cancel returns, the requests of its session are settled,   *)
(* also those made while the notification was on its way, and those of     *)
(* other sessions are not (methods.ts, session/cancel; approvals.ts,       *)
(* cancelForSession).                                                      *)
THEOREM SessionCancelSettlesHolds == HubSpec => SessionCancelSettles
<1>1. HubInv /\ [HubNext]_hubVars =>
        [\A s \in Refs :
           cancelling[s] = "session" /\ cancelling'[s] = NotYet =>
             pending' = {r \in pending : SessionOf[r] # s}]_hubVars
  <2> SUFFICES ASSUME HubInv, [HubNext]_hubVars, NEW s \in Refs,
                      cancelling[s] = "session", cancelling'[s] = NotYet
               PROVE  pending' = {r \in pending : SessionOf[r] # s}
    OBVIOUS
  <2>1. cancelling \in [Refs -> {NotYet, "session", "other"}] /\ NotYet # "session"
    BY DEF HubInv, HubTypeOK, NotYet
  <2>2. \A t \in Refs : \A how : ~Cancel(t, how)
    BY <2>1 DEF Cancel
  <2>3. \A t \in Refs : ~OtherCancelReturns(t)
    BY <2>1 DEF OtherCancelReturns
  <2>4. \A t \in Refs : SessionCancelReturns(t) => t = s
    BY <2>1 DEF SessionCancelReturns
  <2>5. cancelling' # cancelling
    BY <2>1
  <2>6. SessionCancelReturns(s)
    BY <2>2, <2>3, <2>4, <2>5 DEF HubNext, CancelReturns, Ask, Expire, Respond, SessionEnds,
       Resume, StopBegins, StopEnds, hubVars
  <2> QED
    BY <2>6 DEF SessionCancelReturns, Settle, PendingOf
<1> QED
  BY <1>1, HubInitial, HubInductive, PTL DEF HubSpec, SessionCancelSettles
=============================================================================
