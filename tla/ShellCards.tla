----------------------------- MODULE ShellCards -----------------------------
(***************************************************************************)
(* The cards by which the shell asks its user for permissions and answers  *)
(* (shell/src/lib/store.ts: permission/requested, absorbElicitation,       *)
(* bootstrap, refreshApprovals, respondApproval, respondElicitation), over *)
(* a connection that may be lost and comes back.                           *)
(*                                                                         *)
(* The connection is ordered: what the core says and the shell hears is    *)
(* one step; a call and its answer are two.  Requests are settled by other *)
(* clients and by timers as well, of which the core tells nobody.          *)
(***************************************************************************)
EXTENDS Naturals

CONSTANTS Permissions,   \* requests of session/request_permission
          Questions,     \* requests of elicitation/create
          MaxLosses      \* times the connection is lost

ASSUME LossesAssumption == MaxLosses \in Nat

VARIABLES
  hub,        \* the request at the core: none, pending, settled
  cards,      \* how many cards of a request are shown
  lookups,    \* the questions whose request is being looked up
  answering,  \* the cards whose answer is on its way
  boot,       \* off, subscribing, listing, ready, failed
  losses

cardVars == <<hub, cards, lookups, answering, boot, losses>>

Requests == Permissions \cup Questions

CardsTypeOK ==
  /\ hub \in [Requests -> {"none", "pending", "settled"}]
  /\ cards \in [Requests -> Nat]
  /\ lookups \subseteq Questions
  /\ answering \subseteq Requests
  /\ boot \in {"off", "subscribing", "listing", "ready", "failed"}
  /\ losses \in 0..MaxLosses

CardsInit ==
  /\ hub = [r \in Requests |-> "none"]
  /\ cards = [r \in Requests |-> 0]
  /\ lookups = {} /\ answering = {}
  /\ boot = "off" /\ losses = 0

Pending == {r \in Requests : hub[r] = "pending"}
Subscribed == boot \in {"listing", "ready", "failed"}

-----------------------------------------------------------------------------
(* The core.                                                               *)

\* A permission gets its card at once; for a question the shell first looks
\* up the request with permission/pending.
Requested(r) ==
  /\ hub[r] = "none"
  /\ hub' = [hub EXCEPT ![r] = "pending"]
  /\ cards' = IF Subscribed /\ r \in Permissions
              THEN [cards EXCEPT ![r] = @ + 1] ELSE cards
  /\ lookups' = IF Subscribed /\ r \in Questions THEN lookups \cup {r} ELSE lookups
  /\ UNCHANGED <<answering, boot, losses>>

\* Its timer, another client, a cancel or the policy.
SettledElsewhere(r) ==
  /\ hub[r] = "pending"
  /\ hub' = [hub EXCEPT ![r] = "settled"]
  /\ UNCHANGED <<cards, lookups, answering, boot, losses>>

-----------------------------------------------------------------------------
(* bootstrap(), at each opening of the connection.                         *)

Connected ==
  /\ boot = "off"
  /\ boot' = "subscribing"
  /\ UNCHANGED <<hub, cards, lookups, answering, losses>>

\* Subscriptions belong to a connection; core/info and agent/list follow.
SubscribeAnswered ==
  /\ boot = "subscribing"
  /\ boot' = "listing"
  /\ UNCHANGED <<hub, cards, lookups, answering, losses>>

\* Mutant: what was shown before the connection was lost is kept.
KeptCards == cards

\* refreshApprovals: the list of the core replaces that of the shell.
ListedCards == [r \in Requests |-> IF r \in Pending THEN 1 ELSE 0]

PendingListed ==
  /\ boot = "listing"
  /\ boot' = "ready"
  /\ cards' = ListedCards
  /\ UNCHANGED <<hub, lookups, answering, losses>>

\* A refused call ends the bootstrap; the connection stays.
BootstrapFails ==
  /\ boot \in {"subscribing", "listing"}
  /\ boot' = "failed"
  /\ UNCHANGED <<hub, cards, lookups, answering, losses>>

\* Calls under way fail: a question is shown with the id it came with, the
\* card of a permission that was being answered is put away, that of a
\* question stays.
ConnectionLost ==
  /\ boot # "off" /\ losses < MaxLosses
  /\ boot' = "off"
  /\ losses' = losses + 1
  /\ cards' = [r \in Requests |->
                 IF r \in lookups THEN cards[r] + 1
                 ELSE IF r \in answering \cap Permissions THEN 0
                 ELSE cards[r]]
  /\ lookups' = {} /\ answering' = {}
  /\ UNCHANGED hub

-----------------------------------------------------------------------------
(* Cards.                                                                  *)

\* absorbElicitation: the answer of permission/pending, or its failure, adds
\* the card, whatever has become of the request or of the list meanwhile.
Absorbed(r) ==
  /\ r \in lookups
  /\ lookups' = lookups \ {r}
  /\ cards' = [cards EXCEPT ![r] = @ + 1]
  /\ UNCHANGED <<hub, answering, boot, losses>>

Respond(r) ==
  /\ cards[r] > 0 /\ r \notin answering /\ boot # "off"
  /\ answering' = answering \cup {r}
  /\ UNCHANGED <<hub, cards, lookups, boot, losses>>

\* Without a connection the call fails at once.
RespondOffline(r) ==
  /\ cards[r] > 0 /\ r \in Permissions /\ boot = "off"
  /\ cards' = [cards EXCEPT ![r] = 0]
  /\ UNCHANGED <<hub, lookups, answering, boot, losses>>

\* The core settles the request, or says that it is settled already; for a
\* permission either puts the card away.
ResponseArrives(r) ==
  /\ r \in answering
  /\ answering' = answering \ {r}
  /\ hub' = [hub EXCEPT ![r] = "settled"]
  /\ cards' = IF r \in Permissions \/ hub[r] = "pending"
              THEN [cards EXCEPT ![r] = 0] ELSE cards
  /\ UNCHANGED <<lookups, boot, losses>>

-----------------------------------------------------------------------------
CardsNext ==
  \/ \E r \in Requests :
       \/ Requested(r) \/ SettledElsewhere(r)
       \/ Absorbed(r)
       \/ Respond(r) \/ RespondOffline(r) \/ ResponseArrives(r)
  \/ Connected \/ SubscribeAnswered \/ PendingListed \/ BootstrapFails
  \/ ConnectionLost

CardsSpec == CardsInit /\ [][CardsNext]_cardVars

\* Once the shell has connected, every request an agent waits on is shown or
\* is being looked up, whatever was asked, settled and answered while the
\* connection was down or coming up: no agent waits for a user who sees
\* nothing (store.ts, bootstrap, refreshApprovals, respondApproval).
EveryRequestHasCard ==
  boot = "ready" => \A r \in Pending : cards[r] > 0 \/ r \in lookups

=============================================================================
