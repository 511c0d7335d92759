------------------------------ MODULE Delivery ------------------------------
(***************************************************************************)
(* Supplementary messages delivered into one session: the turns the kernel *)
(* keeps for it (AcpKernel.prompt), the delivery ladder that walks from    *)
(* tier to tier (DeliveryLadder.deliver) and the queue in the shell with   *)
(* the one place that drains it (DelegationBroker.runTurn).                *)
(*                                                                         *)
(* Every await of the code is a boundary between two actions: a turn       *)
(* starts, its snapshot ends, the agent answers, the answer is handled,    *)
(* and in between every other call may run.  What the code does without an *)
(* await is one action, or is kept together by `loop'.  Time is not        *)
(* modelled: a timer that is armed may fire at any moment.                 *)
(***************************************************************************)
EXTENDS DeliveryTiers

CONSTANTS
  Messages,             \* supplementary messages handed to delivery/send
  Prompts,              \* prompts a client sends with session/prompt
  Task,                 \* the prompt of the task the session was opened for
  Delegated,            \* was the session opened by task/delegate?
  Agents,               \* the agents the session may be one of
  Prefs                 \* delivery preferences the callers use

(* What an agent describes as delivery.steering.tier, whether it answers   *)
(* _session/steering at all, and whether the overlay can correct it.       *)
AgentKind == [tier : Tiers, steers : BOOLEAN, correctable : BOOLEAN]

ASSUME DeliveryConstants ==
  /\ Delegated \in BOOLEAN
  /\ Agents \subseteq AgentKind
  /\ Prefs \subseteq DeliveryPref
  /\ Task \notin Messages \cup Prompts /\ Messages \cap Prompts = {}

(* Everything that can become the content of a turn. *)
Contents == Messages \cup Prompts \cup {Task}

VARIABLES
  agent,         \* the agent of the session, chosen once
  open,          \* the session is registered and its agent process alive
  steeringTier,  \* descriptor.delivery.steering.tier, corrections included
  phase,         \* phase[x]: how far the prompt with content x has come
  startedAt,     \* startedAt[x] of the turns in handle.turns, 0 elsewhere
  turnActive,    \* handle.turnActive
  spoken,        \* the turns whose TurnInfo.injectable is set
  queue,         \* DeliveryLadder.queues for this session
  drained,       \* has runTurn drained the queue?
  step,          \* step[m]: where the deliver call for m stands
  tiers,         \* tiers[m]: the tiers this call has not tried yet
  retrying,      \* the calls that are in their one retry
  pref,          \* pref[m]: the preference of the call
  word,          \* word[m]: the agent's steering answer on its way back
  receipt,       \* receipt[m]: outcome of the last deliver call for m
  redelivered,   \* messages taken from the queue and delivered again
  taken,         \* taken[x]: how often the agent has taken content x
  refused,       \* has a -32601 answer been handled? (history)
  loop           \* deliver calls still in their synchronous head, in order

turnVars == <<phase, startedAt, turnActive, spoken>>
callVars == <<step, tiers, retrying, pref, word, receipt>>
vars == <<agent, open, steeringTier, turnVars, queue, drained, callVars, redelivered,
          taken, refused, loop>>

(* An event handler runs only when no synchronous code is under way. *)
LoopFree == loop = <<>> /\ loop' = <<>>

(* handle.turns *)
Turns == {x \in Contents : startedAt[x] > 0}

InFlight == {"snapshot", "sent", "running", "answered"}

NoReceipt == "none"

(***************************************************************************)
(* Turns: AcpKernel.prompt                                                 *)
(***************************************************************************)

(* The synchronous head of prompt(): register the turn, raise turnActive. *)
(* A session that is gone throws; the callers below swallow that error.   *)
BeginTurn(x) ==
  IF open
  THEN /\ phase' = [phase EXCEPT ![x] = "snapshot"]
       /\ \E now \in {startedAt[y] + 1 : y \in Contents} :
            /\ \A y \in Contents : startedAt[y] < now
            /\ startedAt' = [startedAt EXCEPT ![x] = now]
       /\ turnActive' = TRUE
       /\ UNCHANGED spoken
  ELSE UNCHANGED turnVars

(* session/prompt of a client, and the first turn of a delegated task. *)
Prompt(x) ==
  /\ LoopFree
  /\ open
  /\ phase[x] = "none"
  /\ BeginTurn(x)
  /\ UNCHANGED <<agent, open, steeringTier, queue, drained, callVars, redelivered,
                 taken, refused>>

(* onTurnStart has ended (its failures are swallowed): the request goes to *)
(* the agent, or fails at once when the process is gone.                   *)
SendPrompt(x) ==
  /\ LoopFree
  /\ phase[x] = "snapshot"
  /\ phase' = [phase EXCEPT ![x] = IF open THEN "sent" ELSE "answered"]
  /\ taken' = [taken EXCEPT ![x] = IF open THEN @ + 1 ELSE @]
  /\ UNCHANGED <<agent, open, steeringTier, startedAt, turnActive, spoken, queue, drained,
                 callVars, redelivered, refused>>

(* Mutant: the end of any turn clears the flag. *)
FinishTurnClearsFlag(x) ==
  /\ LoopFree
  /\ phase[x] = "answered"
  /\ phase' = [phase EXCEPT ![x] = "over"]
  /\ startedAt' = [startedAt EXCEPT ![x] = 0]
  /\ turnActive' = FALSE
  /\ spoken' = spoken \ {x}
  /\ UNCHANGED <<agent, open, steeringTier, queue, drained, callVars, redelivered,
                 taken, refused>>

(* The finally block of prompt(): the turn leaves handle.turns. *)
FinishTurn(x) ==
  /\ LoopFree
  /\ phase[x] = "answered"
  /\ phase' = [phase EXCEPT ![x] = "over"]
  /\ startedAt' = [startedAt EXCEPT ![x] = 0]
  /\ turnActive' = (Turns \ {x} # {})
  /\ spoken' = spoken \ {x}
  /\ UNCHANGED <<agent, open, steeringTier, queue, drained, callVars, redelivered,
                 taken, refused>>

(* An agent process that exits, or session/close: the handle leaves the    *)
(* kernel's map and every request in flight is rejected.                   *)
SessionEnds ==
  /\ LoopFree
  /\ open
  /\ open' = FALSE
  /\ phase' = [x \in Contents |->
                 IF phase[x] \in {"sent", "running"} THEN "answered" ELSE phase[x]]
  /\ step' = [m \in Messages |->
                IF step[m] = "steering" THEN "failed" ELSE step[m]]
  /\ UNCHANGED <<agent, steeringTier, startedAt, turnActive, spoken, queue, drained, tiers,
                 retrying, pref, word, receipt, redelivered, taken, refused>>

(***************************************************************************)
(* The agent, as the ladder uses it                                        *)
(***************************************************************************)

AgentRuns(x) ==
  /\ LoopFree
  /\ phase[x] = "sent"
  /\ phase' = [phase EXCEPT ![x] = "running"]
  /\ UNCHANGED <<agent, open, steeringTier, startedAt, turnActive, spoken, queue, drained,
                 callVars, redelivered, taken, refused>>

(* A session/update: markInjectable marks every turn in handle.turns. *)
AgentSpeaks ==
  /\ LoopFree
  /\ open
  /\ \E x \in Contents : phase[x] = "running"
  /\ spoken' = Turns
  /\ UNCHANGED <<agent, open, steeringTier, phase, startedAt, turnActive, queue, drained,
                 callVars, redelivered, taken, refused>>

AgentStops(x) ==
  /\ LoopFree
  /\ phase[x] = "running"
  /\ phase' = [phase EXCEPT ![x] = "answered"]
  /\ UNCHANGED <<agent, open, steeringTier, startedAt, turnActive, spoken, queue, drained,
                 callVars, redelivered, taken, refused>>

(* With idleBehavior promptRequired an agent takes a steering message only *)
(* into a turn that runs; it may also report a failure of its own.         *)
SteeringAnswers ==
  IF ~agent.steers THEN {"methodNotFound"}
  ELSE IF \E x \in Contents : phase[x] = "running"
       THEN {"injected", "failed"}
       ELSE {"promptRequired"}

AgentAnswers(m) ==
  /\ LoopFree
  /\ step[m] = "steering"
  /\ \E w \in SteeringAnswers :
       /\ word' = [word EXCEPT ![m] = w]
       /\ taken' = [taken EXCEPT ![m] = IF w = "injected" THEN @ + 1 ELSE @]
  /\ step' = [step EXCEPT ![m] = "replied"]
  /\ UNCHANGED <<agent, open, steeringTier, turnVars, queue, drained, tiers, retrying,
                 pref, receipt, redelivered, refused>>
-----------------------------------------------------------------------------
(***************************************************************************)
(* The ladder: DeliveryLadder.deliver                                      *)
(***************************************************************************)

(* kernel.require throws for a session that is gone; else the call starts. *)
StartCall(m, p) ==
  /\ pref' = [pref EXCEPT ![m] = p]
  /\ tiers' = [tiers EXCEPT ![m] = CandidateTiers(steeringTier, TRUE, p)]
  /\ step' = [step EXCEPT ![m] = "trying"]

Deliver(m) ==
  /\ loop = <<>> /\ loop' = <<m>>
  /\ open
  /\ step[m] = "idle"
  /\ \E p \in Prefs : StartCall(m, p)
  /\ UNCHANGED <<agent, open, steeringTier, turnVars, queue, drained, retrying, word,
                 receipt, redelivered, taken, refused>>

(* Is the newest turn one that has begun but not spoken yet?  (Whether two *)
(* seconds have passed is left open, see Conclude.)                        *)
InStartupWindow ==
  /\ open
  /\ \E x \in Turns \ spoken :
       \A y \in Turns : startedAt[y] <= startedAt[x]

Return(m, outcome) ==
  /\ step' = [step EXCEPT ![m] = "done"]
  /\ receipt' = [receipt EXCEPT ![m] = outcome]
  /\ UNCHANGED retrying

WaitThenRetry(m) ==
  /\ step' = [step EXCEPT ![m] = "waiting"]
  /\ retrying' = retrying \cup {m}
  /\ UNCHANGED receipt

(* Mutant: any outcome of the startup window is retried. *)
ConcludeRetryingAll(m, outcome) ==
  \/ Return(m, outcome)
  \/ m \notin retrying /\ InStartupWindow /\ WaitThenRetry(m)

(* Mutant: the startup window is retried for as long as it lasts. *)
ConcludeRetryingForever(m, outcome) ==
  IF outcome = "no_active_turn" /\ InStartupWindow THEN WaitThenRetry(m)
  ELSE Return(m, outcome)

(* A tier has given an outcome: it is the receipt, unless the target may   *)
(* only have refused because its turn has not begun to speak.              *)
Conclude(m, outcome) ==
  \/ Return(m, outcome)
  \/ /\ outcome = "no_active_turn"
     /\ m \notin retrying
     /\ InStartupWindow
     /\ WaitThenRetry(m)

(* A tier has given none: the next one, or the first outcome if this was  *)
(* the retry.                                                             *)
FallThrough(m, tier) ==
  IF m \in retrying
  THEN /\ Return(m, "no_active_turn")
       /\ UNCHANGED tiers
  ELSE /\ tiers' = [tiers EXCEPT ![m] = @ \ {tier}]
       /\ step' = [step EXCEPT ![m] = "trying"]
       /\ UNCHANGED <<retrying, receipt>>

Trying(m, tier) ==
  /\ step[m] = "trying"
  /\ tier \in tiers[m]
  /\ \A t \in tiers[m] : ~Stronger(t, tier)

TryNative(m) ==
  /\ Trying(m, "native")
  /\ FallThrough(m, "native")
  /\ UNCHANGED <<agent, open, steeringTier, turnVars, queue, drained, pref, word,
                 redelivered, taken, refused>>

(* The steering request leaves; a session that has gone meanwhile throws. *)
TryExtension(m) ==
  /\ Trying(m, "extension")
  /\ step' = [step EXCEPT ![m] = IF open THEN "steering" ELSE "failed"]
  /\ UNCHANGED <<agent, open, steeringTier, turnVars, queue, drained, tiers, retrying,
                 pref, word, receipt, redelivered, taken, refused>>

(* -32601: tighten the descriptor if the overlay knows the agent, go on. *)
SteeringRefused(m) ==
  /\ step[m] = "replied"
  /\ word[m] = "methodNotFound"
  /\ steeringTier' = IF agent.correctable THEN Weakest(steeringTier, "concurrent")
                     ELSE steeringTier
  /\ refused' = TRUE
  /\ FallThrough(m, "extension")
  /\ UNCHANGED <<agent, open, turnVars, queue, drained, pref, word, redelivered, taken>>

SteeringReplied(m) ==
  /\ step[m] = "replied"
  /\ word[m] # "methodNotFound"
  /\ Conclude(m, MapSteeringOutcome(word[m]))
  /\ UNCHANGED <<agent, open, steeringTier, turnVars, queue, drained, tiers, pref, word,
                 redelivered, taken, refused>>

(* The request was rejected with the process: deliver() rethrows. *)
SteeringFailed(m) ==
  /\ step[m] = "failed"
  /\ Return(m, "error")
  /\ UNCHANGED <<agent, open, steeringTier, turnVars, queue, drained, tiers, pref, word,
                 redelivered, taken, refused>>

(* Mutant: the concurrent tier does not look at turnActive. *)
TryConcurrentBlindly(m) ==
  /\ Trying(m, "concurrent")
  /\ BeginTurn(m)
  /\ Return(m, "injected")
  /\ UNCHANGED <<agent, open, steeringTier, queue, drained, tiers, pref, word,
                 redelivered, taken, refused>>

(* A prompt beside the running turn, or one that starts a turn on demand. *)
TryConcurrent(m) ==
  /\ Trying(m, "concurrent")
  /\ IF turnActive \/ pref[m].startTurnIfIdle
     THEN BeginTurn(m) /\ Return(m, "injected")
     ELSE Conclude(m, "no_active_turn") /\ UNCHANGED turnVars
  /\ UNCHANGED <<agent, open, steeringTier, queue, drained, tiers, pref, word,
                 redelivered, taken, refused>>

(* kernel.cancel is a notification: it throws when the session is gone and *)
(* is awaited, so that turns may end before the message is sent.           *)
TrySoftInterrupt(m) ==
  /\ Trying(m, "soft-interrupt")
  /\ IF ~turnActive THEN Conclude(m, "no_active_turn")
     ELSE /\ step' = [step EXCEPT ![m] = IF open THEN "interrupting" ELSE "failed"]
          /\ UNCHANGED <<retrying, receipt>>
  /\ UNCHANGED <<agent, open, steeringTier, turnVars, queue, drained, tiers, pref, word,
                 redelivered, taken, refused>>

Interrupted(m) ==
  /\ step[m] = "interrupting"
  /\ BeginTurn(m)
  /\ Return(m, "injected")
  /\ UNCHANGED <<agent, open, steeringTier, queue, drained, tiers, pref, word,
                 redelivered, taken, refused>>

TryQueue(m) ==
  /\ Trying(m, "queue")
  /\ queue' = Append(queue, m)
  /\ Return(m, "queued")
  /\ UNCHANGED <<agent, open, steeringTier, turnVars, drained, tiers, pref, word,
                 redelivered, taken, refused>>

LadderExhausted(m) ==
  /\ step[m] = "trying"
  /\ tiers[m] = {}
  /\ Return(m, "unsupported")
  /\ UNCHANGED <<agent, open, steeringTier, turnVars, queue, drained, tiers, pref, word,
                 redelivered, taken, refused>>

(* awaitInjectable returns: the target has spoken, no turn is left, or the *)
(* two seconds are over.  In each case the same tier is tried again.       *)
Retry(m) ==
  /\ step[m] = "waiting"
  /\ step' = [step EXCEPT ![m] = "trying"]
  /\ UNCHANGED <<agent, open, steeringTier, turnVars, queue, drained, tiers, retrying,
                 pref, word, receipt, redelivered, taken, refused>>

(* Mutant: the queue is redelivered like any other message. *)
RedeliveryPrefDefault == DefaultPref

(* runTurn's finally: what is in the queue is delivered again, with leave  *)
(* to start a turn, and nobody looks at the receipts.                      *)
RedeliveryPref == [DefaultPref EXCEPT !.startTurnIfIdle = TRUE]

DrainQueue ==
  LET waiting == {queue[i] : i \in DOMAIN queue}
  IN  /\ Delegated /\ ~drained
      /\ loop = <<>> /\ loop' = IF open THEN queue ELSE <<>>
      /\ phase[Task] = "over"
      /\ drained' = TRUE
      /\ queue' = <<>>
      /\ redelivered' = redelivered \cup waiting
      /\ pref' = [m \in Messages |->
                    IF m \in waiting THEN RedeliveryPref ELSE pref[m]]
      /\ tiers' = [m \in Messages |->
                     IF m \in waiting
                     THEN CandidateTiers(steeringTier, TRUE, RedeliveryPref)
                     ELSE tiers[m]]
      /\ step' = [m \in Messages |->
                    IF m \notin waiting THEN step[m]
                    ELSE IF open THEN "trying" ELSE "failed"]
      /\ retrying' = retrying \ waiting
      /\ UNCHANGED <<agent, open, steeringTier, turnVars, word, receipt, taken, refused>>
-----------------------------------------------------------------------------
Init ==
  /\ agent \in Agents
  /\ open = TRUE
  /\ steeringTier = agent.tier
  /\ phase = [x \in Contents |-> "none"]
  /\ startedAt = [x \in Contents |-> 0]
  /\ turnActive = FALSE
  /\ spoken = {}
  /\ queue = <<>>
  /\ drained = FALSE
  /\ step = [m \in Messages |-> "idle"]
  /\ tiers = [m \in Messages |-> {}]
  /\ retrying = {}
  /\ pref = [m \in Messages |-> DefaultPref]
  /\ word = [m \in Messages |-> "absent"]
  /\ receipt = [m \in Messages |-> NoReceipt]
  /\ redelivered = {}
  /\ taken = [x \in Contents |-> 0]
  /\ refused = FALSE
  /\ loop = <<>>

PromptsOfSession == Prompts \cup (IF Delegated THEN {Task} ELSE {})

KernelStep(x) == SendPrompt(x) \/ FinishTurn(x)

TierStep(m) ==
  \/ TryNative(m)
  \/ TryExtension(m)
  \/ TryConcurrent(m)
  \/ TrySoftInterrupt(m)
  \/ TryQueue(m)
  \/ LadderExhausted(m)
  \/ SteeringRefused(m)
  \/ SteeringReplied(m)
  \/ SteeringFailed(m)
  \/ Interrupted(m)
  \/ Retry(m)

(* A call that has just been made runs up to its first await undisturbed. *)
LadderStep(m) ==
  /\ TierStep(m)
  /\ IF loop = <<>> THEN UNCHANGED loop
     ELSE m = Head(loop) /\ loop' = Tail(loop)

Next ==
  \/ \E x \in PromptsOfSession : Prompt(x)
  \/ \E x \in Contents : KernelStep(x)
  \/ \E x \in Contents : AgentRuns(x)
  \/ \E x \in Contents : AgentStops(x)
  \/ AgentSpeaks
  \/ \E m \in Messages : AgentAnswers(m)
  \/ \E m \in Messages : Deliver(m)
  \/ \E m \in Messages : LadderStep(m)
  \/ DrainQueue
  \/ SessionEnds

Spec == Init /\ [][Next]_vars

(* The event loop runs every continuation that is ready, timers fire, and  *)
(* an agent answers its steering requests.  That an agent ever ends a turn *)
(* is not assumed here.                                                    *)
CoreFairness ==
  /\ \A x \in Contents : WF_vars(KernelStep(x))
  /\ \A m \in Messages : WF_vars(LadderStep(m))
  /\ \A m \in Messages : WF_vars(AgentAnswers(m))
  /\ WF_vars(DrainQueue)

FairSpec == Spec /\ CoreFairness
-----------------------------------------------------------------------------
(***************************************************************************)
(* Properties                                                              *)
(***************************************************************************)

Steps == {"idle", "trying", "steering", "replied", "failed", "waiting",
          "interrupting", "done"}

(* Every variable has its type. *)
TypeOK ==
  /\ open \in BOOLEAN /\ drained \in BOOLEAN /\ refused \in BOOLEAN
  /\ agent \in Agents /\ steeringTier \in Tiers
  /\ phase \in [Contents -> InFlight \cup {"none", "over"}]
  /\ startedAt \in [Contents -> Nat]
  /\ queue \in Seq(Messages)
  /\ turnActive \in BOOLEAN
  /\ spoken \subseteq Contents
  /\ step \in [Messages -> Steps]
  /\ tiers \in [Messages -> SUBSET Tiers]
  /\ retrying \subseteq Messages /\ redelivered \subseteq Messages
  /\ pref \in [Messages -> DeliveryPref]
  /\ word \in [Messages -> SteeringWords \cup {"methodNotFound"}]
  /\ receipt \in [Messages -> Outcomes \cup {NoReceipt, "error"}]
  /\ taken \in [Contents -> Nat]
  /\ loop \in Seq(Messages)

(* The ladder decides on turnActive.  Prompts of one session overlap, so   *)
(* the flag must stay up until the last of them has returned, in whichever *)
(* order they end.                                                         *)
TurnActiveIsExact ==
  turnActive = (\E x \in Contents : phase[x] \in InFlight)

(* Falling through the tiers, the retry in the startup window and the      *)
(* redelivery of the queue never make the agent take one message twice.    *)
TakenAtMostOnce == \A x \in Contents : taken[x] <= 1

(* While the session lives, "injected" means that the agent has the        *)
(* message or that its prompt waits only for the snapshot.                 *)
InjectedIsOnItsWay ==
  \A m \in Messages :
    open /\ receipt[m] = "injected" => taken[m] = 1 \/ phase[m] = "snapshot"

(* A message begins a turn of an idle session only if its caller asked for *)
(* that, or paid for an interruption.                                      *)
NoSilentTurn ==
  [][\A m \in Messages :
       (phase[m] = "none" /\ phase'[m] = "snapshot" /\ ~turnActive) =>
         pref[m].startTurnIfIdle \/ pref[m].allowInterrupt]_vars

(* Once an agent the overlay can correct has answered -32601, no later     *)
(* delivery in the session plans the extension tier again.                 *)
NoWastedExtension ==
  [][\A m \in Messages :
       (refused /\ agent.correctable /\ step[m] = "idle" /\ step'[m] = "trying") =>
         "extension" \notin tiers'[m]]_vars

(* A delivery does nothing it had to know better about: it neither begins  *)
(* a turn nobody asked for, though the turn it was meant for ends while it *)
(* goes through the tiers, nor uses a channel known to be absent.          *)
NothingUncalledFor == NoSilentTurn /\ NoWastedExtension

(* Every deliver call returns: no tier, wait or retry holds it for ever. *)
DeliverReturns ==
  \A m \in Messages : step[m] = "trying" ~> step[m] = "done"

(* The agent takes no steering message, only prompts. *)
TakesPromptsOnly == agent.tier = "concurrent"

(* What such an agent is owed from the queue reaches it while it lives. *)
DrainedReachesAgent ==
  \A m \in Messages :
    m \in redelivered /\ TakesPromptsOnly ~> ~open \/ taken[m] = 1
=============================================================================
