-------------------------- MODULE Delivery_proofs --------------------------
(***************************************************************************)
(* Proofs about Delivery, for any set of messages and prompts, any tier an *)
(* agent describes and any preferences of the callers.                     *)
(***************************************************************************)
EXTENDS Delivery, TLAPS

(* A turn is in handle.turns while its prompt is in flight, and turnActive *)
(* says whether there is one.                                              *)
TurnInv ==
  /\ phase \in [Contents -> InFlight \cup {"none", "over"}]
  /\ startedAt \in [Contents -> Nat]
  /\ \A x \in Contents : startedAt[x] > 0 <=> phase[x] \in InFlight
  /\ TurnActiveIsExact

(* Registering a turn, or failing to because the session is gone. *)
LEMMA BeginTurnKeeps ==
  ASSUME TurnInv, NEW x \in Contents, BeginTurn(x) PROVE TurnInv'
<1>1. CASE open
  <2>1. PICK now \in {startedAt[y] + 1 : y \in Contents} :
          startedAt' = [startedAt EXCEPT ![x] = now]
    BY <1>1 DEF BeginTurn
  <2>2. now \in Nat /\ now > 0
    BY DEF TurnInv
  <2>3. phase' = [phase EXCEPT ![x] = "snapshot"] /\ turnActive' = TRUE
    BY <1>1 DEF BeginTurn
  <2>4. /\ phase' \in [Contents -> InFlight \cup {"none", "over"}]
        /\ startedAt' \in [Contents -> Nat]
        /\ \A y \in Contents : startedAt'[y] > 0 <=> phase'[y] \in InFlight
    BY <2>1, <2>2, <2>3 DEF TurnInv, InFlight
  <2>5. phase'[x] \in InFlight
    BY <2>3 DEF TurnInv, InFlight
  <2>6. TurnActiveIsExact'
    BY <2>3, <2>5 DEF TurnActiveIsExact
  <2> QED
    BY <2>4, <2>6 DEF TurnInv
<1>2. CASE ~open
  BY <1>2 DEF BeginTurn, turnVars, TurnInv, TurnActiveIsExact
<1> QED
  BY <1>1, <1>2

(* Steps that leave the turns alone. *)
LEMMA TurnFrame ==
  ASSUME TurnInv, UNCHANGED <<phase, startedAt, turnActive>> PROVE TurnInv'
  BY DEF TurnInv, TurnActiveIsExact

(* Steps that take prompts from one phase in flight to another. *)
LEMMA InFlightFrame ==
  ASSUME TurnInv, UNCHANGED <<startedAt, turnActive>>,
         phase' \in [Contents -> InFlight \cup {"none", "over"}],
         \A x \in Contents : phase'[x] \in InFlight <=> phase[x] \in InFlight
  PROVE  TurnInv'
  BY DEF TurnInv, TurnActiveIsExact

(* The end of a turn: the flag falls with the last turn only. *)
LEMMA FinishTurnKeeps ==
  ASSUME TurnInv, NEW x \in Contents, FinishTurn(x) PROVE TurnInv'
<1>1. /\ phase' = [phase EXCEPT ![x] = "over"]
      /\ startedAt' = [startedAt EXCEPT ![x] = 0]
      /\ turnActive' = (Turns \ {x} # {})
  BY DEF FinishTurn
<1>2. /\ phase' \in [Contents -> InFlight \cup {"none", "over"}]
      /\ startedAt' \in [Contents -> Nat]
      /\ \A y \in Contents : startedAt'[y] > 0 <=> phase'[y] \in InFlight
  BY <1>1 DEF TurnInv, InFlight
<1>3. (Turns \ {x} # {}) <=> \E y \in Contents : phase'[y] \in InFlight
  <2>1. \A y \in Contents : phase'[y] \in InFlight <=> y \in Turns \ {x}
    BY <1>1 DEF TurnInv, InFlight, Turns
  <2>2. Turns \subseteq Contents
    BY DEF Turns
  <2> QED
    BY <2>1, <2>2
<1>4. TurnActiveIsExact'
  BY <1>1, <1>3 DEF TurnActiveIsExact
<1> QED
  BY <1>2, <1>4 DEF TurnInv

(* The ladder touches turns only by beginning one for its own message. *)
LEMMA TierStepKeeps ==
  ASSUME TurnInv, NEW m \in Messages, TierStep(m) PROVE TurnInv'
<1>1. m \in Contents
  BY DEF Contents
<1>2. CASE TryConcurrent(m) \/ Interrupted(m)
  BY <1>1, <1>2, BeginTurnKeeps, TurnFrame DEF TryConcurrent, Interrupted, turnVars
<1>3. CASE TryNative(m) \/ TryExtension(m) \/ TrySoftInterrupt(m) \/ TryQueue(m)
  BY <1>3, TurnFrame DEF TryNative, TryExtension, TrySoftInterrupt, TryQueue, turnVars
<1>4. CASE LadderExhausted(m) \/ SteeringRefused(m) \/ SteeringReplied(m)
  BY <1>4, TurnFrame DEF LadderExhausted, SteeringRefused, SteeringReplied, turnVars
<1>5. CASE SteeringFailed(m) \/ Retry(m)
  BY <1>5, TurnFrame DEF SteeringFailed, Retry, turnVars
<1> QED
  BY <1>2, <1>3, <1>4, <1>5 DEF TierStep

(* Every step keeps the turns consistent. *)
LEMMA TurnInvInductive == TurnInv /\ [Next]_vars => TurnInv'
<1> SUFFICES ASSUME TurnInv, [Next]_vars PROVE TurnInv'
  OBVIOUS
<1>1. ASSUME NEW x \in PromptsOfSession, Prompt(x) PROVE TurnInv'
  <2>1. x \in Contents
    BY DEF PromptsOfSession, Contents
  <2> QED
    BY <1>1, <2>1, BeginTurnKeeps DEF Prompt
<1>2. ASSUME NEW x \in Contents, SendPrompt(x) PROVE TurnInv'
  BY <1>2, InFlightFrame DEF SendPrompt, TurnInv, InFlight
<1>3. ASSUME NEW x \in Contents, FinishTurn(x) PROVE TurnInv'
  BY <1>3, FinishTurnKeeps
<1>4. ASSUME NEW x \in Contents, AgentRuns(x) PROVE TurnInv'
  BY <1>4, InFlightFrame DEF AgentRuns, TurnInv, InFlight
<1>5. ASSUME NEW x \in Contents, AgentStops(x) PROVE TurnInv'
  BY <1>5, InFlightFrame DEF AgentStops, TurnInv, InFlight
<1>6. CASE AgentSpeaks
  BY <1>6, TurnFrame DEF AgentSpeaks
<1>7. ASSUME NEW m \in Messages, AgentAnswers(m) PROVE TurnInv'
  BY <1>7, TurnFrame DEF AgentAnswers, turnVars
<1>8. ASSUME NEW m \in Messages, Deliver(m) PROVE TurnInv'
  BY <1>8, TurnFrame DEF Deliver, turnVars
<1>9. ASSUME NEW m \in Messages, LadderStep(m) PROVE TurnInv'
  BY <1>9, TierStepKeeps DEF LadderStep
<1>10. CASE DrainQueue
  BY <1>10, TurnFrame DEF DrainQueue, turnVars
<1>11. CASE SessionEnds
  <2>1. phase' = [x \in Contents |->
                   IF phase[x] \in {"sent", "running"} THEN "answered" ELSE phase[x]]
    BY <1>11 DEF SessionEnds
  <2>2. UNCHANGED <<startedAt, turnActive>>
    BY <1>11 DEF SessionEnds
  <2>3. /\ phase' \in [Contents -> InFlight \cup {"none", "over"}]
        /\ \A x \in Contents : phase'[x] \in InFlight <=> phase[x] \in InFlight
    BY <2>1 DEF TurnInv, InFlight
  <2> QED
    BY <2>2, <2>3, InFlightFrame
<1>12. CASE UNCHANGED vars
  BY <1>12, TurnFrame DEF vars, turnVars
<1> QED
  BY <1>1, <1>2, <1>3, <1>4, <1>5, <1>6, <1>7, <1>8, <1>9, <1>10, <1>11, <1>12
     DEF Next, KernelStep

(* handle.turnActive is up exactly while a prompt is in flight, however    *)
(* the prompts of a session overlap and in whichever order they end.       *)
THEOREM TurnActiveIsExactHolds == Spec => []TurnActiveIsExact
<1>1. ASSUME Init PROVE TurnInv
  <2>1. /\ phase = [x \in Contents |-> "none"]
        /\ startedAt = [x \in Contents |-> 0] /\ turnActive = FALSE
    BY <1>1 DEF Init
  <2>2. /\ phase \in [Contents -> InFlight \cup {"none", "over"}]
        /\ startedAt \in [Contents -> Nat]
        /\ \A x \in Contents : ~(startedAt[x] > 0) /\ phase[x] \notin InFlight
    BY <2>1 DEF InFlight
  <2>3. TurnActiveIsExact
    BY <2>1, <2>2 DEF TurnActiveIsExact
  <2> QED
    BY <2>2, <2>3 DEF TurnInv
<1>2. TurnInv => TurnActiveIsExact
  BY DEF TurnInv
<1> QED
  BY <1>1, <1>2, TurnInvInductive, PTL DEF Spec
-----------------------------------------------------------------------------
(* The message on its way through the ladder.                              *)

(* A message the agent has not been given: it is in no turn. *)
Untouched(m) == taken[m] = 0 /\ phase[m] = "none"

(* What is known of a message by where its deliver call stands.  Until the *)
(* call has concluded the message is untouched; a steering answer on its   *)
(* way says whether it still is.  An interruption has been allowed.        *)
MessageInv(m) ==
  /\ step[m] \notin {"replied", "done"} => Untouched(m)
  /\ step[m] = "replied" =>
       /\ phase[m] = "none"
       /\ word[m] \in {"methodNotFound", "injected", "failed", "promptRequired"}
       /\ taken[m] = IF word[m] = "injected" THEN 1 ELSE 0
  /\ step[m] # "done" => receipt[m] \in {NoReceipt, "queued"}
  /\ "soft-interrupt" \in tiers[m] \/ step[m] = "interrupting" => pref[m].allowInterrupt
  /\ phase[m] = "snapshot" => taken[m] = 0
  /\ taken[m] <= 1
  /\ open /\ receipt[m] = "injected" => taken[m] = 1 \/ phase[m] = "snapshot"

(* A prompt that has not been sent has not been taken. *)
PromptInv(x) ==
  /\ phase[x] \in {"none", "snapshot"} => taken[x] = 0
  /\ taken[x] <= 1

(* A message in the queue has a call that is done with the receipt         *)
(* "queued", and is untouched, so that it may be delivered again.          *)
QueueInv ==
  \A i \in DOMAIN queue :
    step[queue[i]] = "done" /\ receipt[queue[i]] = "queued" /\ Untouched(queue[i])

(* The tiers that prompt the agent or keep the message. *)
WeakTiers == {"concurrent", "soft-interrupt", "queue"}

(* What -32601 has taught: the descriptor stays below the extension tier. *)
CorrectionInv == refused /\ agent.correctable => steeringTier \in WeakTiers

LadderInv ==
  /\ TypeOK
  /\ \A m \in Messages : MessageInv(m)
  /\ \A x \in Contents \ Messages : PromptInv(x)
  /\ QueueInv
  /\ CorrectionInv

(* The order of the five tiers. *)
LEMMA TierRanks ==
  /\ Tiers = {"native", "extension", "concurrent", "soft-interrupt", "queue"}
  /\ TierRank("native") = 1 /\ TierRank("extension") = 2 /\ TierRank("concurrent") = 3
  /\ TierRank("soft-interrupt") = 4 /\ TierRank("queue") = 5
<1>1. /\ TierOrder[1] = "native" /\ TierOrder[2] = "extension" /\ TierOrder[3] = "concurrent"
      /\ TierOrder[4] = "soft-interrupt" /\ TierOrder[5] = "queue"
  BY DEF TierOrder
<1>2. 1 .. 5 = {1, 2, 3, 4, 5}
  OBVIOUS
<1>3. Tiers = {"native", "extension", "concurrent", "soft-interrupt", "queue"}
  BY <1>1, <1>2 DEF Tiers
<1> QED
  BY <1>1, <1>2, <1>3 DEF TierRank

(* The weaker of two tiers is one of them, and no stronger than either. *)
LEMMA WeakestTier ==
  ASSUME NEW t \in Tiers, NEW u \in Tiers
  PROVE  /\ Weakest(t, u) \in {t, u}
         /\ t \in WeakTiers \/ u \in WeakTiers => Weakest(t, u) \in WeakTiers
  BY TierRanks DEF Weakest, Stronger, WeakTiers

(* candidateTiers plans no interruption that was not allowed, and nothing  *)
(* stronger than the agent is capable of.                                  *)
LEMMA PlannedTiers ==
  ASSUME NEW c \in Tiers, NEW q \in BOOLEAN, NEW p \in DeliveryPref
  PROVE  /\ CandidateTiers(c, q, p) \in SUBSET Tiers
         /\ "soft-interrupt" \in CandidateTiers(c, q, p) => p.allowInterrupt
         /\ c \in WeakTiers => "extension" \notin CandidateTiers(c, q, p)
<1> DEFINE first == IF p.tier = Unset THEN c ELSE Weakest(c, p.tier)
<1>1. p.tier \in Tiers \cup {Unset}
  BY DEF DeliveryPref
<1>2. first \in Tiers /\ (c \in WeakTiers => first \in WeakTiers)
  BY <1>1, WeakestTier
<1>3. ASSUME c \in WeakTiers PROVE Stronger("extension", first)
  BY <1>2, <1>3, TierRanks DEF Stronger, WeakTiers
<1> QED
  BY <1>3 DEF CandidateTiers

(* The receipt for an answer of the agent; an answer that is no injection  *)
(* is not taken for one.                                                   *)
LEMMA MappedOutcome ==
  ASSUME NEW w \in SteeringWords
  PROVE  /\ MapSteeringOutcome(w) \in Outcomes
         /\ w \in {"failed", "promptRequired"} => MapSteeringOutcome(w) # "injected"
         /\ w = "injected" => MapSteeringOutcome(w) = "injected"
  BY DEF MapSteeringOutcome, SteeringWords, Outcomes
-----------------------------------------------------------------------------
(* Registering a turn, or failing to because the session is gone. *)
LEMMA BegunTurn ==
  ASSUME TypeOK, NEW x \in Contents, BeginTurn(x)
  PROVE  /\ phase' \in [Contents -> InFlight \cup {"none", "over"}]
         /\ startedAt' \in [Contents -> Nat] /\ turnActive' \in BOOLEAN
         /\ spoken' = spoken
         /\ IF open THEN phase' = [phase EXCEPT ![x] = "snapshot"] ELSE phase' = phase
<1>1. CASE open
  <2>1. PICK now \in {startedAt[y] + 1 : y \in Contents} :
          startedAt' = [startedAt EXCEPT ![x] = now]
    BY <1>1 DEF BeginTurn
  <2>2. now \in Nat
    BY DEF TypeOK
  <2> QED
    BY <1>1, <2>1, <2>2 DEF BeginTurn, TypeOK, InFlight
<1>2. CASE ~open
  BY <1>2 DEF BeginTurn, turnVars, TypeOK
<1> QED
  BY <1>1, <1>2

(* A call that returns an outcome is done with it as its receipt; a retry  *)
(* keeps the old receipt and never follows an injection.                   *)
LEMMA ConcludedCall ==
  ASSUME TypeOK, NEW m \in Messages, NEW outcome \in Outcomes \cup {"error"},
         Conclude(m, outcome) \/ Return(m, outcome)
  PROVE  /\ step' \in [Messages -> Steps] /\ retrying' \in SUBSET Messages
         /\ receipt' \in [Messages -> Outcomes \cup {NoReceipt, "error"}]
         /\ \A n \in Messages \ {m} : step'[n] = step[n] /\ receipt'[n] = receipt[n]
         /\ \/ step'[m] = "done" /\ receipt'[m] = outcome
            \/ step'[m] = "waiting" /\ receipt'[m] = receipt[m] /\ outcome = "no_active_turn"
  BY DEF TypeOK, Conclude, Return, WaitThenRetry, Steps

(* A call whose tier has given no outcome goes on to the next one, or is   *)
(* done if it has had its retry.                                           *)
LEMMA FallenThrough ==
  ASSUME TypeOK, NEW m \in Messages, NEW tier, FallThrough(m, tier)
  PROVE  /\ step' \in [Messages -> Steps] /\ retrying' \in SUBSET Messages
         /\ receipt' \in [Messages -> Outcomes \cup {NoReceipt, "error"}]
         /\ tiers' \in [Messages -> SUBSET Tiers]
         /\ \A n \in Messages : tiers'[n] \subseteq tiers[n]
         /\ \A n \in Messages \ {m} : step'[n] = step[n] /\ receipt'[n] = receipt[n]
         /\ \/ step'[m] = "done" /\ receipt'[m] = "no_active_turn"
            \/ step'[m] = "trying" /\ receipt'[m] = receipt[m]
<1>1. CASE m \in retrying
  BY <1>1 DEF TypeOK, FallThrough, Return, Steps, Outcomes
<1>2. CASE m \notin retrying
  <2>1. /\ tiers' = [tiers EXCEPT ![m] = tiers[m] \ {tier}]
        /\ step' = [step EXCEPT ![m] = "trying"] /\ UNCHANGED <<retrying, receipt>>
    BY <1>2 DEF FallThrough
  <2>2. tiers' \in [Messages -> SUBSET Tiers] /\ \A n \in Messages : tiers'[n] \subseteq tiers[n]
    BY <2>1 DEF TypeOK
  <2> QED
    BY <2>1, <2>2 DEF TypeOK, Steps
<1> QED
  BY <1>1, <1>2

(* Every tier keeps the types. *)
LEMMA TierStepTypes ==
  ASSUME TypeOK, NEW m \in Messages, TierStep(m), loop' \in Seq(Messages) PROVE TypeOK'
<1>1. m \in Contents
  BY DEF Contents
<1> USE DEF TypeOK
<1>2. CASE TryNative(m)
  BY <1>2, FallenThrough DEF TryNative, turnVars
<1>10. CASE SteeringRefused(m)
  <2>1. Weakest(steeringTier, "concurrent") \in Tiers
    BY TierRanks, WeakestTier
  <2>2. steeringTier' \in Tiers /\ refused' \in BOOLEAN
    BY <1>10, <2>1 DEF SteeringRefused
  <2> QED
    BY <1>10, <2>2, FallenThrough DEF SteeringRefused, turnVars
<1>3. CASE TryExtension(m) \/ Retry(m)
  BY <1>3 DEF TryExtension, Retry, turnVars, Steps
<1>4. CASE SteeringReplied(m)
  <2>1. MapSteeringOutcome(word[m]) \in Outcomes
    BY <1>4, MappedOutcome DEF SteeringReplied
  <2> QED
    BY <1>4, <2>1, ConcludedCall DEF SteeringReplied, turnVars
<1>5. CASE SteeringFailed(m) \/ LadderExhausted(m)
  BY <1>5, ConcludedCall DEF SteeringFailed, LadderExhausted, turnVars, Outcomes
<1>6. CASE TryConcurrent(m)
  <2>1. CASE turnActive \/ pref[m].startTurnIfIdle
    BY <1>1, <1>6, <2>1, BegunTurn, ConcludedCall DEF TryConcurrent, Outcomes
  <2>2. CASE ~(turnActive \/ pref[m].startTurnIfIdle)
    BY <1>6, <2>2, ConcludedCall DEF TryConcurrent, Outcomes, turnVars
  <2> QED
    BY <2>1, <2>2
<1>7. CASE Interrupted(m)
  BY <1>1, <1>7, BegunTurn, ConcludedCall DEF Interrupted, Outcomes
<1>8. CASE TrySoftInterrupt(m)
  <2>1. CASE turnActive
    BY <1>8, <2>1 DEF TrySoftInterrupt, turnVars, Steps
  <2>2. CASE ~turnActive
    BY <1>8, <2>2, ConcludedCall DEF TrySoftInterrupt, Outcomes, turnVars
  <2> QED
    BY <2>1, <2>2
<1>9. CASE TryQueue(m)
  BY <1>9, ConcludedCall DEF TryQueue, Outcomes, turnVars
<1> QED
  BY <1>2, <1>3, <1>4, <1>5, <1>6, <1>7, <1>8, <1>9, <1>10 DEF TierStep

(* Every step keeps the types. *)
LEMMA TypeInductive == TypeOK /\ [Next]_vars => TypeOK'
<1> SUFFICES ASSUME TypeOK, [Next]_vars PROVE TypeOK'
  OBVIOUS
<1> USE DEF TypeOK
<1>1. ASSUME NEW x \in PromptsOfSession, Prompt(x) PROVE TypeOK'
  <2>1. x \in Contents
    BY DEF PromptsOfSession, Contents
  <2> QED
    BY <1>1, <2>1, BegunTurn DEF Prompt, LoopFree, callVars
<1>2. ASSUME NEW x \in Contents, SendPrompt(x) \/ FinishTurn(x) PROVE TypeOK'
  <2>1. CASE SendPrompt(x)
    <3>1. /\ phase' \in [Contents -> InFlight \cup {"none", "over"}]
          /\ taken' \in [Contents -> Nat]
      BY <2>1 DEF SendPrompt, InFlight
    <3> QED
      BY <2>1, <3>1 DEF SendPrompt, LoopFree, callVars
  <2>2. CASE FinishTurn(x)
    <3>1. /\ phase' \in [Contents -> InFlight \cup {"none", "over"}]
          /\ startedAt' \in [Contents -> Nat] /\ turnActive' \in BOOLEAN
          /\ spoken' \in SUBSET Contents
      BY <2>2 DEF FinishTurn
    <3> QED
      BY <2>2, <3>1 DEF FinishTurn, LoopFree, callVars
  <2> QED
    BY <1>2, <2>1, <2>2
<1>3. ASSUME NEW x \in Contents, AgentRuns(x) \/ AgentStops(x) PROVE TypeOK'
  BY <1>3 DEF AgentRuns, AgentStops, LoopFree, callVars, InFlight
<1>4. CASE AgentSpeaks
  BY <1>4 DEF AgentSpeaks, LoopFree, callVars, Turns
<1>5. ASSUME NEW m \in Messages, AgentAnswers(m) PROVE TypeOK'
  <2>1. PICK w \in SteeringAnswers :
          /\ word' = [word EXCEPT ![m] = w]
          /\ taken' = [taken EXCEPT ![m] = IF w = "injected" THEN taken[m] + 1 ELSE taken[m]]
    BY <1>5 DEF AgentAnswers
  <2>2. w \in SteeringWords \cup {"methodNotFound"}
    BY DEF SteeringAnswers, SteeringWords
  <2>3. taken' \in [Contents -> Nat]
    BY <2>1 DEF Contents
  <2> QED
    BY <1>5, <2>1, <2>2, <2>3 DEF AgentAnswers, LoopFree, turnVars, Steps
<1>6. ASSUME NEW m \in Messages, Deliver(m) PROVE TypeOK'
  <2>1. PICK p \in Prefs : StartCall(m, p)
    BY <1>6 DEF Deliver
  <2>2. p \in DeliveryPref /\ CandidateTiers(steeringTier, TRUE, p) \in SUBSET Tiers
    BY PlannedTiers, DeliveryConstants
  <2>3. loop' \in Seq(Messages)
    BY <1>6 DEF Deliver
  <2>4. /\ pref' \in [Messages -> DeliveryPref] /\ step' \in [Messages -> Steps]
        /\ tiers' \in [Messages -> SUBSET Tiers]
    BY <2>1, <2>2 DEF StartCall, Steps
  <2> QED
    BY <1>6, <2>3, <2>4 DEF Deliver, turnVars
<1>7. ASSUME NEW m \in Messages, LadderStep(m) PROVE TypeOK'
  <2>1. ASSUME loop = <<>> PROVE loop' \in Seq(Messages)
    BY <1>7, <2>1 DEF LadderStep
  <2>2. ASSUME loop # <<>> PROVE loop' \in Seq(Messages)
    <3>1. loop' = Tail(loop)
      BY <1>7, <2>2 DEF LadderStep
    <3> QED
      BY <2>2, <3>1
  <2>3. loop' \in Seq(Messages)
    BY <2>1, <2>2
  <2> QED
    BY <1>7, <2>3, TierStepTypes DEF LadderStep
<1>8. CASE DrainQueue
  <2> DEFINE waiting == {queue[i] : i \in DOMAIN queue}
  <2>1. RedeliveryPref \in DeliveryPref
    BY DEF RedeliveryPref, DefaultPref, DeliveryPref
  <2>2. CandidateTiers(steeringTier, TRUE, RedeliveryPref) \in SUBSET Tiers
    BY <2>1, PlannedTiers
  <2>3. waiting \subseteq Messages
    OBVIOUS
  <2> QED
    BY <1>8, <2>1, <2>2, <2>3 DEF DrainQueue, turnVars, Steps
<1>9. CASE SessionEnds
  BY <1>9 DEF SessionEnds, LoopFree, InFlight, Steps
<1>10. CASE UNCHANGED vars
  BY <1>10 DEF vars, turnVars, callVars
<1> QED
  BY <1>1, <1>2, <1>3, <1>4, <1>5, <1>6, <1>7, <1>8, <1>9, <1>10 DEF Next, KernelStep
-----------------------------------------------------------------------------
(* A step of one message says nothing of the others: what has to be shown  *)
(* of it is what it does to its own message.                               *)
LEMMA OneMessage ==
  ASSUME LadderInv, NEW m \in Messages, step[m] # "done", MessageInv(m)',
         UNCHANGED <<open, queue>>,
         \A n \in Messages \ {m} :
           UNCHANGED <<step[n], word[n], receipt[n], tiers[n], pref[n]>>,
         \A x \in Contents \ {m} : UNCHANGED <<phase[x], taken[x]>>
  PROVE  /\ \A n \in Messages : MessageInv(n)'
         /\ \A x \in Contents \ Messages : PromptInv(x)'
         /\ QueueInv'
<1>1. ASSUME NEW n \in Messages, n # m PROVE MessageInv(n)'
  <2>1. n \in Contents
    BY DEF Contents
  <2> QED
    BY <1>1, <2>1 DEF LadderInv, MessageInv, Untouched
<1>2. ASSUME NEW x \in Contents \ Messages PROVE PromptInv(x)'
  BY <1>2 DEF LadderInv, PromptInv
<1>3. QueueInv'
  <2> SUFFICES ASSUME NEW i \in DOMAIN queue
               PROVE  /\ step'[queue[i]] = "done" /\ receipt'[queue[i]] = "queued"
                      /\ taken'[queue[i]] = 0 /\ phase'[queue[i]] = "none"
    BY DEF QueueInv, Untouched
  <2>1. queue[i] \in Messages \ {m} /\ queue[i] \in Contents
    BY DEF LadderInv, QueueInv, TypeOK, Contents
  <2> QED
    BY <2>1 DEF LadderInv, QueueInv, Untouched
<1> QED
  BY <1>1, <1>2, <1>3

(* A step of a prompt, or of the agent in its turns, moves no call: turns  *)
(* that begin or are sent are left out here.                               *)
LEMMA CallsRest ==
  ASSUME LadderInv, UNCHANGED <<callVars, queue, taken>>, open' => open,
         \A x \in Contents : /\ phase[x] = "none" <=> phase'[x] = "none"
                             /\ phase[x] = "snapshot" <=> phase'[x] = "snapshot"
  PROVE  /\ \A n \in Messages : MessageInv(n)'
         /\ \A x \in Contents \ Messages : PromptInv(x)'
         /\ QueueInv'
<1>1. ASSUME NEW n \in Messages PROVE MessageInv(n)'
  <2>1. n \in Contents
    BY DEF Contents
  <2> QED
    BY <2>1 DEF LadderInv, MessageInv, Untouched, callVars
<1>2. ASSUME NEW x \in Contents \ Messages PROVE PromptInv(x)'
  BY <1>2 DEF LadderInv, PromptInv
<1>3. QueueInv'
  BY DEF LadderInv, QueueInv, Untouched, callVars, TypeOK, Contents
<1> QED
  BY <1>1, <1>2, <1>3

(* A turn begun with a message that is untouched: its prompt waits for the *)
(* snapshot, or the session is gone.                                       *)
LEMMA MessageBegins ==
  ASSUME LadderInv, NEW m \in Messages, step[m] \notin {"replied", "done"}, BeginTurn(m),
         Return(m, "injected"), UNCHANGED <<open, queue, tiers, pref, word, taken>>
  PROVE  /\ \A n \in Messages : MessageInv(n)'
         /\ \A x \in Contents \ Messages : PromptInv(x)'
         /\ QueueInv'
<1>1. m \in Contents /\ TypeOK
  BY DEF Contents, LadderInv
<1>2. /\ IF open THEN phase' = [phase EXCEPT ![m] = "snapshot"] ELSE phase' = phase
      /\ step' = [step EXCEPT ![m] = "done"]
      /\ receipt' = [receipt EXCEPT ![m] = "injected"]
  BY <1>1, BegunTurn DEF Return
<1>3. MessageInv(m) /\ Untouched(m)
  BY DEF LadderInv, MessageInv
<1>4. step'[m] = "done" /\ taken'[m] = 0 /\ (open => phase'[m] = "snapshot")
  BY <1>1, <1>2, <1>3 DEF TypeOK, Untouched
<1>5. MessageInv(m)'
  BY <1>1, <1>3, <1>4 DEF MessageInv
<1>6. /\ \A n \in Messages \ {m} : UNCHANGED <<step[n], receipt[n]>>
      /\ \A x \in Contents \ {m} : UNCHANGED phase[x]
  BY <1>1, <1>2 DEF TypeOK
<1> QED
  BY <1>5, <1>6, OneMessage

(* A call that concludes without an injection, waits or goes on leaves its *)
(* message untouched.                                                      *)
LEMMA MessageMoves ==
  ASSUME LadderInv, NEW m \in Messages, step[m] # "done", Untouched(m),
         UNCHANGED <<open, queue, phase, taken, pref, word>>,
         step'[m] # "replied",
         step'[m] # "done" => receipt'[m] = receipt[m],
         step'[m] = "done" => receipt'[m] # "injected",
         step'[m] = "interrupting" => pref[m].allowInterrupt,
         \A n \in Messages : tiers'[n] \subseteq tiers[n],
         \A n \in Messages \ {m} : UNCHANGED <<step[n], receipt[n], tiers[n]>>
  PROVE  /\ \A n \in Messages : MessageInv(n)'
         /\ \A x \in Contents \ Messages : PromptInv(x)'
         /\ QueueInv'
<1>1. MessageInv(m)'
  BY DEF LadderInv, MessageInv, Untouched
<1> QED
  BY <1>1, OneMessage

(* So does a call that falls through a tier. *)
LEMMA FallenThroughMoves ==
  ASSUME LadderInv, NEW m \in Messages, step[m] # "done", Untouched(m), NEW tier,
         FallThrough(m, tier), UNCHANGED <<open, queue, phase, taken, pref, word>>
  PROVE  /\ \A n \in Messages : MessageInv(n)'
         /\ \A x \in Contents \ Messages : PromptInv(x)'
         /\ QueueInv'
<1>1. /\ \A n \in Messages : tiers'[n] \subseteq tiers[n]
      /\ \A n \in Messages \ {m} : step'[n] = step[n] /\ receipt'[n] = receipt[n]
      /\ \/ step'[m] = "done" /\ receipt'[m] = "no_active_turn"
         \/ step'[m] = "trying" /\ receipt'[m] = receipt[m]
  BY FallenThrough DEF LadderInv
<1>2. \A n \in Messages \ {m} : tiers'[n] = tiers[n]
  BY DEF LadderInv, TypeOK, FallThrough
<1> QED
  BY <1>1, <1>2, MessageMoves

(* Every tier keeps the invariant. *)
LEMMA TierStepInductive ==
  ASSUME LadderInv, NEW m \in Messages, TierStep(m)
  PROVE  /\ \A n \in Messages : MessageInv(n)'
         /\ \A x \in Contents \ Messages : PromptInv(x)'
         /\ QueueInv' /\ CorrectionInv'
<1> DEFINE Kept == /\ \A n \in Messages : MessageInv(n)'
                   /\ \A x \in Contents \ Messages : PromptInv(x)'
                   /\ QueueInv'
<1>type. TypeOK /\ MessageInv(m) /\ m \in Contents
  BY DEF LadderInv, Contents
<1>1. CASE TryNative(m)
  <2>1. /\ Untouched(m) /\ step[m] = "trying" /\ FallThrough(m, "native")
        /\ UNCHANGED <<open, queue, phase, taken, pref, word, agent, steeringTier, refused>>
    BY <1>1, <1>type DEF TryNative, Trying, turnVars, MessageInv
  <2>2. Kept
    BY <1>type, <2>1, FallenThroughMoves
  <2> QED
    BY <2>1, <2>2 DEF LadderInv, CorrectionInv
<1>2. CASE TryExtension(m)
  <2>1. /\ Untouched(m) /\ step[m] = "trying" /\ step'[m] \in {"steering", "failed"}
        /\ \A n \in Messages \ {m} : UNCHANGED step[n]
        /\ UNCHANGED <<open, queue, phase, taken, pref, word, receipt, tiers>>
        /\ UNCHANGED <<agent, steeringTier, refused>>
    BY <1>2, <1>type DEF TryExtension, Trying, turnVars, MessageInv, TypeOK
  <2> QED
    BY <2>1, MessageMoves DEF LadderInv, CorrectionInv
<1>3. CASE Retry(m)
  <2>1. /\ Untouched(m) /\ step[m] = "waiting" /\ step'[m] = "trying"
        /\ \A n \in Messages \ {m} : UNCHANGED step[n]
        /\ UNCHANGED <<open, queue, phase, taken, pref, word, receipt, tiers>>
        /\ UNCHANGED <<agent, steeringTier, refused>>
    BY <1>3, <1>type DEF Retry, turnVars, MessageInv, TypeOK
  <2> QED
    BY <2>1, MessageMoves DEF LadderInv, CorrectionInv
<1>4. CASE SteeringRefused(m)
  <2>1. /\ Untouched(m) /\ step[m] = "replied"
        /\ UNCHANGED <<open, queue, phase, taken, pref, word, agent>>
    BY <1>4, <1>type DEF SteeringRefused, turnVars, MessageInv, Untouched
  <2>2. Kept
    BY <1>4, <2>1, FallenThroughMoves DEF SteeringRefused
  <2>3. CorrectionInv'
    <3>1. "concurrent" \in WeakTiers /\ "concurrent" \in Tiers
      BY TierRanks DEF WeakTiers
    <3> QED
      BY <1>4, <1>type, <2>1, <3>1, WeakestTier DEF SteeringRefused, CorrectionInv, TypeOK
  <2> QED
    BY <2>2, <2>3
<1>5. CASE SteeringReplied(m)
  <2> DEFINE outcome == MapSteeringOutcome(word[m])
  <2>1. /\ step[m] = "replied" /\ phase[m] = "none"
        /\ word[m] \in {"injected", "failed", "promptRequired"}
        /\ taken[m] = IF word[m] = "injected" THEN 1 ELSE 0
        /\ Conclude(m, outcome)
        /\ UNCHANGED <<open, queue, phase, taken, pref, word, tiers, agent, steeringTier, refused>>
    BY <1>5, <1>type DEF SteeringReplied, turnVars, MessageInv
  <2>2. /\ outcome \in Outcomes
        /\ word[m] # "injected" => outcome # "injected"
        /\ word[m] = "injected" => outcome = "injected"
    BY <2>1, MappedOutcome DEF SteeringWords
  <2>3. /\ \A n \in Messages \ {m} : step'[n] = step[n] /\ receipt'[n] = receipt[n]
        /\ \/ step'[m] = "done" /\ receipt'[m] = outcome
           \/ step'[m] = "waiting" /\ receipt'[m] = receipt[m] /\ outcome = "no_active_turn"
    BY <1>type, <2>1, <2>2, ConcludedCall
  <2>4. CorrectionInv'
    BY <2>1 DEF LadderInv, CorrectionInv
  <2>5. CASE word[m] = "injected"
    <3>1. MessageInv(m)'
      BY <1>type, <2>1, <2>2, <2>3, <2>5 DEF MessageInv
    <3> QED
      BY <2>1, <2>3, <2>4, <3>1, OneMessage
  <2>6. CASE word[m] # "injected"
    BY <2>1, <2>2, <2>3, <2>4, <2>6, MessageMoves DEF Untouched
  <2> QED
    BY <2>5, <2>6
<1>6. CASE SteeringFailed(m) \/ LadderExhausted(m)
  <2>1. /\ Untouched(m) /\ step[m] # "done"
        /\ Return(m, "error") \/ Return(m, "unsupported")
        /\ UNCHANGED <<open, queue, phase, taken, pref, word, tiers, agent, steeringTier, refused>>
    BY <1>6, <1>type DEF SteeringFailed, LadderExhausted, turnVars, MessageInv
  <2>2. /\ step'[m] = "done" /\ receipt'[m] # "injected"
        /\ \A n \in Messages \ {m} : step'[n] = step[n] /\ receipt'[n] = receipt[n]
    BY <1>type, <2>1, ConcludedCall DEF Outcomes
  <2> QED
    BY <2>1, <2>2, MessageMoves DEF LadderInv, CorrectionInv
<1>7. CASE TryConcurrent(m) \/ TrySoftInterrupt(m)
  <2>1. /\ Untouched(m) /\ step[m] = "trying"
        /\ UNCHANGED <<open, queue, taken, pref, word, tiers, agent, steeringTier, refused>>
        /\ TrySoftInterrupt(m) => pref[m].allowInterrupt
    BY <1>7, <1>type DEF TryConcurrent, TrySoftInterrupt, Trying, turnVars, MessageInv
  <2>2. CorrectionInv'
    BY <2>1 DEF LadderInv, CorrectionInv
  <2>3. CASE BeginTurn(m) /\ Return(m, "injected")
    BY <2>1, <2>2, <2>3, MessageBegins
  <2>4. CASE Conclude(m, "no_active_turn") /\ UNCHANGED turnVars
    <3>1. /\ \A n \in Messages \ {m} : step'[n] = step[n] /\ receipt'[n] = receipt[n]
          /\ \/ step'[m] = "done" /\ receipt'[m] = "no_active_turn"
             \/ step'[m] = "waiting" /\ receipt'[m] = receipt[m]
      BY <1>type, <2>4, ConcludedCall DEF Outcomes
    <3> QED
      BY <2>1, <2>2, <2>4, <3>1, MessageMoves DEF turnVars
  <2>5. CASE /\ TrySoftInterrupt(m)
             /\ step' = [step EXCEPT ![m] = IF open THEN "interrupting" ELSE "failed"]
             /\ UNCHANGED <<retrying, receipt, turnVars>>
    <3>1. /\ step'[m] \in {"interrupting", "failed"}
          /\ \A n \in Messages \ {m} : step'[n] = step[n]
      BY <1>type, <2>5 DEF TypeOK
    <3> QED
      BY <2>1, <2>2, <2>5, <3>1, MessageMoves DEF turnVars
  <2> QED
    BY <1>7, <2>3, <2>4, <2>5 DEF TryConcurrent, TrySoftInterrupt
<1>8. CASE Interrupted(m)
  BY <1>8, MessageBegins DEF Interrupted, LadderInv, CorrectionInv
<1>9. CASE TryQueue(m)
  <2>1. /\ Untouched(m) /\ step[m] = "trying" /\ queue' = Append(queue, m)
        /\ step' = [step EXCEPT ![m] = "done"] /\ receipt' = [receipt EXCEPT ![m] = "queued"]
        /\ UNCHANGED <<open, phase, taken, pref, word, tiers, agent, steeringTier, refused>>
    BY <1>9, <1>type DEF TryQueue, Trying, Return, turnVars, MessageInv
  <2>2. ASSUME NEW n \in Messages PROVE MessageInv(n)'
    BY <1>type, <2>1 DEF LadderInv, MessageInv, Untouched, TypeOK
  <2>3. \A x \in Contents \ Messages : PromptInv(x)'
    BY <2>1 DEF LadderInv, PromptInv
  <2>4. ASSUME NEW i \in DOMAIN queue'
        PROVE  /\ step'[queue'[i]] = "done" /\ receipt'[queue'[i]] = "queued"
               /\ taken'[queue'[i]] = 0 /\ phase'[queue'[i]] = "none"
    <3>1. queue'[i] = m \/ (i \in DOMAIN queue /\ queue'[i] = queue[i] /\ queue[i] \in Messages)
      BY <1>type, <2>1, <2>4 DEF TypeOK
    <3> QED
      BY <1>type, <2>1, <3>1 DEF LadderInv, QueueInv, Untouched, TypeOK
  <2>5. QueueInv' /\ CorrectionInv'
    BY <2>1, <2>4 DEF LadderInv, QueueInv, Untouched, CorrectionInv
  <2> QED
    BY <2>2, <2>3, <2>5
<1> QED
  BY <1>1, <1>2, <1>3, <1>4, <1>5, <1>6, <1>7, <1>8, <1>9 DEF TierStep

(* Every step keeps the invariant. *)
LEMMA LadderInductive == LadderInv /\ [Next]_vars => LadderInv'
<1> SUFFICES ASSUME LadderInv, [Next]_vars PROVE LadderInv'
  OBVIOUS
<1> DEFINE Kept == /\ \A n \in Messages : MessageInv(n)'
                   /\ \A x \in Contents \ Messages : PromptInv(x)'
                   /\ QueueInv' /\ CorrectionInv'
<1>type. TypeOK /\ TypeOK'
  BY TypeInductive DEF LadderInv
<1>suffices. ASSUME Kept PROVE LadderInv'
  BY <1>type, <1>suffices DEF LadderInv
<1>known. ASSUME UNCHANGED <<agent, steeringTier, refused>> PROVE CorrectionInv'
  BY <1>known DEF LadderInv, CorrectionInv
<1>1. ASSUME NEW x \in PromptsOfSession, Prompt(x) PROVE LadderInv'
  <2>1. x \in Contents \ Messages
    BY DeliveryConstants DEF PromptsOfSession, Contents
  <2>2. /\ phase' = [phase EXCEPT ![x] = "snapshot"] /\ phase[x] = "none"
        /\ UNCHANGED <<agent, open, steeringTier, queue, callVars, taken, refused>>
    BY <1>1, <2>1, <1>type, BegunTurn DEF Prompt
  <2>3. \A y \in Contents \ {x} : phase'[y] = phase[y]
    BY <1>type, <2>2 DEF TypeOK
  <2>4. ASSUME NEW n \in Messages PROVE MessageInv(n)'
    BY <2>1, <2>2, <2>3 DEF LadderInv, MessageInv, Untouched, callVars, Contents
  <2>5. \A y \in Contents \ Messages : PromptInv(y)'
    BY <2>2, <2>3 DEF LadderInv, PromptInv
  <2>6. QueueInv'
    BY <1>type, <2>1, <2>2, <2>3 DEF LadderInv, QueueInv, Untouched, callVars, TypeOK, Contents
  <2> QED
    BY <2>2, <2>4, <2>5, <2>6, <1>suffices, <1>known
<1>2. ASSUME NEW x \in Contents, SendPrompt(x) PROVE LadderInv'
  <2>1. /\ phase[x] = "snapshot" /\ phase'[x] \notin {"none", "snapshot"}
        /\ \A y \in Contents \ {x} : phase'[y] = phase[y] /\ taken'[y] = taken[y]
        /\ taken'[x] = IF open THEN taken[x] + 1 ELSE taken[x]
        /\ UNCHANGED <<agent, open, steeringTier, queue, callVars, refused>>
    BY <1>2, <1>type DEF SendPrompt, TypeOK
  <2>2. taken[x] = 0
    BY <2>1 DEF LadderInv, MessageInv, PromptInv
  <2>3. ASSUME NEW n \in Messages PROVE MessageInv(n)'
    <3>1. n \in Contents
      BY DEF Contents
    <3> QED
      BY <2>1, <2>2, <3>1 DEF LadderInv, MessageInv, Untouched, callVars
  <2>4. \A y \in Contents \ Messages : PromptInv(y)'
    BY <2>1, <2>2 DEF LadderInv, PromptInv
  <2>5. QueueInv'
    BY <1>type, <2>1 DEF LadderInv, QueueInv, Untouched, callVars, TypeOK, Contents
  <2> QED
    BY <2>1, <2>3, <2>4, <2>5, <1>suffices, <1>known
<1>3. ASSUME NEW x \in Contents, FinishTurn(x) \/ AgentRuns(x) \/ AgentStops(x)
      PROVE  LadderInv'
  <2>1. /\ phase[x] \in {"sent", "running", "answered"}
        /\ phase'[x] \in {"over", "running", "answered"}
        /\ \A y \in Contents \ {x} : phase'[y] = phase[y]
        /\ UNCHANGED <<agent, open, steeringTier, queue, callVars, taken, refused>>
    BY <1>3, <1>type DEF FinishTurn, AgentRuns, AgentStops, TypeOK
  <2> QED
    BY <2>1, CallsRest, <1>suffices, <1>known
<1>4. CASE AgentSpeaks
  BY <1>4, CallsRest, <1>suffices, <1>known DEF AgentSpeaks
<1>5. ASSUME NEW m \in Messages, AgentAnswers(m) PROVE LadderInv'
  <2>1. PICK w \in SteeringAnswers :
          /\ word' = [word EXCEPT ![m] = w]
          /\ taken' = [taken EXCEPT ![m] = IF w = "injected" THEN taken[m] + 1 ELSE taken[m]]
    BY <1>5 DEF AgentAnswers
  <2>2. w \in {"methodNotFound", "injected", "failed", "promptRequired"} /\ m \in Contents
    BY DEF SteeringAnswers, Contents
  <2>3. /\ step[m] = "steering" /\ step'[m] = "replied" /\ word'[m] = w
        /\ taken'[m] = IF w = "injected" THEN taken[m] + 1 ELSE taken[m]
        /\ \A n \in Messages \ {m} : step'[n] = step[n] /\ word'[n] = word[n]
        /\ \A x \in Contents \ {m} : taken'[x] = taken[x]
        /\ UNCHANGED <<agent, open, steeringTier, phase, queue, tiers, pref, receipt, refused>>
    BY <1>5, <1>type, <2>1, <2>2 DEF AgentAnswers, turnVars, TypeOK
  <2>4. MessageInv(m)'
    BY <2>2, <2>3 DEF LadderInv, MessageInv, Untouched
  <2> QED
    BY <2>3, <2>4, OneMessage, <1>suffices, <1>known
<1>6. ASSUME NEW m \in Messages, Deliver(m) PROVE LadderInv'
  <2>1. PICK p \in Prefs : StartCall(m, p)
    BY <1>6 DEF Deliver
  <2>2. /\ p \in DeliveryPref
        /\ "soft-interrupt" \in CandidateTiers(steeringTier, TRUE, p) => p.allowInterrupt
    BY <1>type, PlannedTiers, DeliveryConstants DEF TypeOK
  <2>3. /\ step[m] = "idle" /\ step'[m] = "trying" /\ pref'[m] = p
        /\ tiers'[m] = CandidateTiers(steeringTier, TRUE, p)
        /\ \A n \in Messages \ {m} : UNCHANGED <<step[n], tiers[n], pref[n]>>
        /\ UNCHANGED <<agent, open, steeringTier, phase, queue, word, receipt, taken, refused>>
    BY <1>6, <1>type, <2>1 DEF Deliver, StartCall, turnVars, TypeOK
  <2>4. MessageInv(m)'
    BY <2>2, <2>3 DEF LadderInv, MessageInv, Untouched
  <2> QED
    BY <2>3, <2>4, OneMessage, <1>suffices, <1>known
<1>7. ASSUME NEW m \in Messages, LadderStep(m) PROVE LadderInv'
  BY <1>7, TierStepInductive, <1>suffices DEF LadderStep
<1>8. CASE DrainQueue
  <2> DEFINE waiting == {queue[i] : i \in DOMAIN queue}
  <2>1. \A n \in waiting : step[n] = "done" /\ receipt[n] = "queued" /\ Untouched(n)
    BY DEF LadderInv, QueueInv
  <2>2. "soft-interrupt" \notin CandidateTiers(steeringTier, TRUE, RedeliveryPref)
    <3>1. RedeliveryPref \in DeliveryPref /\ ~RedeliveryPref.allowInterrupt
      BY DEF RedeliveryPref, DefaultPref, DeliveryPref
    <3> QED
      BY <1>type, <3>1, PlannedTiers DEF TypeOK
  <2>3. /\ UNCHANGED <<agent, open, steeringTier, phase, word, receipt, taken, refused>>
        /\ queue' = <<>>
    BY <1>8 DEF DrainQueue, turnVars
  <2> HIDE DEF waiting
  <2>4. /\ tiers' = [n \in Messages |->
                      IF n \in waiting THEN CandidateTiers(steeringTier, TRUE, RedeliveryPref)
                      ELSE tiers[n]]
        /\ step' = [n \in Messages |-> IF n \notin waiting THEN step[n]
                                       ELSE IF open THEN "trying" ELSE "failed"]
        /\ pref' = [n \in Messages |-> IF n \in waiting THEN RedeliveryPref ELSE pref[n]]
    BY <1>8 DEF DrainQueue, waiting
  <2>5. ASSUME NEW n \in Messages PROVE MessageInv(n)'
    <3>1. CASE n \in waiting
      <4>1. /\ step'[n] = IF open THEN "trying" ELSE "failed"
            /\ tiers'[n] = CandidateTiers(steeringTier, TRUE, RedeliveryPref)
        BY <2>4, <3>1
      <4>2. /\ step'[n] \in {"trying", "failed"} /\ receipt'[n] = "queued"
            /\ taken'[n] = 0 /\ phase'[n] = "none" /\ "soft-interrupt" \notin tiers'[n]
        BY <2>1, <2>2, <2>3, <3>1, <4>1 DEF Untouched
      <4> QED
        BY <4>2 DEF MessageInv, Untouched
    <3>2. CASE n \notin waiting
      <4>1. UNCHANGED <<step[n], tiers[n], pref[n]>>
        BY <2>4, <3>2
      <4> QED
        BY <2>3, <4>1 DEF LadderInv, MessageInv, Untouched
    <3> QED
      BY <3>1, <3>2
  <2>6. \A x \in Contents \ Messages : PromptInv(x)'
    BY <2>3 DEF LadderInv, PromptInv
  <2>7. QueueInv'
    BY <2>3 DEF QueueInv
  <2> QED
    BY <2>3, <2>5, <2>6, <2>7, <1>suffices, <1>known
<1>9. CASE SessionEnds
  <2>1. /\ ~open' /\ \A x \in Contents :
                       /\ phase[x] = "none" <=> phase'[x] = "none"
                       /\ phase[x] = "snapshot" <=> phase'[x] = "snapshot"
        /\ \A n \in Messages : step'[n] = IF step[n] = "steering" THEN "failed" ELSE step[n]
        /\ UNCHANGED <<agent, steeringTier, queue, tiers, pref, word, receipt, taken, refused>>
    BY <1>9 DEF SessionEnds
  <2>2. ASSUME NEW n \in Messages PROVE MessageInv(n)'
    <3>1. n \in Contents
      BY DEF Contents
    <3> QED
      BY <2>1, <3>1 DEF LadderInv, MessageInv, Untouched
  <2>3. \A x \in Contents \ Messages : PromptInv(x)'
    BY <2>1 DEF LadderInv, PromptInv
  <2>4. QueueInv'
    BY <1>type, <2>1 DEF LadderInv, QueueInv, Untouched, TypeOK, Contents
  <2> QED
    BY <2>1, <2>2, <2>3, <2>4, <1>suffices, <1>known
<1>10. CASE UNCHANGED vars
  BY <1>10, CallsRest, <1>suffices, <1>known DEF vars, turnVars
<1> QED
  BY <1>1, <1>2, <1>3, <1>4, <1>5, <1>6, <1>7, <1>8, <1>9, <1>10 DEF Next, KernelStep

(* The invariant holds in the beginning, when nothing has been delivered. *)
LEMMA LadderInitial == Init => LadderInv
<1> SUFFICES ASSUME Init PROVE LadderInv
  OBVIOUS
<1>1. TypeOK
  <2>1. agent.tier \in Tiers
    BY DeliveryConstants DEF Init, AgentKind
  <2>2. DefaultPref \in DeliveryPref
    BY DEF DefaultPref, DeliveryPref
  <2>3. /\ agent \in Agents /\ steeringTier \in Tiers
        /\ pref \in [Messages -> DeliveryPref] /\ tiers \in [Messages -> SUBSET Tiers]
        /\ queue \in Seq(Messages) /\ loop \in Seq(Messages)
    BY <2>1, <2>2 DEF Init
  <2>4. /\ step \in [Messages -> Steps]
        /\ word \in [Messages -> SteeringWords \cup {"methodNotFound"}]
        /\ receipt \in [Messages -> Outcomes \cup {NoReceipt, "error"}]
    BY DEF Init, Steps, SteeringWords
  <2> QED
    BY <2>3, <2>4 DEF Init, TypeOK
<1>2. \A m \in Messages : MessageInv(m)
  BY DEF Init, MessageInv, Untouched, Contents, NoReceipt
<1>3. \A x \in Contents \ Messages : PromptInv(x)
  BY DEF Init, PromptInv
<1>4. QueueInv /\ CorrectionInv
  BY DEF Init, QueueInv, CorrectionInv
<1> QED
  BY <1>1, <1>2, <1>3, <1>4 DEF LadderInv

(* A turn that a message begins while none runs has been asked for: the    *)
(* tier that begins one looks at the flag or has been allowed to interrupt *)
(* when the tiers were planned.                                            *)
LEMMA BegunWithLeave ==
  ASSUME LadderInv, [Next]_vars, NEW m \in Messages, phase[m] = "none",
         phase'[m] = "snapshot", ~turnActive
  PROVE  pref[m].startTurnIfIdle \/ pref[m].allowInterrupt
<1>type. TypeOK /\ m \in Contents
  BY DEF LadderInv, Contents
<1>1. ASSUME NEW x \in PromptsOfSession, Prompt(x) PROVE FALSE
  <2>1. x \in Contents \ Messages
    BY DeliveryConstants DEF PromptsOfSession, Contents
  <2> QED
    BY <1>1, <1>type, <2>1, BegunTurn DEF Prompt, TypeOK
<1>2. ASSUME NEW x \in Contents,
             SendPrompt(x) \/ FinishTurn(x) \/ AgentRuns(x) \/ AgentStops(x)
      PROVE  FALSE
  BY <1>2, <1>type DEF SendPrompt, FinishTurn, AgentRuns, AgentStops, TypeOK
<1>3. ASSUME UNCHANGED phase PROVE FALSE
  BY <1>3
<1>4. ASSUME NEW n \in Messages, TryConcurrent(n) \/ Interrupted(n)
      PROVE  pref[m].startTurnIfIdle \/ pref[m].allowInterrupt
  <2>1. n \in Contents /\ (BeginTurn(n) \/ UNCHANGED turnVars)
    BY <1>4 DEF TryConcurrent, Interrupted, Contents
  <2>2. n = m
    BY <1>type, <2>1, BegunTurn DEF turnVars, TypeOK
  <2>3. CASE TryConcurrent(n)
    BY <2>2, <2>3 DEF TryConcurrent, turnVars
  <2>4. CASE Interrupted(n)
    BY <2>2, <2>4 DEF Interrupted, LadderInv, MessageInv
  <2> QED
    BY <1>4, <2>3, <2>4
<1>5. ASSUME NEW n \in Messages, TierStep(n)
      PROVE  TryConcurrent(n) \/ Interrupted(n) \/ UNCHANGED phase
  BY <1>5 DEF TierStep, TryNative, TryExtension, TrySoftInterrupt, TryQueue, LadderExhausted,
     SteeringRefused, SteeringReplied, SteeringFailed, Retry, turnVars
<1>6. CASE SessionEnds
  BY <1>6, <1>type DEF SessionEnds
<1>7. CASE AgentSpeaks \/ DrainQueue \/ UNCHANGED vars
  BY <1>3, <1>7 DEF AgentSpeaks, DrainQueue, vars, turnVars
<1>8. ASSUME NEW n \in Messages, AgentAnswers(n) \/ Deliver(n) PROVE FALSE
  BY <1>3, <1>8 DEF AgentAnswers, Deliver, turnVars
<1> QED
  BY <1>1, <1>2, <1>3, <1>4, <1>5, <1>6, <1>7, <1>8 DEF Next, KernelStep, LadderStep

(* A delivery that begins after the correction does not plan the tier that *)
(* has been found absent.                                                  *)
LEMMA PlannedAfterCorrection ==
  ASSUME LadderInv, [Next]_vars, NEW m \in Messages, refused, agent.correctable,
         step[m] = "idle", step'[m] = "trying"
  PROVE  "extension" \notin tiers'[m]
<1>type. TypeOK /\ TypeOK' /\ steeringTier \in WeakTiers
  BY TypeInductive DEF LadderInv, CorrectionInv
<1>1. ASSUME NEW n \in Messages, Deliver(n) PROVE "extension" \notin tiers'[m]
  <2>1. PICK p \in Prefs : StartCall(n, p)
    BY <1>1 DEF Deliver
  <2>2. n = m /\ tiers'[m] = CandidateTiers(steeringTier, TRUE, p)
    BY <1>type, <2>1 DEF StartCall, TypeOK
  <2>3. p \in DeliveryPref /\ TRUE \in BOOLEAN /\ steeringTier \in Tiers
    BY <1>type, DeliveryConstants DEF TypeOK
  <2>4. "extension" \notin CandidateTiers(steeringTier, TRUE, p)
    BY <1>type, <2>3, PlannedTiers
  <2> QED
    BY <2>2, <2>4
<1>2. ASSUME UNCHANGED step PROVE FALSE
  BY <1>2
<1>3. ASSUME NEW n \in Messages, TierStep(n) PROVE FALSE
  <2>1. step[n] # "idle" /\ \A k \in Messages \ {n} : step'[k] = step[k]
    BY <1>3, <1>type DEF TierStep, TryNative, TryExtension, TryConcurrent, TrySoftInterrupt,
       TryQueue, LadderExhausted, SteeringRefused, SteeringReplied, SteeringFailed,
       Interrupted, Retry, Trying, FallThrough, Conclude, Return, WaitThenRetry, TypeOK
  <2> QED
    BY <2>1
<1>4. ASSUME NEW n \in Messages, AgentAnswers(n) PROVE FALSE
  BY <1>4, <1>type DEF AgentAnswers, TypeOK
<1>5. CASE SessionEnds
  BY <1>5 DEF SessionEnds
<1>6. CASE DrainQueue
  <2>1. \A i \in DOMAIN queue : step[queue[i]] = "done"
    BY DEF LadderInv, QueueInv
  <2> QED
    BY <1>6, <2>1 DEF DrainQueue
<1>7. ASSUME NEW x \in Contents, \/ SendPrompt(x) \/ FinishTurn(x) \/ AgentRuns(x)
                                 \/ AgentStops(x) \/ Prompt(x)
      PROVE  FALSE
  BY <1>2, <1>7 DEF SendPrompt, FinishTurn, AgentRuns, AgentStops, Prompt, callVars
<1>8. CASE AgentSpeaks \/ UNCHANGED vars
  BY <1>2, <1>8 DEF AgentSpeaks, vars, callVars
<1>9. PromptsOfSession \subseteq Contents
  BY DEF PromptsOfSession, Contents
<1> QED
  BY <1>1, <1>3, <1>4, <1>5, <1>6, <1>7, <1>8, <1>9 DEF Next, KernelStep, LadderStep
-----------------------------------------------------------------------------
(* Every variable of the ladder and of the turns keeps its type. *)
THEOREM TypeCorrect == Spec => []TypeOK
<1>1. LadderInv => TypeOK
  BY DEF LadderInv
<1> QED
  BY <1>1, LadderInitial, LadderInductive, PTL DEF Spec

(* However a message falls through the tiers, is retried in the startup    *)
(* window or delivered again from the queue, and however prompts and turns *)
(* overlap with that, the agent never takes it twice (ladder.ts, deliver). *)
THEOREM TakenAtMostOnceHolds == Spec => []TakenAtMostOnce
<1>1. LadderInv => TakenAtMostOnce
  BY DEF LadderInv, MessageInv, PromptInv, TakenAtMostOnce
<1> QED
  BY <1>1, LadderInitial, LadderInductive, PTL DEF Spec

(* While the session lives, a receipt "injected" is true (ladder.ts,       *)
(* mapSteeringOutcome, tryConcurrent, trySoftInterrupt).                   *)
THEOREM InjectedIsOnItsWayHolds == Spec => []InjectedIsOnItsWay
<1>1. LadderInv => InjectedIsOnItsWay
  BY DEF LadderInv, MessageInv, InjectedIsOnItsWay
<1> QED
  BY <1>1, LadderInitial, LadderInductive, PTL DEF Spec

(* A delivery begins no turn nobody asked for and plans no channel known   *)
(* to be absent (ladder.ts, candidateTiers, tryConcurrent, trySteering).   *)
THEOREM NothingUncalledForHolds == Spec => NothingUncalledFor
<1>1. LadderInv /\ [Next]_vars =>
        [\A m \in Messages :
           (phase[m] = "none" /\ phase'[m] = "snapshot" /\ ~turnActive) =>
             pref[m].startTurnIfIdle \/ pref[m].allowInterrupt]_vars
  BY BegunWithLeave
<1>2. LadderInv /\ [Next]_vars =>
        [\A m \in Messages :
           (refused /\ agent.correctable /\ step[m] = "idle" /\ step'[m] = "trying") =>
             "extension" \notin tiers'[m]]_vars
  BY PlannedAfterCorrection
<1> QED
  BY <1>1, <1>2, LadderInitial, LadderInductive, PTL
     DEF Spec, NothingUncalledFor, NoSilentTurn, NoWastedExtension
=============================================================================
