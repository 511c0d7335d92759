--------------------------- MODULE DeliveryTiers ---------------------------
(***************************************************************************)
(* The vocabulary of the delivery ladder and its two pure decisions: which *)
(* tiers one delivery may try (candidateTiers) and how the answer of       *)
(* _session/steering becomes a receipt (mapSteeringOutcome).               *)
(***************************************************************************)
EXTENDS Naturals, Sequences

(* DELIVERY_TIER_ORDER: from the strongest tier to the weakest. *)
TierOrder == <<"native", "extension", "concurrent", "soft-interrupt", "queue">>

Tiers == {TierOrder[i] : i \in 1 .. 5}

(* A tier a request leaves out (pref.tier, pref.maxTier undefined). *)
Unset == "unset"

TierRank(t) == CHOOSE i \in 1 .. 5 : TierOrder[i] = t

Stronger(t, u) == TierRank(t) < TierRank(u)

Weakest(t, u) == IF Stronger(t, u) THEN u ELSE t

(* DeliveryPref: what a caller may ask of one delivery. *)
DeliveryPref == [tier : Tiers \cup {Unset}, maxTier : Tiers \cup {Unset},
                 allowInterrupt : BOOLEAN, startTurnIfIdle : BOOLEAN]

DefaultPref == [tier |-> Unset, maxTier |-> Unset,
                allowInterrupt |-> FALSE, startTurnIfIdle |-> FALSE]

(* The tiers a delivery may try, the strongest first: from the weaker of   *)
(* capability and request down to maxTier, without an interruption nobody  *)
(* allowed and without a queue the agent lacks.  The code keeps them in an *)
(* array in the order of TierOrder, which a set of tiers determines.       *)
CandidateTiers(capTier, queueSupported, pref) ==
  LET first == IF pref.tier = Unset THEN capTier ELSE Weakest(capTier, pref.tier)
      floor == IF pref.maxTier = Unset THEN "queue" ELSE pref.maxTier
      last  == Weakest(first, floor)
  IN  {t \in Tiers : /\ ~Stronger(t, first) /\ ~Stronger(last, t)
                     /\ t = "soft-interrupt" => pref.allowInterrupt
                     /\ t = "queue" => queueSupported}

Outcomes == {"injected", "queued", "no_active_turn", "completed_race",
             "failed", "unsupported"}

(* What an agent may write in the outcome field of its steering answer. *)
SteeringWords == {"absent", "injected", "startedNewTurn", "promptRequired",
                  "noRunningTurn", "queued", "completedRace", "failed",
                  "unsupported", "otherWord"}

(* Mutant: whatever is not a failure has got in. *)
OptimisticOutcome(word) == IF word = "failed" THEN word ELSE "injected"

(* An absent outcome counts as injected, an unknown word as unsupported. *)
MapSteeringOutcome(word) ==
  CASE word \in {"absent", "injected", "startedNewTurn"} -> "injected"
    [] word \in {"promptRequired", "noRunningTurn"}      -> "no_active_turn"
    [] word = "completedRace"                            -> "completed_race"
    [] word \in {"queued", "failed"}                     -> word
    [] OTHER                                             -> "unsupported"
=============================================================================
