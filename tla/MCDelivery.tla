----------------------------- MODULE MCDelivery -----------------------------
(* Instances of Delivery for TLC.                                          *)
EXTENDS Delivery, TLC

CONSTANTS m1, m2, p1, t0

MCMessages == {m1, m2}
MCPrompts == {p1}

Pref(t, max, interrupt, start) ==
  [tier |-> t, maxTier |-> max, allowInterrupt |-> interrupt,
   startTurnIfIdle |-> start]

(* The default, a caller that starts turns, one that interrupts, one that  *)
(* wants the queue and one that forbids the weaker tiers.                  *)
AllPrefs == {DefaultPref,
             Pref(Unset, Unset, FALSE, TRUE),
             Pref("soft-interrupt", Unset, TRUE, FALSE),
             Pref("queue", Unset, FALSE, FALSE),
             Pref("native", "extension", FALSE, FALSE)}

QueuePrefs == {DefaultPref, Pref("queue", Unset, FALSE, FALSE)}

Agent(t, steers, correctable) ==
  [tier |-> t, steers |-> steers, correctable |-> correctable]

(* One that steers, one whose steering is advertised but absent (and that  *)
(* is described as native, so that a delivery passes through every tier).  *)
SteeringAgents == {Agent("extension", TRUE, TRUE), Agent("native", FALSE, TRUE)}

(* One that takes concurrent prompts, one that steers, and one whose       *)
(* missing steering nobody has an overlay entry for.                       *)
LiveAgents == {Agent("concurrent", FALSE, TRUE), Agent("extension", TRUE, TRUE),
               Agent("extension", FALSE, FALSE)}

MessageSymmetry == Permutations(MCMessages)
=============================================================================
