------------------------------ MODULE MCTurns ------------------------------
(* The files a turn changes and its revert, and the bookkeeping of turns,  *)
(* for TLC.  Which turns the ledger holds and what the trees hold are told *)
(* apart (a call for a turn that was dropped is one not made), so that a   *)
(* behaviour follows one of the two.                                       *)
(*                                                                         *)
(* Files: two turns that may overlap, the user, and a revert.  Ledger: two *)
(* turns of one session, which keeps one, and a turn of another.           *)
EXTENDS MCTurnRevert, TurnLedger, TLC

CONSTANTS e1, e2, e3, s1, s2

ThreeTurns == {e1, e2, e3}
TwoSessions == {s1, s2}
SessionOfTurn == e1 :> s1 @@ e2 :> s1 @@ e3 :> s2

VARIABLE part

MCInit ==
  /\ part \in {"files", "ledger"}
  /\ Init /\ LedgerInit
  /\ part = "ledger" => file = [p \in Files |-> Original]

MCNext ==
  \/ part = "files" /\ Next /\ UNCHANGED <<part, ledgerVars>>
  \/ part = "ledger" /\ LedgerNext /\ UNCHANGED <<part, vars>>

MCSpec == MCInit /\ [][MCNext]_<<part, vars, ledgerVars>> /\ LedgerFairness
=============================================================================
