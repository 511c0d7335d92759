---------------------------- MODULE MCTurnRevert ----------------------------
(* Instances of TurnRevert for TLC.                                        *)
EXTENDS TurnRevert

CONSTANTS f1, t1, t2, u1, c1

OneFile == {f1}
OneTurn == {t1}
TwoTurns == {t1, t2}
OneEdit == {u1}
OneCall == {c1}
=============================================================================
