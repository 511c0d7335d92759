---------------------------- MODULE MCDelegation ----------------------------
(* Instances of Delegation for TLC.                                        *)
EXTENDS Delegation

CONSTANTS t1, t2, r1

MCTasks == {t1, t2}
MCRoots == {r1}
=============================================================================
