----------------------------- MODULE MCBudgetDB -----------------------------
(* Three budget states (one of them the cleared state).                    *)
EXTENDS BudgetDB

CONSTANTS s0, s1, s2

MCStates == {s0, s1, s2}
=============================================================================
