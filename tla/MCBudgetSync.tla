---------------------------- MODULE MCBudgetSync ----------------------------
(* Instance of BudgetSync: two proposals (p2 fails IsValid at N) and two  *)
(* voters who both voted on p1.                                            *)
EXTENDS BudgetSync

CONSTANTS p1, p2, a1, a2

MCProposals == {p1, p2}
MCValid == {p1}
MCVoters == {a1, a2}
MCNetVotes == {<<p1, a1>>, <<p1, a2>>}
=============================================================================
