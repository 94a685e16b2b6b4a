------------------------- MODULE MCBudgetAllocation -------------------------
(* Three proposals over heights 0..5 with two-block cycles, so the next    *)
(* cycle is [2,3], [4,5] or [6,7].  p1 and p2 can tie on votes and do not  *)
(* fit together (the 60% / 50% scenario of spec 8); p3 starts a cycle      *)
(* later.  A budget of 10 and 10 enabled masternodes (threshold: net > 1). *)
EXTENDS BudgetAllocation, BudgetCollateral, TLC

CONSTANTS p1, p2, p3

MCProposals == {p1, p2, p3}
MCBlockStart == p1 :> 2 @@ p2 :> 2 @@ p3 :> 4
\* payment counts giving nBlockEnd 3, 5 and 7
MCPaymentCount == p1 :> 2 @@ p2 :> 4 @@ p3 :> 4
\* counts as an operator would give them: one and two monthly payments
MCShortPaymentCount == p1 :> 1 @@ p2 :> 2 @@ p3 :> 1
MCAmount == p1 :> 6 @@ p2 :> 5 @@ p3 :> 4
MCFeeHash == p1 :> 3 @@ p2 :> 1 @@ p3 :> 2

(* The collateral check at every tip the chain reaches, precomputed. *)
CollateralExact == [h \in 0..MaxHeight |-> CollateralExactAt(h)]

(* Spec 4.4: at the current tip, IsBudgetCollateralValid accepts exactly   *)
(* the fee transactions the spec does, for every combination of outputs,  *)
(* lock time, instant-send locks and containing block (mempool, active or  *)
(* stale, at any height up to the tip or above it): the early returns and *)
(* the confirmation count (IX locks plus depth including the block itself) *)
(* agree with the spec's rule at the threshold.                            *)
CollateralCheckIsSpec == CollateralExact[height]
=============================================================================
