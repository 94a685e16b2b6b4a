-------------------------- MODULE BudgetCollateral --------------------------
(***************************************************************************)
(* IsBudgetCollateralValid (masternode-budget.cpp): the fee transaction    *)
(* that a proposal names must exist, carry no lock time, have only normal *)
(* payment or unspendable outputs, mark the proposal with an OP_RETURN    *)
(* output of at least PROPOSAL_FEE_TX, and be confirmed deeply enough.    *)
(*                                                                         *)
(* Data abstraction: a transaction is a record of what the checks read.   *)
(* An output is one of five kinds; "mark" is OP_RETURN <proposal hash>    *)
(* with at least the fee, "markLow" the same script with less, "burn" any *)
(* other unspendable script.  The containing block is NoBlock (mempool)   *)
(* or a record of its height and whether it is on the active chain.       *)
(***************************************************************************)
EXTENDS Integers, FiniteSets

CONSTANTS
    FeeConfirmations,   \* Params().Budget_Fee_Confirmations()
    MaxIX,              \* bound on GetIXConfirmations
    BlockHeights,       \* heights a containing block may have
    NoBlock             \* nBlockHash == 0: the transaction is not in a block

OutputKinds == {"pay", "mark", "markLow", "burn", "odd"}

Tx == [found : BOOLEAN, lockTime : {0, 1}, outs : SUBSET OutputKinds,
       ix : 0..MaxIX,
       block : {NoBlock} \cup [height : BlockHeights, active : BOOLEAN]]

(* CScript::IsNormalPaymentScript and CScript::IsUnspendable. *)
IsNormalPaymentScript(o) == o = "pay"
IsUnspendable(o) == o \in {"mark", "markLow", "burn"}

(* o.scriptPubKey == findScript && o.nValue >= PROPOSAL_FEE_TX *)
MarksProposal(o) == o = "mark"

(* Mutation: chain depth counted without the containing block itself. *)
ConfirmationsNoSelf(tx, tip) ==
    tx.ix + IF tx.block # NoBlock /\ tx.block.active /\ tx.block.height <= tip
            THEN tip - tx.block.height ELSE 0

(* GetIXConfirmations plus, when the containing block is on the active    *)
(* chain (chainActive.Contains), its depth below the tip.                  *)
Confirmations(tx, tip) ==
    tx.ix + IF tx.block # NoBlock /\ tx.block.active /\ tx.block.height <= tip
            THEN tip - tx.block.height + 1 ELSE 0

(* IsBudgetCollateralValid(nTxCollateralHash, nExpectedHash, ...) at a    *)
(* chain tip of height tip, its early returns in the code's order.         *)
IsBudgetCollateralValid(tx, tip) ==
    /\ tx.found
    /\ tx.outs # {}
    /\ tx.lockTime = 0
    /\ \A o \in tx.outs : IsNormalPaymentScript(o) \/ IsUnspendable(o)
    /\ \E o \in tx.outs : MarksProposal(o)
    /\ Confirmations(tx, tip) >= FeeConfirmations

-----------------------------------------------------------------------------
(* Spec 4.4, stated on its own terms: the blocks that confirm a            *)
(* transaction are its containing block and every active block above it,  *)
(* up to the tip.                                                          *)
ConfirmingBlocks(tx, tip) ==
    IF tx.block = NoBlock \/ ~tx.block.active THEN {}
    ELSE {b \in BlockHeights : tx.block.height <= b /\ b <= tip}

SpecCollateralOK(tx, tip) ==
    /\ tx.found /\ tx.lockTime = 0
    /\ tx.outs \subseteq {"pay", "mark", "markLow", "burn"}
    /\ "mark" \in tx.outs
    /\ tx.ix + Cardinality(ConfirmingBlocks(tx, tip)) >= FeeConfirmations

(* The code agrees with spec 4.4 on every transaction at tip height tip. *)
CollateralExactAt(tip) ==
    \A tx \in Tx : IsBudgetCollateralValid(tx, tip) <=> SpecCollateralOK(tx, tip)

=============================================================================
