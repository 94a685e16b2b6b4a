--------------------------- MODULE BudgetAllocation ---------------------------
(***************************************************************************)
(* CBudgetManager::GetBudget (masternode-budget.cpp): sort the admitted    *)
(* proposals by net votes, break ties by collateral hash, and grant them   *)
(* greedily under the cycle's total budget, writing each proposal's        *)
(* allotment as a side effect.  GetBudget is run by the                    *)
(* getbudgetprojection RPC at any time while the chain grows and the vote  *)
(* tallies change.                                                         *)
(*                                                                         *)
(* The tallies themselves are kept by BudgetManager; here the net vote     *)
(* count (GetYeas - GetNays) of each proposal is an input that moves by    *)
(* one vote at a time.                                                     *)
(***************************************************************************)
EXTENDS Integers, Sequences, SequencesExt, FiniteSets

CONSTANTS
    Proposals,     \* admitted proposals (mapProposals)
    BlockStart,    \* proposal -> nBlockStart (a cycle block)
    PaymentCount,  \* proposal -> payment-count argument of submitproposal
    Amount,        \* proposal -> nAmount
    FeeHash,       \* proposal -> nFeeTXHash, as a number (distinct per proposal)
    CycleBlocks,   \* GetBudgetPaymentCycleBlocks()
    TotalBudget,   \* GetTotalBudget(nBlockStart) of the cycle
    EnabledCount,  \* mnodeman.CountEnabled(ActiveProtocol())
    MaxHeight,     \* bound of the chain height
    MaxNet,        \* bound of |yeas - nays|
    GateMaxEnabled \* largest CountEnabled() the payment gate is checked for

ASSUME \A p, q \in Proposals : p # q => FeeHash[p] # FeeHash[q]
ASSUME \A p \in Proposals : BlockStart[p] % CycleBlocks = 0 /\ PaymentCount[p] >= 1

VARIABLES
    height,       \* chainActive.Tip()->nHeight
    net,          \* proposal -> GetYeas() - GetNays()
    established,  \* proposal -> IsEstablished()
    allotted,     \* proposal -> nAllotted (SetAllotted)
    winners,      \* the vector GetBudget last returned
    projection    \* the rows getbudgetprojection last returned

vars == <<height, net, established, allotted, winners, projection>>

-----------------------------------------------------------------------------
(* Mutations, each a plausible slip in GetBudget. *)
RankedBeforeAscendingTie(l, r) ==
    IF net[l] # net[r] THEN net[l] > net[r] ELSE FeeHash[l] < FeeHash[r]
-----------------------------------------------------------------------------

(* submitproposal validates the schedule with start + cycle * count, but  *)
(* constructs the proposal with nBlockEnd = start + count - 1.  Every     *)
(* proposal, relayed ones included, is built by this RPC.                  *)
SubmittedBlockEnd(start, count) == start + count - 1

BlockEnd == [p \in Proposals |-> SubmittedBlockEnd(BlockStart[p], PaymentCount[p])]

(* sortProposalsByVotes: more net votes first, then the larger fee hash. *)
RankedBefore(l, r) ==
    IF net[l] # net[r] THEN net[l] > net[r] ELSE FeeHash[l] > FeeHash[r]

(* The next full payment cycle after the tip. *)
CycleStart == height - (height % CycleBlocks) + CycleBlocks
CycleEnd == CycleStart + CycleBlocks - 1

(* The proposal's blocks contain the whole next cycle. *)
SpansCycle(p) == BlockStart[p] <= CycleStart /\ BlockEnd[p] >= CycleEnd

(* "Check 1": the proposal spans the whole cycle, has net votes above 10% *)
(* of the enabled masternodes and is established.                         *)
Eligible(p) ==
    /\ SpansCycle(p)
    /\ net[p] > EnabledCount \div 10
    /\ established[p]

(* Mutation: Check 2 compares the running total before adding the amount. *)
FitsBeforeAdd(p, allocated) == allocated <= TotalBudget

(* "Check 2": the amount still fits in the cycle's budget. *)
Fits(p, allocated) == Amount[p] + allocated <= TotalBudget

(* Mutation: the running total is increased before SetAllotted reads it. *)
AllocStepCumulative(acc, p) ==
    IF ~Eligible(p) THEN acc
    ELSE IF Amount[p] + acc.allocated <= TotalBudget
    THEN [allotted |-> [acc.allotted EXCEPT ![p] = acc.allocated + Amount[p]],
          allocated |-> acc.allocated + Amount[p],
          ret |-> Append(acc.ret, p)]
    ELSE [acc EXCEPT !.allotted = [@ EXCEPT ![p] = 0]]

(* One iteration of the allocation loop over the sorted vector. *)
AllocStep(acc, p) ==
    IF ~Eligible(p) THEN acc
    ELSE IF Fits(p, acc.allocated)
    THEN [allotted |-> [acc.allotted EXCEPT ![p] = Amount[p]],
          allocated |-> acc.allocated + Amount[p],
          ret |-> Append(acc.ret, p)]
    ELSE [acc EXCEPT !.allotted = [@ EXCEPT ![p] = 0]]

(* Mutation: the 5% gate compared with >=. *)
IsBudgetPaymentBlockAtLeast(h, budgets, enabled) ==
    LET covering == {b.votes : b \in {c \in budgets : c.start <= h /\ h <= c.end}}
    IN Max(covering \cup {-1}) >= enabled \div 20

(* CBudgetManager::IsBudgetPaymentBlock(h): the highest vote count of the  *)
(* finalized budgets (records [start, end, votes]) whose blocks contain h, *)
(* -1 if none, against CountEnabled() / 20.                               *)
IsBudgetPaymentBlock(h, budgets, enabled) ==
    LET covering == {b.votes : b \in {c \in budgets : c.start <= h /\ h <= c.end}}
    IN Max(covering \cup {-1}) > enabled \div 20

Init ==
    /\ height = 0
    /\ net = [p \in Proposals |-> 0]
    /\ established = [p \in Proposals |-> FALSE]
    /\ allotted = [p \in Proposals |-> 0]
    /\ winners = <<>>
    /\ projection = <<>>

(* CBudgetManager::GetBudget(): the sort, then the allocation loop. *)
GetBudget ==
    LET sorted == SetToSortSeq(Proposals, RankedBefore)
        res == FoldLeft(AllocStep,
                        [allotted |-> allotted, allocated |-> 0, ret |-> <<>>],
                        sorted)
    IN /\ allotted' = res.allotted
       /\ winners' = res.ret
       /\ UNCHANGED <<height, net, established>>

(* getbudgetprojection's loop over the returned vector: one row per        *)
(* proposal with GetAllotted() as "Alloted" and the running sum            *)
(* nTotalAllotted as "TotalBudgetAlloted" (ValueFromAmount only rescales).  *)
ProjectionRows(w, al) ==
    [i \in DOMAIN w |->
        [prop |-> w[i], alloted |-> al[w[i]],
         total |-> FoldLeft(LAMBDA acc, q : acc + al[q], 0, SubSeq(w, 1, i))]]

(* RPC getbudgetprojection: GetBudget(), then the rows read back from the  *)
(* allotments GetBudget has just written.                                   *)
GetBudgetProjection ==
    /\ GetBudget
    /\ projection' = ProjectionRows(winners', allotted')

(* A vote changes a proposal's tally (BudgetManager's AddOrUpdateVote). *)
VoteChange(p, d) ==
    /\ net[p] + d \in -MaxNet..MaxNet
    /\ net' = [net EXCEPT ![p] = @ + d]
    /\ UNCHANGED <<height, established, allotted, winners, projection>>

(* A proposal's collateral ages past the establishment threshold. *)
Establish(p) ==
    /\ ~established[p]
    /\ established' = [established EXCEPT ![p] = TRUE]
    /\ UNCHANGED <<height, net, allotted, winners, projection>>

(* The chain tip advances one block. *)
NewTip ==
    /\ height < MaxHeight
    /\ height' = height + 1
    /\ UNCHANGED <<net, established, allotted, winners, projection>>

Next ==
    \/ GetBudgetProjection
    \/ \E p \in Proposals, d \in {-1, 1} : VoteChange(p, d)
    \/ \E p \in Proposals : Establish(p)
    \/ NewTip

Spec == Init /\ [][Next]_vars

-----------------------------------------------------------------------------
TypeOK ==
    /\ height \in 0..MaxHeight
    /\ net \in [Proposals -> -MaxNet..MaxNet]
    /\ established \in [Proposals -> BOOLEAN]
    /\ \A p \in Proposals : allotted[p] \in {0, Amount[p]}
    /\ winners \in Seq(Proposals)
    /\ projection \in Seq([prop : Proposals, alloted : Nat, total : Nat])

(* Reference ranking, from spec 4.7 step 3: descending net votes, ties by *)
(* descending collateral hash.                                             *)
RefAbove(q, p) ==
    \/ net[q] > net[p]
    \/ net[q] = net[p] /\ FeeHash[q] > FeeHash[p]

(* Reference definition of the winning set, independent of any sorting:   *)
(* a proposal wins iff it is eligible and its amount fits beside the      *)
(* winners ranked above it.                                                *)
RECURSIVE RefWins(_, _)
RefWins(p, S) ==
    /\ Eligible(p)
    /\ LET above == {q \in S : RefAbove(q, p) /\ RefWins(q, S \ {p})}
       IN Amount[p] + FoldSet(LAMBDA q, acc : Amount[q] + acc, 0, above)
              <= TotalBudget

(* Spec 4.7 / 8: after every GetBudget the result is exactly the winners   *)
(* of the reference definition, listed best-ranked first: ties in net      *)
(* votes are decided by the collateral hash, never by map order.           *)
WinnersFollowRanking ==
    [][GetBudget =>
         /\ ToSet(winners') = {p \in Proposals : RefWins(p, Proposals)}
         /\ \A i, j \in DOMAIN winners' : i < j => RefAbove(winners'[i], winners'[j])]_vars

(* Spec 4.7 step 4 and spec 5 (cumulative allotment never exceeds the     *)
(* total budget), as the operator sees them: every row getbudgetprojection *)
(* returns shows the proposal's requested amount as "Alloted", and the     *)
(* running "TotalBudgetAlloted" stays within the cycle's budget.  The rows *)
(* are read from nAllotted, the side effect GetBudget leaves on each       *)
(* proposal, so this ties the loop's SetAllotted calls and its running     *)
(* total nBudgetAllocated to what the RPC reports.                         *)
ProjectionWithinBudget ==
    \A i \in DOMAIN projection :
        /\ projection[i].alloted = Amount[projection[i].prop]
        /\ projection[i].total <= TotalBudget

(* Spec 4.5: a proposal is scheduled for payment_count cycles from its    *)
(* start (submitproposal checks start + cycle * count against the tip).   *)
(* Every cycle of that schedule should pass GetBudget's window check; the *)
(* nBlockEnd that submitproposal stores decides it instead.                *)
ScheduledCyclesInWindow ==
    \A p \in Proposals :
        CycleStart >= BlockStart[p] /\ CycleEnd < BlockStart[p] + CycleBlocks * PaymentCount[p]
            => SpansCycle(p)

(* Finalized budgets of one or two cycles with 0..3 votes. *)
GateBudgets ==
    {[start |-> s, end |-> s + k * CycleBlocks - 1, votes |-> v] :
        s \in {CycleBlocks, 2 * CycleBlocks}, k \in {1, 2}, v \in 0..3}

(* The exact 5% rule at height h, for every enabled count up to           *)
(* GateMaxEnabled and every set of at most two finalized budgets.         *)
GateExactAt(h) ==
    \A e \in 0..GateMaxEnabled, fb \in {B \in SUBSET GateBudgets : Cardinality(B) <= 2} :
        IsBudgetPaymentBlock(h, fb, e)
            <=> \E b \in fb : b.start <= h /\ h <= b.end /\ 20 * b.votes > e

GateExact == [h \in 0..MaxHeight |-> GateExactAt(h)]

(* Spec 4.8 and 8: the tip's height is budget-paid exactly when some      *)
(* finalized budget containing it has more than 5% of the enabled         *)
(* masternodes' votes, 5% taken exactly (20 * votes > enabled): the       *)
(* highest-count search and CountEnabled() / 20 in integer division agree *)
(* with it at the boundary, with overlapping budgets and with none.       *)
PaymentGateIsFivePercent == GateExact[height]

=============================================================================
