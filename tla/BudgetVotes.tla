----------------------------- MODULE BudgetVotes -----------------------------
(***************************************************************************)
(* What a node's budget ledger promises (spec sections 3, 4.5 and 4.6),    *)
(* independent of messages, caches and handlers: proposals are admitted    *)
(* only if admissible and are never dropped; each voter holds at most one  *)
(* live vote per proposal, always signed by that voter; a vote is replaced *)
(* only by one at least MinSpacing newer and never dated beyond the local  *)
(* clock plus Skew.  A proposal may arrive with signed votes attached.     *)
(***************************************************************************)
EXTENDS Integers

CONSTANTS
    Proposals,    \* proposal hashes
    Voters,       \* masternode addresses
    VoteValues,   \* subset of {"yes", "no"}
    MaxTime,      \* bound of the clock and of vote timestamps
    MinSpacing,   \* BUDGET_VOTE_UPDATE_MIN
    Skew,         \* how far ahead of the clock a vote may be dated
    Admissible,   \* proposals with valid collateral and valid fields
    NoVote        \* no vote of this voter

VARIABLES
    ballots,      \* admitted proposal -> (voter -> live vote or NoVote)
    clock         \* the node's clock

Vote == [address : Voters, nProposalHash : Proposals, nVote : VoteValues,
         nTime : 0..MaxTime, sigOk : BOOLEAN]

(* A vote of voter a on proposal p that a's key signed. *)
SignedBy(v, a, p) == v.address = a /\ v.nProposalHash = p /\ v.sigOk

(* Votes on p signed by their voter. *)
SignedOn(p) == {v \in Vote : v.nProposalHash = p /\ v.sigOk}

Init ==
    /\ ballots = [p \in {} |-> [a \in Voters |-> NoVote]]
    /\ clock = 0

(* A proposal enters the ledger with signed votes, or none, attached. *)
Admit(p) ==
    /\ p \in Admissible \ DOMAIN ballots
    /\ \E m \in [Voters -> SignedOn(p) \cup {NoVote}] :
           /\ \A a \in Voters : m[a] # NoVote => SignedBy(m[a], a, p)
           /\ ballots' = [q \in DOMAIN ballots \cup {p} |->
                             IF q = p THEN m ELSE ballots[q]]
    /\ UNCHANGED clock

(* Voter a casts v on an admitted proposal, first or as a spaced update. *)
Cast(p, a, v) ==
    /\ p \in DOMAIN ballots
    /\ SignedBy(v, a, p)
    /\ v.nTime <= clock + Skew
    /\ ballots[p][a] # NoVote => v.nTime >= ballots[p][a].nTime + MinSpacing
    /\ ballots' = [ballots EXCEPT ![p][a] = v]
    /\ UNCHANGED clock

Tick ==
    /\ clock < MaxTime
    /\ clock' = clock + 1
    /\ UNCHANGED ballots

Next ==
    \/ \E p \in Proposals : Admit(p)
    \/ \E p \in Proposals, a \in Voters : \E v \in SignedOn(p) : Cast(p, a, v)
    \/ Tick

Spec == Init /\ [][Next]_<<ballots, clock>>

=============================================================================
