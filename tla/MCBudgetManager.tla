--------------------------- MODULE MCBudgetManager ---------------------------
(* Model-checking instance of BudgetManager: two voters, three proposals   *)
(* (one admissible, one with bad collateral, one failing IsValid) and      *)
(* timestamps 0..2 with the one-hour constants scaled to clock ticks.      *)
EXTENDS BudgetManager

CONSTANTS a1, a2, p1, p2, p3

MCVoters == {a1, a2}
MCProposals == {p1, p2, p3}

(* Addresses that convert to distinct uint256 keys. *)
DistinctKeys == [a \in MCVoters |-> a]

(* Two addresses whose conversions agree (a SetHex-style conversion      *)
(* keeps only the leading hex digits, which base58 addresses share).     *)
SharedKey == [a \in MCVoters |-> a1]

CollateralValidMC == {p1, p3}
StaticallyValidMC == {p1, p2}

(* Vote maps an honest peer's mprop may carry: none, one genuine yes, two  *)
(* genuine nays (enough for IsValid's community-removal check to fire).    *)
Genuine(val, t) == [nVote |-> val, nTime |-> t, sigOk |-> TRUE]
Forged(val, t) == [nVote |-> val, nTime |-> t, sigOk |-> FALSE]

HonestCarried ==
    { [a \in MCVoters |-> NoVote],
      [a \in MCVoters |-> IF a = a1 THEN Genuine("yes", 0) ELSE NoVote],
      [a \in MCVoters |-> Genuine("no", 0)] }

(* A byzantine peer's mprop may also carry a vote it never saw signed.     *)
ByzantineCarried ==
    HonestCarried \cup
    { [a \in MCVoters |-> IF a = a2 THEN Forged("yes", 0) ELSE NoVote] }

V(a, p, val, t, ok) ==
    [address |-> a, nProposalHash |-> p, nVote |-> val, nTime |-> t, sigOk |-> ok]

(* Votes submitted by peers and RPC callers: for p1 a first vote, an       *)
(* update too soon, an update late enough, a vote dated ahead of the       *)
(* clock and a forged copy of a genuine vote's hashed fields; for p2       *)
(* (never admissible) two orphans from different voters.                   *)
MCVoteInputs ==
    { V(a1, p1, "yes", 0, TRUE), V(a1, p1, "no", 1, TRUE),
      V(a1, p1, "no", 2, TRUE), V(a2, p1, "yes", 2, TRUE),
      V(a2, p1, "no", 0, FALSE), V(a2, p1, "no", 0, TRUE),
      V(a1, p2, "yes", 0, TRUE), V(a2, p2, "yes", 1, TRUE) }

(* The operator names only its own masternode's address in proposalvote. *)
OperatorOnly == {a1}
=============================================================================
