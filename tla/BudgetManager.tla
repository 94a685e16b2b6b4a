---------------------------- MODULE BudgetManager ----------------------------
(***************************************************************************)
(* Proposal and vote admission of one node's CBudgetManager               *)
(* (src/divi/src/masternode-budget.cpp, rpcmasternode-budget.cpp).         *)
(*                                                                         *)
(* The node receives "mprop" and "mvote" messages from peers and the       *)
(* submitproposal / proposalvote / proposalrawvote RPC calls.  Every       *)
(* handler runs under cs_budget, so each one is a single atomic step.     *)
(* Peers are untrusted: any message of the input sets below may be         *)
(* delivered at any time and any number of times, which also covers lost, *)
(* duplicated and reordered delivery.                                      *)
(*                                                                         *)
(* Data abstraction: a proposal is its hash; the on-chain checks of        *)
(* IsBudgetCollateralValid and the vote-independent checks of IsValid are  *)
(* the constant sets CollateralValid and StaticallyValid; a signature is   *)
(* the flag sigOk (obfuScationSigner.VerifyMessage).  mapVotes is a      *)
(* map<uint256, CBudgetVote> indexed with the voter's address string, so  *)
(* a vote is stored under AddressKey[address], the uint256 that string     *)
(* converts to; the conversion (uint256.h) is not under src/ and is a      *)
(* constant here.                                                          *)
(***************************************************************************)
EXTENDS Integers, FiniteSets

CONSTANTS
    Proposals,              \* proposal hashes
    Voters,                 \* masternode addresses (all found by mnodeman.Find)
    AddressKey,             \* voter -> the uint256 its address string converts to
    VoteValues,             \* subset of {"yes", "no"}
    MaxTime,                \* bound of the local clock and of vote timestamps
    BUDGET_VOTE_UPDATE_MIN, \* minimum spacing of two votes of one voter
    VoteSkew,               \* how far ahead of GetTime() a vote may be (60*60)
    EnabledCount,           \* mnodeman.CountEnabled(ActiveProtocol())
    CollateralValid,        \* proposals whose IsBudgetCollateralValid holds
    StaticallyValid,        \* proposals passing IsValid's vote-independent checks
    CarriedVoteChoices,     \* vote maps a peer's mprop message may carry
    VoteInputs,             \* votes peers and proposalrawvote callers may submit
    LocalVoter,             \* the address of this node's strMasterNodePrivKey
    RpcVoters,              \* addresses a proposalvote caller may name
    NoVote                  \* model value: no vote of this voter

ASSUME CollateralValid \subseteq Proposals /\ StaticallyValid \subseteq Proposals
ASSUME VoteValues \subseteq {"yes", "no"}
ASSUME LocalVoter \in Voters /\ RpcVoters \subseteq Voters

VARIABLES
    mapProposals,   \* admitted proposals: hash -> (voter -> stored vote)
    seenProps,      \* DOMAIN of mapSeenMasternodeBudgetProposals
    seenVotes,      \* DOMAIN of mapSeenMasternodeBudgetVotes (vote hashes)
    orphans,        \* mapOrphanMasternodeBudgetVotes: hash -> last orphan vote
    asked,          \* DOMAIN of askedForSourceProposalOrBudget
    now,            \* GetTime()
    chainSynced,    \* masternodeSync.IsBlockchainSynced()
    mnSynced        \* masternodeSync.IsSynced()

vars == <<mapProposals, seenProps, seenVotes, orphans, asked,
          now, chainSynced, mnSynced>>

Times == 0..MaxTime

(* CBudgetVote: the fields hashed by GetHash plus the outcome of checking  *)
(* vchSig against address.                                                 *)
Vote == [address : Voters, nProposalHash : Proposals, nVote : VoteValues,
         nTime : Times, sigOk : BOOLEAN]

(* CBudgetVote::GetHash hashes address, nProposalHash, nVote and nTime,    *)
(* but not vchSig.                                                         *)
VoteHash(v) == <<v.address, v.nProposalHash, v.nVote, v.nTime>>

ASSUME VoteInputs \subseteq Vote

(* The keys of mapVotes that addresses produce. *)
Keys == {AddressKey[a] : a \in Voters}

VoteMap == [Keys -> Vote \cup {NoVote}]

EmptyVotes == [k \in Keys |-> NoVote]

(* The vote map deserialised from an mprop message: SerializationOp        *)
(* reads mapVotes along with the proposal's fields.  The sender's map     *)
(* holds one vote per key: c gives each voter's vote, if any.              *)
CarriedVotes(p, c) ==
    [k \in Keys |->
        LET from == {a \in Voters : AddressKey[a] = k /\ c[a] # NoVote}
            a == CHOOSE x \in from : TRUE
        IN IF from = {} THEN NoVote
           ELSE [address |-> a, nProposalHash |-> p, nVote |-> c[a].nVote,
                 nTime |-> c[a].nTime, sigOk |-> c[a].sigOk]]

Admitted == DOMAIN mapProposals

CountVotes(m, val) == Cardinality({k \in DOMAIN m : m[k] # NoVote /\ m[k].nVote = val})

-----------------------------------------------------------------------------
(* Mutations of the checks below, each a plausible slip in the code.      *)
TooSoonDropped(old, v) == FALSE
TooFarAheadDropped(v) == FALSE
SignatureUnchecked(v) == TRUE
IsValidNoStatic(p, m, fCheckCollateral) ==
    /\ ~(CountVotes(m, "no") - CountVotes(m, "yes") > EnabledCount \div 10)
    /\ fCheckCollateral => p \in CollateralValid
(* mapVotes is declared map<uint256, CBudgetVote>: keyed by the proposal   *)
(* hash instead of the voter address.                                      *)
StoreVoteByHash(p, v) ==
    mapProposals' = [mapProposals EXCEPT ![p] =
                        [x \in DOMAIN @ \cup {v.nProposalHash} |->
                            IF x = v.nProposalHash THEN v ELSE @[x]]]
-----------------------------------------------------------------------------

(* CBudgetProposal::IsValid(strError, fCheckCollateral): the community     *)
(* removal check on the proposal's own votes, then the static checks and   *)
(* the collateral.                                                         *)
IsValid(p, m, fCheckCollateral) ==
    /\ ~(CountVotes(m, "no") - CountVotes(m, "yes") > EnabledCount \div 10)
    /\ p \in StaticallyValid
    /\ fCheckCollateral => p \in CollateralValid

(* AddOrUpdateVote's three rejections. *)
IsStale(old, v) == old.nTime > v.nTime
TooSoon(old, v) == v.nTime - old.nTime < BUDGET_VOTE_UPDATE_MIN
TooFarAhead(v) == v.nTime > now + VoteSkew

(* CBudgetProposal::AddOrUpdateVote succeeds on the stored map m. *)
VoteAccepted(m, v) ==
    LET old == m[AddressKey[v.address]] IN
    /\ old # NoVote => ~IsStale(old, v) /\ ~TooSoon(old, v)
    /\ ~TooFarAhead(v)

StoreVote(p, v) == mapProposals' = [mapProposals EXCEPT ![p][AddressKey[v.address]] = v]

(* obfuScationSigner.VerifyMessage(vote.address, vote.ToString(), vchSig) *)
SignatureValid(v) == v.sigOk

(* An orphan vote triggers an "mnvs" request only for a hash not yet asked. *)
AlreadyAsked(p) == p \in asked

-----------------------------------------------------------------------------
Init ==
    /\ mapProposals = [p \in {} |-> EmptyVotes]
    /\ seenProps = {}
    /\ seenVotes = {}
    /\ orphans = [p \in Proposals |-> NoVote]
    /\ asked = {}
    /\ now = 0
    /\ chainSynced = FALSE
    /\ mnSynced = FALSE

(* CBudgetManager::AddProposal: IsValid again, then insert unless present. *)
AddProposal(p, m) ==
    /\ IsValid(p, m, TRUE)
    /\ p \notin Admitted
    /\ mapProposals' = [q \in Admitted \cup {p} |->
                           IF q = p THEN m ELSE mapProposals[q]]

(* ProcessMessage "mprop".  Collateral is checked before the proposal is   *)
(* marked seen; an invalid proposal stays seen.                            *)
RecvProposal(p, c) ==
    LET m == CarriedVotes(p, c) IN
    /\ chainSynced
    /\ p \notin seenProps
    /\ p \in CollateralValid
    /\ seenProps' = seenProps \cup {p}
    /\ IF IsValid(p, m, TRUE) /\ p \notin Admitted
       THEN AddProposal(p, m)
       ELSE UNCHANGED mapProposals
    /\ UNCHANGED <<seenVotes, orphans, asked, now, chainSynced, mnSynced>>

(* UpdateProposal(vote, pfrom) for a vote from a peer whose proposal is    *)
(* unknown: park it and ask that peer once for the proposal, but only once *)
(* the node is fully synced.                                               *)
ParkOrphan(v) ==
    LET p == v.nProposalHash IN
    IF mnSynced
    THEN /\ orphans' = [orphans EXCEPT ![p] = v]
         /\ IF AlreadyAsked(p)
            THEN UNCHANGED asked
            ELSE asked' = asked \cup {p}
    ELSE UNCHANGED <<orphans, asked>>

(* ProcessMessage "mvote": dedup on the hash, mark seen, then verify the   *)
(* signature, then UpdateProposal.                                         *)
RecvVote(v) ==
    LET p == v.nProposalHash IN
    /\ chainSynced
    /\ VoteHash(v) \notin seenVotes
    /\ seenVotes' = seenVotes \cup {VoteHash(v)}
    /\ IF ~SignatureValid(v)
       THEN UNCHANGED <<mapProposals, orphans, asked>>
       ELSE IF p \notin Admitted
       THEN /\ ParkOrphan(v)
            /\ UNCHANGED mapProposals
       ELSE /\ IF VoteAccepted(mapProposals[p], v)
               THEN StoreVote(p, v)
               ELSE UNCHANGED mapProposals
            /\ UNCHANGED <<orphans, asked>>
    /\ UNCHANGED <<seenProps, now, chainSynced, mnSynced>>

(* RPC submitproposal: collateral, sync, IsValid, mark seen, relay,        *)
(* AddProposal.  The locally built proposal carries no votes.              *)
RpcSubmitProposal(p) ==
    /\ p \in CollateralValid
    /\ chainSynced
    /\ IsValid(p, EmptyVotes, TRUE)
    /\ seenProps' = seenProps \cup {p}
    /\ IF p \notin Admitted
       THEN AddProposal(p, EmptyVotes)
       ELSE UNCHANGED mapProposals
    /\ UNCHANGED <<seenVotes, orphans, asked, now, chainSynced, mnSynced>>

(* What both voting RPCs do once they hold a vote: UpdateProposal(vote,   *)
(* NULL), which fails for an unknown proposal (no orphan without a peer),  *)
(* and on success the seen-cache insert.                                   *)
RpcUpdateProposal(v) ==
    LET p == v.nProposalHash IN
    /\ p \in Admitted
    /\ VoteAccepted(mapProposals[p], v)
    /\ StoreVote(p, v)
    /\ seenVotes' = seenVotes \cup {VoteHash(v)}
    /\ UNCHANGED <<seenProps, orphans, asked, now, chainSynced, mnSynced>>

(* RPC proposalvote: any address mnodeman finds, the vote built from       *)
(* address, hash and value only, so nTime stays 0 unless Sign() sets it    *)
(* to the current time, signed with this node's key, and passed to         *)
(* UpdateProposal without VerifyMessage: the signature is good only when   *)
(* the address is this node's own.                                         *)
RpcProposalVote(a, p, val, t) ==
    RpcUpdateProposal([address |-> a, nProposalHash |-> p, nVote |-> val,
                       nTime |-> t, sigOk |-> a = LocalVoter])

(* RPC proposalrawvote: a vote with caller-given time and signature,       *)
(* rejected when VerifyMessage fails, then UpdateProposal.                 *)
RpcRawVote(v) ==
    /\ SignatureValid(v)
    /\ RpcUpdateProposal(v)

(* The clock and the masternode sync milestones advance. *)
Tick ==
    /\ now < MaxTime
    /\ now' = now + 1
    /\ UNCHANGED <<mapProposals, seenProps, seenVotes, orphans, asked,
                   chainSynced, mnSynced>>

ChainSyncDone ==
    /\ ~chainSynced
    /\ chainSynced' = TRUE
    /\ UNCHANGED <<mapProposals, seenProps, seenVotes, orphans, asked,
                   now, mnSynced>>

MnSyncDone ==
    /\ chainSynced /\ ~mnSynced
    /\ mnSynced' = TRUE
    /\ UNCHANGED <<mapProposals, seenProps, seenVotes, orphans, asked,
                   now, chainSynced>>

Next ==
    \/ \E p \in Proposals, c \in CarriedVoteChoices : RecvProposal(p, c)
    \/ \E v \in VoteInputs : RecvVote(v)
    \/ \E p \in Proposals : RpcSubmitProposal(p)
    \/ \E a \in RpcVoters, p \in Proposals, val \in VoteValues, t \in {0, now} :
           RpcProposalVote(a, p, val, t)
    \/ \E v \in VoteInputs : RpcRawVote(v)
    \/ Tick
    \/ ChainSyncDone
    \/ MnSyncDone

Spec == Init /\ [][Next]_vars

-----------------------------------------------------------------------------
TypeOK ==
    /\ Admitted \subseteq Proposals
    /\ \A p \in Admitted : mapProposals[p] \in VoteMap
    /\ seenProps \subseteq Proposals
    /\ seenVotes \subseteq {VoteHash(v) : v \in Vote}
    /\ orphans \in [Proposals -> Vote \cup {NoVote}]
    /\ asked \subseteq Proposals
    /\ now \in Times
    /\ chainSynced \in BOOLEAN /\ mnSynced \in BOOLEAN

(* Every vote counted in an admitted proposal's tally carries a valid      *)
(* signature of its voter, whichever path (mvote, mprop, RPC) stored it.   *)
CountedVotesSigned ==
    \A p \in Admitted : \A k \in Keys :
        mapProposals[p][k] # NoVote => mapProposals[p][k].sigOk

(* The ledger the handlers keep together implements the abstract budget   *)
(* ledger BudgetVotes: proposals are admitted only with valid collateral  *)
(* and fields (mprop, submitproposal) and never dropped, every stored     *)
(* vote is signed by its voter (mprop's carried votes included), and a    *)
(* voter's vote is replaced, by mvote or by an RPC, only by one at least  *)
(* BUDGET_VOTE_UPDATE_MIN newer and not dated beyond the clock's skew     *)
(* (AddOrUpdateVote).  Seen caches and orphans are invisible; a voter's   *)
(* ballot is the vote stored under its key, if that vote is its own.       *)
Ballots == [p \in Admitted |-> [a \in Voters |->
               LET s == mapProposals[p][AddressKey[a]]
               IN IF s # NoVote /\ s.address = a THEN s ELSE NoVote]]

Ledger == INSTANCE BudgetVotes
              WITH MinSpacing <- BUDGET_VOTE_UPDATE_MIN, Skew <- VoteSkew,
                   Admissible <- CollateralValid \cap StaticallyValid,
                   ballots <- Ballots, clock <- now
ImplementsBudgetVotes == Ledger!Spec

=============================================================================
