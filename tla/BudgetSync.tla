----------------------------- MODULE BudgetSync -----------------------------
(***************************************************************************)
(* Budget gossip around one node N (CBudgetManager in                      *)
(* masternode-budget.cpp) with two neighbours:                             *)
(*   Q  a peer that already holds the network's proposals and votes; its  *)
(*      "mprop"/"mvote" messages reach N in any order (they come over     *)
(*      several connections), and it answers N's "mnvs" requests with a   *)
(*      Sync for that proposal, and its own NewBlock re-announces every   *)
(*      proposal it holds; the request or the answer may be lost;         *)
(*   P  a peer that connects to N, asks for the full list ("mnvs" with     *)
(*      hash 0) and hears N's relays and periodic partial syncs; it may    *)
(*      drop the connection, which loses what was pushed to it.            *)
(* N runs the mprop, mvote and mnvs handlers and NewBlock, with its       *)
(* seen caches, its per-vote fSynced flags, ResetSync and MarkSynced.     *)
(*                                                                         *)
(* A vote is <<proposal, voter>>; its hash (CBudgetVote::GetHash) is the  *)
(* same pair, since it does not cover the signature.  Each voter has one  *)
(* vote per proposal here: a second copy of it is rejected by             *)
(* AddOrUpdateVote as too soon, so only the first store counts.           *)
(***************************************************************************)
EXTENDS Naturals, FiniteSets

CONSTANTS
    Proposals,      \* proposal hashes that exist in the network
    Valid,          \* proposals that pass collateral and IsValid at N
    Voters,         \* masternode addresses
    NetVotes,       \* votes Q holds: subset of Proposals \X Voters
    InitAdmitted,   \* proposals N already holds (loaded from budget.dat)
    Broadcast,      \* proposals whose first broadcast reaches N (the others
                    \* were announced before N joined)
    LossyQ,         \* TRUE: an "mnvs" request to Q, or its answer, may be lost
    FullList,       \* the zero hash of "mnvs": ask for every proposal
    Forgery,        \* TRUE: an attacker sends copies of Q's votes, badly signed
    MaxClears,      \* bound on NewBlock's 1-in-1440 seen-cache clears
    MaxConnects,    \* bound on P's connections
    MaxRequests     \* bound on P's full-list requests per connection

ASSUME Valid \subseteq Proposals /\ InitAdmitted \subseteq Valid
ASSUME Broadcast \subseteq Proposals /\ FullList \notin Proposals
ASSUME NetVotes \subseteq Proposals \X Voters

VARIABLES
    admitted,    \* DOMAIN mapProposals
    stored,      \* votes in the proposals' mapVotes
    synced,      \* stored votes whose fSynced is true
    seenProps,   \* DOMAIN mapSeenMasternodeBudgetProposals
    seenVotes,   \* DOMAIN mapSeenMasternodeBudgetVotes
    asked,       \* DOMAIN askedForSourceProposalOrBudget
    mnSynced,    \* masternodeSync.IsSynced()
    toN,         \* messages from Q (and the attacker) in flight to N
    toQ,         \* "mnvs" requests from N in flight to Q
    connected,   \* P is connected to N
    connects,    \* number of connections P has made
    fulfilled,   \* pfrom->HasFulfilledRequest("mnvs") for P's connection
    requests,    \* full-list requests P made on this connection
    penalty,     \* Misbehaving score N gave P
    toP,         \* inventory N pushed to P, not yet received
    heardP,      \* inventory P has received
    clears       \* seen-cache clears NewBlock has made so far

vars == <<admitted, stored, synced, seenProps, seenVotes, asked, mnSynced,
          toN, toQ, connected, connects, fulfilled, requests, penalty,
          toP, heardP, clears>>

PropMsg(p) == [kind |-> "mprop", p |-> p]
VoteMsg(v, sig) == [kind |-> "mvote", p |-> v[1], a |-> v[2], sig |-> sig]

Messages == {PropMsg(p) : p \in Proposals} \cup
            {VoteMsg(v, s) : v \in Proposals \X Voters, s \in BOOLEAN}

PropInv(p) == <<"prop", p>>
VoteInv(v) == <<"vote", v>>
Inventory == {PropInv(p) : p \in Proposals} \cup
             {VoteInv(v) : v \in Proposals \X Voters}

(* What Q sends first: the proposals broadcast since N joined, every vote *)
(* it holds, and the attacker's badly signed copies.                       *)
InitialTraffic ==
    {PropMsg(p) : p \in Broadcast} \cup {VoteMsg(v, TRUE) : v \in NetVotes}
    \cup (IF Forgery THEN {VoteMsg(v, FALSE) : v \in NetVotes} ELSE {})

(* RelayInv reaches P only while it is connected. *)
Relay(inv) == toP' = IF connected THEN toP \cup {inv} ELSE toP

-----------------------------------------------------------------------------
(* Mutations of the code's decisions. *)
SyncMatchesBoth(q, nProp) == nProp = FullList /\ q = nProp
SyncTargetsUnchecked(seen) == seen
VoteAnnouncedPartialOnly(v, fPartial, flags) == v \notin flags
VotesOfSeen(P) == {v \in seenVotes : v[1] \in P}
-----------------------------------------------------------------------------

(* The votes in the mapVotes of the proposals P. *)
VotesOf(P) == {v \in stored : v[1] \in P}

(* Sync's filter on the requested hash: the zero hash matches every      *)
(* proposal, any other hash only itself.                                   *)
SyncMatches(q, nProp) == nProp = FullList \/ q = nProp

(* The proposals Q's Sync(pfrom, nProp) announces: Q has seen and holds   *)
(* every proposal that is valid.                                           *)
QSyncTargets(nProp) == {q \in Valid : SyncMatches(q, nProp)}

(* Sync walks mapSeenMasternodeBudgetProposals and keeps the entries that *)
(* FindProposal finds in mapProposals.                                     *)
SyncTargets(seen) == seen \cap admitted

(* Sync: a vote is announced in a full sync, or in a partial sync when    *)
(* its fSynced is false.                                                   *)
VoteAnnounced(v, fPartial, flags) == ~fPartial \/ v \notin flags

(* Sync(pfrom, 0, fPartial): the inventory pushed to the peer, given the *)
(* seen cache and the fSynced flags it reads.                             *)
SyncItems(seen, fPartial, flags) ==
    {PropInv(p) : p \in SyncTargets(seen)} \cup
    {VoteInv(v) : v \in {w \in VotesOf(SyncTargets(seen)) :
                              VoteAnnounced(w, fPartial, flags)}}

(* ResetSync: clear fSynced on the votes of every seen, admitted proposal. *)
ResetSync(seen) == synced \ VotesOf(SyncTargets(seen))

(* MarkSynced: set fSynced on the votes of every seen, admitted proposal. *)
MarkSynced(seen, flags) == flags \cup VotesOf(SyncTargets(seen))

Init ==
    /\ admitted = InitAdmitted
    /\ stored = {}
    /\ synced = {}
    /\ seenProps = InitAdmitted
    /\ seenVotes = {}
    /\ asked = {}
    /\ mnSynced = FALSE
    /\ toN = InitialTraffic
    /\ toQ = {}
    /\ connected = FALSE
    /\ connects = 0
    /\ fulfilled = FALSE
    /\ requests = 0
    /\ penalty = 0
    /\ toP = {}
    /\ heardP = {}
    /\ clears = 0

(* ProcessMessage "mprop" from Q: seen check, mark seen, IsValid,          *)
(* AddProposal, relay if new.                                              *)
RecvProposal(p) ==
    /\ PropMsg(p) \in toN
    /\ toN' = toN \ {PropMsg(p)}
    /\ IF p \in seenProps
       THEN UNCHANGED <<seenProps, admitted, toP>>
       ELSE /\ seenProps' = seenProps \cup {p}
            /\ IF p \in Valid /\ p \notin admitted
               THEN /\ admitted' = admitted \cup {p}
                    /\ Relay(PropInv(p))
               ELSE UNCHANGED <<admitted, toP>>
    /\ UNCHANGED <<stored, synced, seenVotes, asked, mnSynced, toQ, connected,
                   connects, fulfilled, requests, penalty, heardP, clears>>

(* ProcessMessage "mvote": seen check, mark seen, verify the signature,   *)
(* UpdateProposal: for an unknown proposal ask the sender once (only when *)
(* synced); otherwise AddOrUpdateVote, which stores a first vote with     *)
(* fSynced false, and relay.                                               *)
RecvVote(m) ==
    LET v == <<m.p, m.a>> IN
    /\ m \in toN /\ m.kind = "mvote"
    /\ toN' = toN \ {m}
    /\ IF v \in seenVotes \/ ~m.sig
       THEN /\ seenVotes' = seenVotes \cup {v}
            /\ UNCHANGED <<stored, asked, toQ, toP>>
       ELSE /\ seenVotes' = seenVotes \cup {v}
            /\ IF m.p \notin admitted
               THEN /\ IF mnSynced /\ m.p \notin asked
                       THEN /\ asked' = asked \cup {m.p}
                            /\ toQ' = toQ \cup {m.p}
                       ELSE UNCHANGED <<asked, toQ>>
                    /\ UNCHANGED <<stored, toP>>
               ELSE /\ IF v \notin stored
                       THEN /\ stored' = stored \cup {v}
                            /\ Relay(VoteInv(v))
                       ELSE UNCHANGED <<stored, toP>>
                    /\ UNCHANGED <<asked, toQ>>
    /\ UNCHANGED <<admitted, synced, seenProps, mnSynced, connected, connects,
                   fulfilled, requests, penalty, heardP, clears>>

(* Q handles N's "mnvs" for proposal p: Sync(N, p) announces p and its    *)
(* votes, which N fetches as "mprop" and "mvote" messages.                 *)
QAnswer(p) ==
    LET targets == QSyncTargets(p) IN
    /\ p \in toQ
    /\ toQ' = toQ \ {p}
    /\ toN' = toN \cup {PropMsg(q) : q \in targets}
                   \cup {VoteMsg(v, TRUE) : v \in {w \in NetVotes : w[1] \in targets}}
    /\ UNCHANGED <<admitted, stored, synced, seenProps, seenVotes, asked, mnSynced,
                   connected, connects, fulfilled, requests, penalty, toP, heardP, clears>>

(* NewBlock on a block at the 14-block cadence, with the budget lock free *)
(* and the node synced: maybe clear both seen caches and ResetSync, then  *)
(* a partial Sync to every peer, then MarkSynced.                          *)
NewBlock ==
    /\ mnSynced
    /\ \E clear \in IF clears < MaxClears THEN BOOLEAN ELSE {FALSE} :
         LET seen == IF clear THEN {} ELSE seenProps
             reset == IF clear THEN ResetSync(seen) ELSE synced
         IN /\ seenProps' = seen
            /\ seenVotes' = IF clear THEN {} ELSE seenVotes
            /\ toP' = IF connected
                      THEN toP \cup SyncItems(seen, TRUE, reset)
                      ELSE toP
            /\ synced' = MarkSynced(seen, reset)
            /\ clears' = IF clear THEN clears + 1 ELSE clears
            /\ UNCHANGED <<admitted, stored, asked, mnSynced, toN, toQ, connected,
                           connects, fulfilled, requests, penalty, heardP>>

(* The request, or Q's answer, is lost: the connection to Q drops. *)
LoseRequest(p) ==
    /\ LossyQ /\ p \in toQ
    /\ toQ' = toQ \ {p}
    /\ UNCHANGED <<admitted, stored, synced, seenProps, seenVotes, asked, mnSynced,
                   toN, connected, connects, fulfilled, requests, penalty, toP, heardP, clears>>

(* Q's own NewBlock: its partial Sync(N, 0, true) announces every         *)
(* proposal Q holds; Q's votes are already marked synced, so none of them *)
(* is announced again.                                                     *)
QNewBlock ==
    /\ toN' = toN \cup {PropMsg(q) : q \in QSyncTargets(FullList)}
    /\ UNCHANGED <<admitted, stored, synced, seenProps, seenVotes, asked, mnSynced,
                   toQ, connected, connects, fulfilled, requests, penalty, toP, heardP, clears>>

MnSyncDone ==
    /\ ~mnSynced
    /\ mnSynced' = TRUE
    /\ UNCHANGED <<admitted, stored, synced, seenProps, seenVotes, asked, toN, toQ,
                   connected, connects, fulfilled, requests, penalty, toP, heardP, clears>>

(* P connects: a new CNode, so no request is recorded as fulfilled. *)
PConnect ==
    /\ ~connected /\ connects < MaxConnects
    /\ connected' = TRUE
    /\ connects' = connects + 1
    /\ fulfilled' = FALSE
    /\ requests' = 0
    /\ UNCHANGED <<admitted, stored, synced, seenProps, seenVotes, asked, mnSynced,
                   toN, toQ, penalty, toP, heardP, clears>>

(* The connection drops; what was pushed and not yet received is lost.    *)
(* P reconnects later, so only connections before the last may drop.      *)
PDisconnect ==
    /\ connected /\ connects < MaxConnects
    /\ connected' = FALSE
    /\ toP' = {}
    /\ UNCHANGED <<admitted, stored, synced, seenProps, seenVotes, asked, mnSynced,
                   toN, toQ, connects, fulfilled, requests, penalty, heardP, clears>>

(* ProcessMessage "mnvs" with hash 0 from P, on the main network: a       *)
(* repeated request is punished, a first one is answered by a full Sync.  *)
RecvFullSyncRequest ==
    /\ connected /\ requests < MaxRequests
    /\ requests' = requests + 1
    /\ IF fulfilled
       THEN /\ penalty' = penalty + 20
            /\ UNCHANGED <<fulfilled, toP>>
       ELSE /\ fulfilled' = TRUE
            /\ toP' = toP \cup SyncItems(seenProps, FALSE, synced)
            /\ UNCHANGED penalty
    /\ UNCHANGED <<admitted, stored, synced, seenProps, seenVotes, asked, mnSynced,
                   toN, toQ, connected, connects, heardP, clears>>

PReceive(i) ==
    /\ i \in toP
    /\ toP' = toP \ {i}
    /\ heardP' = heardP \cup {i}
    /\ UNCHANGED <<admitted, stored, synced, seenProps, seenVotes, asked, mnSynced,
                   toN, toQ, connected, connects, fulfilled, requests, penalty, clears>>

Next ==
    \/ \E p \in Proposals : RecvProposal(p)
    \/ \E m \in toN : RecvVote(m)
    \/ \E p \in Proposals : QAnswer(p)
    \/ \E p \in Proposals : LoseRequest(p)
    \/ QNewBlock
    \/ NewBlock
    \/ MnSyncDone
    \/ PConnect
    \/ PDisconnect
    \/ RecvFullSyncRequest
    \/ \E i \in Inventory : PReceive(i)

(* Messages in flight are eventually handled, blocks keep coming, the     *)
(* node finishes its sync, Q keeps answering and syncing (a lost request *)
(* is not retried, so loss gets no fairness), and P (whose masternodeSync asks once per      *)
(* connection) connects and asks.                                          *)
Fairness ==
    /\ \A p \in Proposals : WF_vars(RecvProposal(p)) /\ WF_vars(QAnswer(p))
    /\ \A m \in Messages : WF_vars(m \in toN /\ RecvVote(m))
    /\ WF_vars(NewBlock) /\ WF_vars(QNewBlock) /\ WF_vars(MnSyncDone) /\ WF_vars(PConnect)
    /\ WF_vars(requests = 0 /\ RecvFullSyncRequest)
    /\ \A i \in Inventory : WF_vars(PReceive(i))

Spec == Init /\ [][Next]_vars /\ Fairness

-----------------------------------------------------------------------------
TypeOK ==
    /\ admitted \subseteq Proposals /\ seenProps \subseteq Proposals
    /\ stored \subseteq Proposals \X Voters /\ synced \subseteq stored
    /\ seenVotes \subseteq Proposals \X Voters /\ asked \subseteq Proposals
    /\ toN \subseteq Messages /\ toQ \subseteq Proposals
    /\ toP \subseteq Inventory /\ heardP \subseteq Inventory
    /\ connects \in 0..MaxConnects /\ requests \in 0..MaxRequests
    /\ penalty \in Nat /\ mnSynced \in BOOLEAN /\ connected \in BOOLEAN
    /\ fulfilled \in BOOLEAN /\ clears \in 0..MaxClears

(* Sync and relay announce only what N accepted: every proposal pushed to *)
(* P is admitted and every vote pushed to P is stored, even though the    *)
(* seen caches also hold proposals that failed IsValid.                   *)
AnnouncesOnlyAdmitted ==
    \A p \in Proposals : \A v \in Proposals \X Voters :
        /\ PropInv(p) \in toP \cup heardP => p \in admitted
        /\ VoteInv(v) \in toP \cup heardP => v \in stored

(* Spec 4.8, for votes: every vote N stores reaches P, through the relay *)
(* when P is connected, a later partial Sync while its fSynced is false,  *)
(* or the full Sync P asks for on connecting.  A vote MarkSynced marked    *)
(* before P connected reaches P only through that full Sync.               *)
StoredVotesReachPeer ==
    \A v \in Proposals \X Voters : v \in stored ~> VoteInv(v) \in heardP

(* Spec 4.8: whatever connections drop, P ends up hearing of every        *)
(* proposal N admits and every vote N stores.                              *)
PeerEventuallyHearsAll ==
    /\ \A p \in Proposals : p \in admitted ~> PropInv(p) \in heardP
    /\ StoredVotesReachPeer

(* Spec 5 calls orphan resolution best-effort and re-askable, but        *)
(* UpdateProposal asks for an unknown proposal once and never clears      *)
(* askedForSourceProposalOrBudget: a proposal N has asked for (so N is    *)
(* synced and its vote arrived) is still admitted eventually, even when   *)
(* the request or the answer is lost and it was announced before N        *)
(* joined, because Q's periodic partial sync announces it again.          *)
AskedEventuallyAdmitted ==
    \A p \in Valid : p \in asked ~> p \in admitted

(* Spec 4.6/4.8: every correctly signed vote Q holds for a proposal N      *)
(* accepts is eventually counted at N, whatever order the messages take:  *)
(* neither a vote that arrives before its proposal (UpdateProposal parks  *)
(* it in mapOrphanMasternodeBudgetVotes, which nothing reads) nor a badly *)
(* signed copy handled first (both mark the hash seen) loses it.          *)
VotesEventuallyCounted ==
    \A v \in NetVotes : v[1] \in Valid => <>(v \in stored)

=============================================================================
