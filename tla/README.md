# TLA+ models of the Divi masternode budget and active-masternode code

These modules model the governance ("budget") layer of `src/divi/src`:
- `masternode-budget.cpp/.h`
- `rpcmasternode-budget.cpp`
- `rpcmasternode.cpp`
- `activemasternode.cpp/.h`
- `masternode.h`

TLC checks them. Every definition that models code is listed with its source lines under `map` in `PROJECT.json`.

## The system and how its parts interact

| Part | Code | State | Operations |
|---|---|---|---|
| Budget manager | `CBudgetManager` | `mapProposals`; the seen caches `mapSeenMasternodeBudgetProposals/Votes`; `mapOrphanMasternodeBudgetVotes`; `askedForSourceProposalOrBudget` | `ProcessMessage` ("mnvs", "mprop", "mvote"), `AddProposal`, `UpdateProposal`, `NewBlock`, `Sync`, `ResetSync`, `MarkSynced`, `GetBudget` |
| Proposal | `CBudgetProposal` | fields and `mapVotes` (voter to last vote) | `IsValid`, `AddOrUpdateVote` |
| RPC layer | `submitproposal`, `proposalvote`, `proposalrawvote`, `getbudgetprojection`, ... | none of its own | calls into the budget manager; writes the seen caches directly |
| Collateral check | `IsBudgetCollateralValid` | none (reads the fee transaction and the chain) | called by "mprop", `IsValid` and `submitproposal` |
| Budget cache file | `CBudgetDB`, `DumpBudgets` | `budget.dat` | `Write`, `Read`, `DumpBudgets` |
| Active-masternode controller | `CActiveMasternode` | `status`, `lastPing`, the registry entry (`mnodeman`, not under src/) | `Startup`, `Register`, `SendMasternodePingX`; RPC `startmasternode` |
| Masternode record | `CMasternode` | `activeState`, `lastPing` | `IsPingedWithin`, `IsEnabled`, `Disable` |

How these parts interact:
- Peers deliver messages, and RPC callers submit proposals and votes. Both change the budget manager.
- Every block, `NewBlock` re-syncs peers, and once in a while it clears the seen caches.
- `GetBudget` reads the admitted proposals and their tallies, and writes each proposal's `nAllotted`.
- `DumpBudgets` serialises the whole manager to `budget.dat`. This includes the seen caches and the proposals with their votes.
- The controller registers this node and pings the registry.

## Hard behaviours

Peer messages can arrive in any order, more than once, or not at all.

Admission:
- Votes are deduplicated by a hash that does not cover the signature.
- Votes for unknown proposals are parked as orphans, but nothing ever reads the orphan map again, so a vote that overtakes its proposal is lost.
- `CBudgetProposal::GetHash` leaves out `nFeeTXHash`, so two proposals that differ only in their fee transaction share a hash. Nodes that receive them in different orders can keep different ones.
- `mnvs` requests are sent at most once and never retried. A lost request or answer is recovered only by the sender's own periodic partial `Sync`.
- `mapVotes` is a `map<uint256, CBudgetVote>` indexed with the voter's address string. Votes are kept under whatever `uint256` that string converts to.
- Votes carried inside an `mprop` are never verified.

Allocation:
- `GetBudget` runs at any time while tallies and height change.
- It writes `nAllotted` as a side effect, but only for proposals that pass Check 1. A proposal that fails Check 1 keeps the allotment of an earlier call, although spec §4.7 says every skipped proposal is reset to zero. Only `getbudgetprojection` reads `nAllotted`, and only for the proposals `GetBudget` just returned. `ProjectionWithinBudget` checks that what it reads is fresh and within budget.

Persistence:
- `Write` truncates `budget.dat` in place, so a crash can leave a torn file.
- Outside damage can also leave a bad file.

Sync:
- `NewBlock` clears both seen caches once in a while, but keeps `mapProposals`. `Sync` walks only the seen caches.
- `ResetSync` runs after the clear and finds nothing to reset, so votes already marked synced stay marked.
- A connection can drop, losing what was pushed over it. A peer asks for the full list once per connection.

Active masternode:
- `Register` and `SendMasternodePingX` store `&mnp`, a pointer to a local, into the `int64_t` field `lastPing`.
- `startmasternode` runs `ManageStatus` only when the node is already enabled.
- Because the stored `lastPing` is a stack address, `SendMasternodePingX` always finds the ping "too early". Fresh pings come only from `Register`, which every `ManageStatus` re-runs.

Schedules: `submitproposal` validates the schedule as start + cycle × count, but stores `nBlockEnd = start + count - 1`.

Locking: RPC handlers write the seen caches without `cs_budget`, and different handlers take different mutexes: `ProcessMessage` takes `cs_budget`, while `NewBlock` takes `cs` with `TRY_LOCK`, so a seen-cache clear can run during a handler. Each handler is modelled as one atomic step. A data race on a `std::map` is undefined behaviour at the level of memory, below what the model describes.

## Modules

### `BudgetManager.tla` (run by `MCBudgetManager.tla`)

This module models one node's admission of proposals and votes.

State:
- `mapProposals` is a function from admitted hash to a vote map (voter to vote or `NoVote`).
- `seenProps` and `seenVotes` hold the domains of the seen caches.
- `orphans` and `asked` model the orphan map and the asked-for map.
- `now` models `GetTime()`.
- `chainSynced` and `mnSynced` model the two `masternodeSync` milestones.

Actions:
- `RecvProposal`: the "mprop" handler, including the `AddProposal` it calls.
- `RecvVote`: the "mvote" handler, including `UpdateProposal` and `AddOrUpdateVote`.
- `ParkOrphan`: the unknown-proposal branch of `UpdateProposal`.
- `RpcSubmitProposal`: the `submitproposal` RPC.
- `RpcProposalVote(a, p, val, t)`: the `proposalvote` RPC. It accepts any address in `RpcVoters`. `nTime` is 0 from the aggregate initialisation, or the current time if `Sign()` sets it; `Sign()` is not declared on `CBudgetVote` under src/, so both outcomes are modelled. The vote is signed with this node's key (`LocalVoter`), and no `VerifyMessage` is called, so the signature is good only for the node's own address.
- `RpcRawVote(v)`: the `proposalrawvote` RPC, which rejects a bad signature before `UpdateProposal`.
- `RpcUpdateProposal(v)`: the part both RPCs share, `UpdateProposal(vote, NULL)` and the seen-cache insert.
- `Tick`, `ChainSyncDone`, `MnSyncDone`: the environment moves on.

Data is abstracted:
- A proposal is its hash.
- A vote is a record of the fields `GetHash` covers, plus `sigOk`, the outcome of `VerifyMessage`.
- A proposal's vote map is keyed by `AddressKey[address]`, the `uint256` the address string converts to. The conversion is in `uint256.h`, which is not under src/, so `AddressKey` is a constant. `DistinctKeys` gives every voter its own key, and `SharedKey` gives two voters one key.
- `IsBudgetCollateralValid` and the vote-independent checks of `IsValid` are constant sets. `BudgetCollateral` checks the collateral function on its own.
- The active-removal check on the proposal's own votes is kept.
- Peer inputs come from the small constant `VoteInputs` and the vote maps in `CarriedVoteChoices`.

### `BudgetVotes.tla`: the abstract ledger

`BudgetVotes` states what the budget ledger promises (spec §§3, 4.5 and 4.6), with no messages or caches:
- Only admissible proposals are admitted, and none is ever dropped.
- Each voter has at most one live vote per proposal, signed by that voter.
- A vote is replaced only by one at least `MinSpacing` newer.
- A vote is never dated beyond the clock plus `Skew`.

`BudgetManager` instantiates it as `Ledger` with this refinement mapping:
- `ballots <- Ballots`: for each voter, the vote stored under its key, if that vote is its own
- `clock <- now`
- `Admissible <- CollateralValid \cap StaticallyValid`

`ImplementsBudgetVotes` (that is, `Ledger!Spec`) is checked as a property. Every handler step is then either an abstract `Admit`, an abstract `Cast`, a `Tick` or a stutter.

### `BudgetAllocation.tla` (run by `MCBudgetAllocation.tla`)

This module models `GetBudget`, called by `getbudgetprojection`, as one action, in the code's order:
1. Sort with `sortProposalsByVotes`. This is `SetToSortSeq` with `RankedBefore`.
2. Compute the next cycle window.
3. Apply Check 1 (`SpansCycle`, net votes and establishment), then Check 2, using `SetAllotted`. This is a `FoldLeft` of `AllocStep`.

A proposal's `nBlockEnd` is the one `submitproposal` stores, `SubmittedBlockEnd(start, count)`. Every proposal, including relayed ones, is built by that RPC.

`GetBudgetProjection` models the `getbudgetprojection` RPC: `GetBudget`, then `ProjectionRows`, one row per returned proposal with its `nAllotted` and the running total `nTotalAllotted`. `ProjectionWithinBudget` checks every row: "Alloted" is the requested amount, and the running total stays within the cycle's budget (spec §4.7 step 4 and §5). Its mutant compares the running total with the budget before adding the amount.

The other actions model the environment: net votes move by one (`VoteChange`), a proposal becomes established (`Establish`), and the tip grows (`NewTip`).

`RefWins` is a recursive reference definition of the winning set. It uses no sort, and `WinnersFollowRanking` checks every `GetBudget` step against it.

`IsBudgetPaymentBlock(h, budgets, enabled)` is the payment gate as a pure operator. Finalized budgets are records of start, end and vote count, since `CFinalizedBudget` is not under src/. `PaymentGateIsFivePercent` compares the operator with the exact 5% rule, over every enabled count up to 41 and every set of at most two (possibly overlapping) budgets. The comparison is evaluated once per height.

### `BudgetCollateral.tla` (run by `MCBudgetAllocation.tla`)

This module models `IsBudgetCollateralValid` as a pure operator of a fee transaction and the tip height. A transaction is a record of what the function reads:
- whether `GetTransaction` finds it;
- its lock time;
- the kinds of its outputs: a normal payment, the OP_RETURN mark with at least the fee, the mark with less, another unspendable script, or anything else;
- its instant-send lock count;
- its containing block: none (mempool), or a height and whether the block is on the active chain.

`Confirmations` adds the lock count to the depth `tip - height + 1` of an active block. `SpecCollateralOK` states spec §4.4 separately: the confirming blocks are the containing block and every active block above it up to the tip. `CollateralCheckIsSpec` compares the two on every transaction at the current height of the allocation run, with the comparison precomputed per height like the payment gate.

The `nTime` the function writes back is left out, since nothing under src/ reads a proposal's `nTime`.

### `BudgetSync.tla` (run by `MCBudgetSync.tla`)

This module models budget gossip around node N:
- **Q** is a peer that holds the network's proposals and votes. Its messages reach N in any order. Only the proposals in `Broadcast` reach N first-hand; the others were announced before N joined. Q answers N's `mnvs` requests with `Sync(N, p)` (`QAnswer`). Its own `NewBlock` re-announces every proposal it holds (`QNewBlock`). When `LossyQ` is set, a request or its answer may be lost (`LoseRequest`).
- **P** is a client peer. It connects (`PConnect`), asks for the full list (`RecvFullSyncRequest`), receives pushes (`PReceive`), and may drop its connection (`PDisconnect`). A drop loses everything in flight to it.

N's state:
- admitted proposals and stored votes;
- the `fSynced` flags;
- both seen caches;
- the asked-for map;
- `masternodeSync.IsSynced()`;
- the request counter and `fulfilled` flag of P's connection, and the misbehaviour penalty.

N's actions:
- `RecvProposal` and `RecvVote` are the handlers, with their relays.
- `NewBlock` may clear the seen caches, the 1-in-1440 draw, at most `MaxClears` times (the counter `clears`). It then runs `ResetSync` on what is left, a partial `Sync` to P, and `MarkSynced`, in that order. `ResetSync`, `MarkSynced` and `Sync`'s hash filter `SyncMatches` are operators of their own.
- `Forgery` adds a badly signed copy of each of Q's votes to the initial traffic.

A vote is a pair of proposal and voter. Its hash is the same pair, because `GetHash` does not cover the signature.

### `ActiveMasternode.tla`

This module models the local controller:
- `ManageStatus` is `CActiveMasternode::Startup`. The header declares `ManageStatus`; the .cpp defines `Startup` with its log messages.
- `ManageStatus` includes `Register` and `SendMasternodePingX`.
- `RpcStartMasternode(lockwallet)` models `startmasternode` "local".

The state:
- `status`;
- both `lastPing` fields;
- whether the node's entry is in the list;
- the seen-ping cache and the relayed pings;
- the wallet lock, chain sync and clock, as environment.

Both `Register` and `SendMasternodePingX` assign `&mnp` to an `int64_t`. The model gives that value the constant `StackAddress`, larger than any time, and lets an update of an existing entry keep or take it.

`SendMasternodePingX` looks the entry up with `mnodeman.Find(vin)`, while `Register` uses the address; `vin` is declared nowhere under src/. Whether that lookup finds the entry is the constant `VinFindsEntry`; when it does not, `ManageStatus` ends with NOT_CAPABLE. active_start takes it as TRUE, an assumption listed as a hazard.

`NodeKeepsAnnouncing` says that whenever the node is ENABLED at time t, a ping of time t or later eventually enters the seen cache. It is stated per time point because the clock is bounded: a plain "infinitely often" would be met by a single ping at the last tick. Its mutant re-registers only a node not yet in the list. That node would then depend on `SendMasternodePingX`, which the stack address in `lastPing` silences.

### `BudgetDB.tla` (run by `MCBudgetDB.tla`)

This module models `budget.dat`:
- The file is missing, partial, or complete. A complete file records its payload and the outcome of each of `Read`'s checks.
- `ReadResults` models `CBudgetDB::Read`'s results in the code's order. A short file either throws in the read (`HashReadError`) or fails the checksum.
- `DumpStart` models `DumpBudgets`: the dry-run read, the decision to write, and the truncating `fopen("wb")`.
- `DumpFinish` models the rest of `Write`.
- `Crash` and `Restart` model the process stopping and starting. The startup load is not under src/, so `Restart` is modelled from spec §6.
- The environment damages the file with `BitFlip`, `ForeignFile` and `OldFormat`.

## Runs

| Run | Config | Expect | What it shows |
|---|---|---|---|
| budget_core | MCBudgetManager.cfg | pass | With honest peers and distinct vote keys, `ImplementsBudgetVotes` holds over every delivery order of 8 votes and 3 proposals. The handlers implement the abstract ledger. |
| forged_tally | MCBudgetForgedTally.cfg | violation | A peer's "mprop" carries a forged vote in `mapVotes`. `AddProposal` stores it, and it is counted (`CountedVotesSigned`). This run also lets `proposalvote` name either voter. With honest peers only, the same configuration is violated in three steps, when `proposalvote` names another masternode's address. |
| key_collision | MCBudgetKeyCollision.cfg | violation | Two voters whose addresses convert to the same `uint256` share one `mapVotes` slot. a2's vote, spaced correctly after a1's, overwrites it, and a1's ballot vanishes (`ImplementsBudgetVotes`). |
| allocation | MCBudgetAllocation.cfg | pass | The `GetBudget` result equals the reference winners, ordered by rank, and ties at equal net votes occur. Since a lower-ranked winner fits beside every winner above it, the result is also within budget. Every `getbudgetprojection` row shows the requested amount, and its running total stays within budget (`ProjectionWithinBudget`). The integer 5% payment gate agrees with the exact rule, and `IsBudgetCollateralValid` agrees with spec §4.4 at every height. |
| submit_schedule | MCBudgetSchedule.cfg | violation | Proposals with 1 or 2 payments and two-block cycles get `nBlockEnd = start + count - 1`. A count of 1 fails the window check in the one cycle it is scheduled for and is never funded; a count of 2 is funded in its first cycle but fails in its second. |
| sync_core | MCBudgetSync.cfg | pass | With no seen-cache clear, and through dropped connections, P hears of every proposal and vote N accepts, and of nothing else. A proposal N asked for is admitted, even though it was announced before N joined and the request or answer can be lost, because Q's partial sync announces it again (`AskedEventuallyAdmitted`). |
| sync_after_clear | MCBudgetSyncClear.cfg | violation | With one seen-cache clear, a vote N stored and marked synced before P connected never reaches P (`StoredVotesReachPeer`): P's one full-list request comes while the seen cache is empty, and the partial syncs skip the vote because its `fSynced` is still set. The proposal itself is announced again once Q re-seeds the seen cache. |
| vote_poisoned | MCBudgetVotePoisoned.cfg | violation | A badly signed copy of a vote, handled first, marks the vote's hash seen. The genuine vote is then dropped for good. |
| vote_orphaned | MCBudgetVoteOrphaned.cfg | violation | With honest peers only, a vote that N handles before its proposal is parked in `mapOrphanMasternodeBudgetVotes`. Nothing reads that map, so the vote is never counted (`VotesEventuallyCounted`). |
| active_start | MCActiveMasternode.cfg | pass | When `ManageStatus` keeps being called, a configured, funded, reachable node becomes and stays ENABLED (`EventuallyEnabled`), despite a locked wallet and an unsynced chain at first. It also keeps announcing fresh pings (`NodeKeepsAnnouncing`). |
| budget_db | MCBudgetDB.cfg | pass | Under bit flips, foreign files, old formats and crashes, a restart loads only the state this node last wrote, or nothing. |
| torn_write | MCBudgetDBTornWrite.cfg | violation | A crash after `fopen("wb")` and before the write completes leaves a torn file. Spec §6 says the file is replaced atomically. `DumpBudgets` then refuses to write ever again. |

Each property of a passing run has a mutant in `PROJECT.json`: a plausible slip in the code that makes TLC report a violation. Examples are a dropped check, a reversed tie-break, `>=` in the 5% gate, chain depth without the containing block, `&&` for `||` in `Sync`'s hash filter, or a vote map keyed by the wrong hash.

`findings` in `PROJECT.json` explains each violation.

## Bounds and why they are enough

**budget_core:**
- 2 voters and 3 proposals. p1 is fully valid, p2 has bad collateral, and p3 fails IsValid statically.
- Clock 0..2 with `BUDGET_VOTE_UPDATE_MIN` = 2 and `VoteSkew` = 1. With these values, too-soon, stale, in-window and future votes all occur.
- `EnabledCount` = 10, so two "no" votes trigger the active-removal check.
- key_collision is the same instance with `SharedKey`.
- `proposalvote` may name only `LocalVoter` = a1 in budget_core and key_collision, as an operator voting with its own masternode. forged_tally lets it name a2 as well.

**allocation, submit_schedule:**
- 3 proposals with amounts 6, 5 and 4 against a budget of 10. This covers "fits", "does not fit" and "second fits after a skip".
- Cycle length 2 and height 0..5, so the window moves across three cycles.
- Payment counts 2, 4 and 4 give ends 3, 5 and 7, so each proposal is inside some windows and outside others. submit_schedule uses counts 1, 2 and 1 instead.
- Net votes range over -2..2, so the threshold `EnabledCount/10` = 1 is crossed both ways, and ties happen.
- The gate is checked for 0..41 enabled nodes. This includes the boundaries at 20 and 40 and the values just below and above them.
- The collateral check covers every transaction of the abstract shape: 32 output sets, 0..2 instant-send locks, and a mempool, active or stale block at heights 0..5. The threshold of 2 confirmations can be met by locks alone, by depth alone, or only by both, and a block above the tip counts for nothing.

**sync runs:**
- Two proposals, one valid, and two votes on the valid one.
- In sync_core the valid proposal is not broadcast to N (`Broadcast = {p2}`), and requests to Q may be lost. N can learn of p1 only through a vote, its `mnvs` request and Q's answer, or Q's partial sync. The other three runs broadcast both proposals and lose nothing. vote_orphaned starts with nothing admitted and no forged copies, so the only way to lose a vote is to handle it before its proposal.
- Up to 2 connections of P and 2 requests per connection. This is enough for a drop and a reconnect, and for a repeated request to be penalised.
- `MaxClears` = 0 in the three other runs and 1 in sync_after_clear. One clear, with the seen cache re-seeded afterwards only by Q's `NewBlock`, is enough to lose a vote; bounding it keeps the runs finite and lets the proposal come back.

**active_start:**
- Clock 0..3 with a ping interval of 1, so pings fall both inside and outside the interval.
- Up to 2 wallet locks, so a lock can come both before and after registration.

**budget_db:**
- Three in-memory states are enough to tell "own last write" apart from "some other state".

## Fairness

- **budget_core, allocation, budget_db:** no fairness, because these runs check safety only.
- **BudgetSync:** weak fairness of each message handler on each message in flight (`ProcessMessage` runs for every delivered message), of `NewBlock` (blocks keep coming), of `MnSyncDone`, of Q answering and of Q's own `NewBlock`, of P receiving, of P connecting, and of P's first full-list request on a connection (its `masternodeSync` asks once per connection). Disconnects and repeated requests are not fair; they are bounded. Losing a request to Q is not fair either, since it is a fault. N never asks again after a loss; only Q's fair `NewBlock` brings the proposal.
- **ActiveMasternode:** weak fairness of `ManageStatus`, whose caller is outside src/ (spec §4.1 says it is re-invoked periodically), and of chain sync, the clock and `WalletUnlock`. Wallet locks are bounded, so the operator locks only finitely often.

## Not modelled, and why

- **Registry (`mnodeman`), scoring, wallet, transaction and chain lookups:** these are not under src/. They enter the models as constants or environment steps.
- **RPC output formatting:** this is read-only.
- **`CleanAndRemove`, `GetYeas`/`GetNays`, `IsEstablished`, `GetTotalBudget`, `CFinalizedBudget`:** these are declared but not defined under src/. A stored vote is assumed to count, and establishment is an environment step.
- **The self-initialising copy in the "mprop" handler (`CBudgetProposal budgetProposal(budgetProposal)`):** the model treats it as the intended copy.
- **`prepareproposal`:** it builds the proposal with its arguments in a different order from the constructor and from `submitproposal`, so the hash it commits to in the fee transaction differs from the one `submitproposal` checks. The call passes a `CScript` where an `int` is expected and does not type-check as written, so what a build would hash is not fixed by the source. It is listed as a hazard.
- **Read-only RPCs (`getbudgetinfo`, `getproposalvotes`, `getmasternodewinners`, `getmasternodescores`, `listmasternodes`, `getmasternodecount`, `masternodecurrent`):** these format or look up state and change nothing. What most of them print comes from code outside src/ or is undefined there: `budgetToJSON`, `CalculateScore`, `GetMasternodeRanks`, `GetRequiredPaymentsString`. Three of their hazards are listed:
  - `getmasternodescores` keeps the first of equal scores, not the one spec §4.3's identity order picks;
  - it dereferences the tip with no NULL check;
  - `listmasternodes` filters on the address twice and never on the network address.

  `getbudgetprojection` is modelled in `BudgetAllocation`.
- **`fundmasternode`, `allocatefunds`:** wallet operations. `fundmasternode` reads `params[3]` when given three parameters; this is listed as a hazard.
- **Concurrency below handler granularity:** the RPCs write the seen maps without `cs_budget`. This is a data race, not a state-level interleaving.
- **`startmasternode` as the only caller of `ManageStatus`:** the RPC starts only a node that is already enabled. No run restricts the system to that caller, since the periodic caller is outside src/. It is listed as a hazard.
- **`FindProposal(name)`:** it picks the proposal with the most net votes, using a strict `>` from -99999. The admission model has only one admissible proposal, so there is never a choice to check.
- **The `cs`/`cs_budget` race between `NewBlock` and `ProcessMessage`:** each handler is one atomic step. A clear in the middle of a handler is below that granularity. It is listed as a hazard.
- **Assigning `&mnp` to `int64_t`:** this is ill-formed C++, so the stored value depends on the build. The model takes it as a stack address.
- **Entry expiry (`CMasternode::Check`):** this is not under src/.

## Further work

1. A `BudgetSync` variant with two voters per proposal and vote updates, checked against the `BudgetVotes` ledger.
2. The seen-cache clear on Q as well as on N, with the liveness of orphan resolution under it.
3. A violation run for the stale allotment of proposals that fail Check 1 (spec §4.7 step 4). No run has been added for it, because no reader of `nAllotted` observes it.
