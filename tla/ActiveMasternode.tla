-------------------------- MODULE ActiveMasternode --------------------------
(***************************************************************************)
(* The local masternode controller (CActiveMasternode, activemasternode.cpp)*)
(* with this node's entry in the masternode list, and the startmasternode  *)
(* RPC (rpcmasternode.cpp).                                                *)
(*                                                                         *)
(* CActiveMasternode::Startup is the body of ManageStatus (activemasternode*)
(* .h declares ManageStatus, the .cpp defines Startup with ManageStatus's  *)
(* log messages).  Both Register and SendMasternodePingX store &mnp, the   *)
(* address of a local CMasternodePing, into the int64_t field lastPing.    *)
(* The conversion yields the stack address of mnp, a number far above any  *)
(* timestamp; the model gives it the constant value StackAddress.          *)
(*                                                                         *)
(* Times are in units of MASTERNODE_PING_SECONDS-scaled ticks.             *)
(***************************************************************************)
EXTENDS Naturals

CONSTANTS
    MaxTime,                      \* bound of the clock
    MASTERNODE_PING_SECONDS,
    StackAddress,                 \* value of (int64_t)&mnp
    AddrConfigured,               \* strMasterNodeAddr is not empty
    Reachable,                    \* the inbound connection probe succeeds
    Funded,                       \* VerifyFunding() holds
    MaxLocks,                     \* bound on walletlock calls
    VinFindsEntry                 \* mnodeman.Find(vin) finds this node's entry

ASSUME StackAddress > MaxTime + MASTERNODE_PING_SECONDS

Statuses == {"NOT_CAPABLE", "ENABLED", "SYNC_IN_PROCESS"}

VARIABLES
    status,        \* CActiveMasternode::status
    selfLastPing,  \* CActiveMasternode::lastPing
    registered,    \* mnodeman.Find(address) finds this node
    regLastPing,   \* lastPing of that entry
    seenPings,     \* sigTimes of this node's pings in mapSeenMasternodePing
    relayed,       \* sigTimes of pings relayed by SendMasternodePingX
    walletLocked,  \* pwalletMain->IsLocked()
    locks,         \* walletlock calls so far
    chainSynced,   \* masternodeSync.IsBlockchainSynced()
    now            \* GetAdjustedTime()

vars == <<status, selfLastPing, registered, regLastPing, seenPings, relayed,
          walletLocked, locks, chainSynced, now>>

-----------------------------------------------------------------------------
(* Mutation: the wallet check of Startup inverted. *)
StartupChecksPassInverted == walletLocked /\ AddrConfigured /\ Reachable /\ Funded

-----------------------------------------------------------------------------

(* Startup's checks before Register: wallet unlocked, an external address, *)
(* a successful inbound connection, funding.                               *)
StartupChecksPass == ~walletLocked /\ AddrConfigured /\ Reachable /\ Funded

(* CMasternode::IsPingedWithin(seconds, t). *)
IsPingedWithin(lastPing, seconds, t) == lastPing # 0 /\ t - lastPing < seconds

-----------------------------------------------------------------------------
(* Mutation: Startup re-registers only a node that is not yet in the list; *)
(* a listed node goes straight to SendMasternodePingX.                      *)
StartupEffectRegisterOnce ==
    IF ~StartupChecksPass \/ ~chainSynced
    THEN /\ status' = "NOT_CAPABLE"
         /\ UNCHANGED <<selfLastPing, registered, regLastPing, seenPings, relayed>>
    ELSE IF registered
    THEN /\ status' = "ENABLED"
         /\ IF IsPingedWithin(regLastPing, MASTERNODE_PING_SECONDS, now)
            THEN UNCHANGED <<selfLastPing, registered, regLastPing, seenPings, relayed>>
            ELSE /\ regLastPing' = StackAddress
                 /\ seenPings' = seenPings \cup {now}
                 /\ relayed' = relayed \cup {now}
                 /\ UNCHANGED <<selfLastPing, registered>>
    ELSE /\ seenPings' = seenPings \cup {now}
         /\ selfLastPing' = StackAddress
         /\ registered' = TRUE
         /\ status' = "ENABLED"
         /\ regLastPing' = StackAddress
         /\ UNCHANGED relayed
-----------------------------------------------------------------------------

Init ==
    /\ status = "SYNC_IN_PROCESS"
    /\ selfLastPing = 0
    /\ registered = FALSE
    /\ regLastPing = 0
    /\ seenPings = {}
    /\ relayed = {}
    /\ walletLocked = TRUE
    /\ locks = 0
    /\ chainSynced = FALSE
    /\ now = 0

(* Startup: status NOT_CAPABLE, the checks, Register, status ENABLED, then *)
(* SendMasternodePingX, whose failure is only logged.                      *)
(* Register: needs the chain synced; signs a ping at now, puts it in the   *)
(* seen-ping cache, sets lastPing = &mnp, signs the broadcast and adds     *)
(* the entry, or updates the existing one from the broadcast (an update    *)
(* may or may not take the broadcast's lastPing).                          *)
(* SendMasternodePingX looks the entry up by vin, which neither           *)
(* CActiveMasternode nor CMasternode declares, so whether it finds the     *)
(* entry Register keyed by address is the constant VinFindsEntry; if not,  *)
(* status becomes NOT_CAPABLE.  Otherwise the                              *)
(* ping is "too early" if the entry was pinged within                      *)
(* MASTERNODE_PING_SECONDS of its sigTime; otherwise the entry's lastPing  *)
(* = &mnp, and the ping is cached and relayed.                             *)
StartupEffect ==
    IF ~StartupChecksPass \/ ~chainSynced
    THEN /\ status' = "NOT_CAPABLE"
         /\ UNCHANGED <<selfLastPing, registered, regLastPing, seenPings, relayed>>
    ELSE \E entryPing \in IF registered THEN {StackAddress, regLastPing}
                                        ELSE {StackAddress} :
         /\ seenPings' = seenPings \cup {now}
         /\ selfLastPing' = StackAddress
         /\ registered' = TRUE
         /\ IF ~VinFindsEntry
            THEN /\ status' = "NOT_CAPABLE"
                 /\ regLastPing' = entryPing
                 /\ UNCHANGED relayed
            ELSE /\ status' = "ENABLED"
                 /\ IF IsPingedWithin(entryPing, MASTERNODE_PING_SECONDS, now)
                    THEN /\ regLastPing' = entryPing
                         /\ UNCHANGED relayed
                    ELSE /\ regLastPing' = StackAddress
                         /\ relayed' = relayed \cup {now}

(* ManageStatus, re-invoked by its caller (spec 4.1: no retry loop of its *)
(* own).                                                                   *)
ManageStatus ==
    /\ StartupEffect
    /\ UNCHANGED <<walletLocked, locks, chainSynced, now>>

(* RPC startmasternode lockwallet: refuses when the wallet is locked; runs *)
(* ManageStatus and then locks the wallet if asked, but only when the      *)
(* node is already enabled.                                                *)
RpcStartMasternode(lockwallet) ==
    /\ ~walletLocked
    /\ IF status = "ENABLED"
       THEN /\ StartupEffect
            /\ IF lockwallet
               THEN /\ locks < MaxLocks
                    /\ walletLocked' = TRUE
                    /\ locks' = locks + 1
               ELSE UNCHANGED <<walletLocked, locks>>
       ELSE UNCHANGED <<status, selfLastPing, registered, regLastPing, seenPings,
                        relayed, walletLocked, locks>>
    /\ UNCHANGED <<chainSynced, now>>

(* The operator unlocks or locks the wallet (walletpassphrase, walletlock). *)
WalletUnlock ==
    /\ walletLocked
    /\ walletLocked' = FALSE
    /\ UNCHANGED <<status, selfLastPing, registered, regLastPing, seenPings, relayed,
                   locks, chainSynced, now>>

WalletLock ==
    /\ ~walletLocked /\ locks < MaxLocks
    /\ walletLocked' = TRUE
    /\ locks' = locks + 1
    /\ UNCHANGED <<status, selfLastPing, registered, regLastPing, seenPings, relayed,
                   chainSynced, now>>

ChainSyncDone ==
    /\ ~chainSynced
    /\ chainSynced' = TRUE
    /\ UNCHANGED <<status, selfLastPing, registered, regLastPing, seenPings, relayed,
                   walletLocked, locks, now>>

Tick ==
    /\ now < MaxTime
    /\ now' = now + 1
    /\ UNCHANGED <<status, selfLastPing, registered, regLastPing, seenPings, relayed,
                   walletLocked, locks, chainSynced>>

Next ==
    \/ ManageStatus
    \/ \E lw \in BOOLEAN : RpcStartMasternode(lw)
    \/ WalletUnlock
    \/ WalletLock
    \/ ChainSyncDone
    \/ Tick

(* The caller of ManageStatus keeps calling it, the chain syncs, time     *)
(* passes, and the operator, who locks the wallet only finitely often,    *)
(* unlocks it.                                                             *)
Spec == Init /\ [][Next]_vars
        /\ WF_vars(ManageStatus) /\ WF_vars(ChainSyncDone) /\ WF_vars(Tick)
        /\ WF_vars(WalletUnlock)

-----------------------------------------------------------------------------
(* Spec 4.1 and the startmasternode help ("Attempts to start ..."): a      *)
(* node that is configured, reachable and funded is eventually ENABLED and *)
(* stays so, once ManageStatus keeps being invoked and the operator leaves *)
(* the wallet unlocked.                                                    *)
EventuallyEnabled == <>[](status = "ENABLED")

(* Spec 2 and 4.1: the controller keeps emitting fresh pings.  Whenever  *)
(* the node is ENABLED at time t, a ping signed at t or later eventually   *)
(* enters the seen-ping cache: the clock is bounded, so this is stated per *)
(* time point rather than as "infinitely often".  SendMasternodePingX      *)
(* refuses its ping as "too early" whenever the entry's lastPing holds the *)
(* stack address &mnp, so the fresh ping has to come from Register, which  *)
(* every ManageStatus re-runs with no interval check.                      *)
NodeKeepsAnnouncing ==
    \A t \in 0..MaxTime :
        (status = "ENABLED" /\ now = t) ~> (\E u \in seenPings : u >= t)

=============================================================================
