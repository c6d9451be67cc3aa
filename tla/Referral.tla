------------------------------ MODULE Referral ------------------------------
(***************************************************************************)
(* solfx-referral: what introducing brokers (IBs) earn on the traders they *)
(* named, beside the counters of solfx-core that it is derived from.       *)
(*                                                                         *)
(* The core earmarks a share of each referred trader's fees and counts it  *)
(* twice: for the whole programme and on the trader's account.  Anyone may *)
(* later turn what an account has gathered since the last time into a      *)
(* rebate of its IB and an override of the IB's parent, and an IB may ask  *)
(* the core to pay.  In between trades go on, the IB rises in tier, the    *)
(* admin changes the split of fees, and this program's copy of the split   *)
(* is refreshed or not.                                                    *)
(*                                                                         *)
(* Every account of the programme is an IB's or a link of one trader to    *)
(* the IB it named; lifetime totals are read by no instruction and left    *)
(* out.  What the fee vault holds is in Vaults.                            *)
(***************************************************************************)
EXTENDS SolfxMath, Sums

CONSTANTS
    NClients,       \* the traders' accounts at solfx-core, 1..NClients
    NIbs,           \* authorities of introducing brokers, 1..NIbs
    ReferrerOf,     \* UserAccount::referrer, written once; NoIb for none
    ShareTiers,     \* TIER_TABLE: a set of [bound, value], bounds exclusive
    TopShare,       \* the share above every bound
    OverrideBps,    \* ReferralConfig::override_bps
    ReferralSplits, \* what the admin may set fee_split_referral_bps to
    ReferredFees, ReferredNotionals,   \* of trades
    MaxEarmarked, MaxReferredVolume    \* bounds of this model

NoIb == 0           \* Pubkey::default()
Clients == 1..NClients
Ibs == 1..NIbs

ASSUME ReferralAssumption ==
    /\ NClients \in Nat /\ NIbs \in Nat
    /\ ReferrerOf \in [Clients -> Ibs \cup {NoIb}]
    /\ TopShare \in Nat
    /\ \A t \in ShareTiers : t.bound \in Nat /\ t.value \in Nat
    /\ OverrideBps \in 0..Bps
    /\ ReferralSplits \subseteq 0..Bps
    /\ ReferredFees \subseteq Nat /\ ReferredNotionals \subseteq Nat

VARIABLES
    feeSplitReferral,   \* Protocol::fee_split_referral_bps
    earmarked,          \* Protocol::total_referral_accrued
    claimed,            \* Protocol::total_referral_claimed
    payoutsOn,          \* Protocol::referral_authority is this program's
    generated,          \* UserAccount::referral_fees_generated
    tradedVolume,       \* UserAccount::lifetime_volume
    poolSplit,          \* ReferralConfig::pool_split_bps
    registered,         \* the IBs that have an IbAccount
    parent, unclaimed, referredVolume, \* its fields
    creditedShare, creditedVolume      \* TraderLink, by the trader

coreVars == <<feeSplitReferral, earmarked, claimed, payoutsOn, generated, tradedVolume>>
ibVars == <<registered, parent, unclaimed, referredVolume>>
linkVars == <<creditedShare, creditedVolume>>
referralVars == <<coreVars, poolSplit, ibVars, linkVars>>

ReferralTypeOK ==
    /\ feeSplitReferral \in ReferralSplits /\ poolSplit \in ReferralSplits
    /\ earmarked \in Nat /\ claimed \in Nat /\ payoutsOn \in BOOLEAN
    /\ generated \in [Clients -> Nat] /\ tradedVolume \in [Clients -> Nat]
    /\ registered \subseteq Ibs
    /\ parent \in [Ibs -> Ibs \cup {NoIb}]
    /\ unclaimed \in [Ibs -> Nat] /\ referredVolume \in [Ibs -> Nat]
    /\ creditedShare \in [Clients -> Nat] /\ creditedVolume \in [Clients -> Nat]

(* initialize_referral copies the split of the day; nobody may be paid     *)
(* before the core's admin has registered the program.                     *)
ReferralInit ==
    /\ feeSplitReferral \in ReferralSplits /\ poolSplit = feeSplitReferral
    /\ earmarked = 0 /\ claimed = 0 /\ payoutsOn = FALSE
    /\ generated = [c \in Clients |-> 0] /\ tradedVolume = [c \in Clients |-> 0]
    /\ registered = {}
    /\ parent = [i \in Ibs |-> NoIb]
    /\ unclaimed = [i \in Ibs |-> 0] /\ referredVolume = [i \in Ibs |-> 0]
    /\ creditedShare = [c \in Clients |-> 0] /\ creditedVolume = [c \in Clients |-> 0]

-----------------------------------------------------------------------------
(* The core's side *)

(* The referral share of split_fee, earmarked if there is a referrer. *)
Earmark(c, fee) ==
    IF ReferrerOf[c] = NoIb THEN 0 ELSE MulDivFloor(fee, feeSplitReferral, Bps)

(* A trade of the owner: settle and record_trade. *)
ReferredTrade(c, fee, notional) ==
    /\ earmarked + Earmark(c, fee) <= MaxEarmarked
    /\ tradedVolume[c] + notional <= MaxReferredVolume
    /\ earmarked' = earmarked + Earmark(c, fee)
    /\ generated' = [generated EXCEPT ![c] = @ + Earmark(c, fee)]
    /\ tradedVolume' = [tradedVolume EXCEPT ![c] = @ + notional]
    /\ UNCHANGED <<feeSplitReferral, claimed, payoutsOn, poolSplit, ibVars, linkVars>>

(* A liquidation or a deleveraging settles the position's carry as a fee,  *)
(* and records no trade.                                                   *)
KeeperClose(c, fee) ==
    /\ earmarked + Earmark(c, fee) <= MaxEarmarked
    /\ earmarked' = earmarked + Earmark(c, fee)
    /\ UNCHANGED <<feeSplitReferral, claimed, payoutsOn, generated, tradedVolume,
                   poolSplit, ibVars, linkVars>>

(* update_fee_splits *)
UpdateFeeSplits(split) ==
    /\ feeSplitReferral' = split
    /\ UNCHANGED <<earmarked, claimed, payoutsOn, generated, tradedVolume,
                   poolSplit, ibVars, linkVars>>

(* set_referral_authority: to this program's config, or to somebody else. *)
SetReferralAuthority ==
    /\ payoutsOn' = ~payoutsOn
    /\ UNCHANGED <<feeSplitReferral, earmarked, claimed, generated, tradedVolume,
                   poolSplit, ibVars, linkVars>>

-----------------------------------------------------------------------------
(* This program's side *)

(* sync_split: anyone *)
SyncSplit ==
    /\ poolSplit' = feeSplitReferral
    /\ UNCHANGED <<coreVars, ibVars, linkVars>>

(* register_ib: the parent is any key but one's own, registered or not. *)
RegisterIb(i, p) ==
    /\ i \notin registered
    /\ p # i
    /\ registered' = registered \cup {i}
    /\ parent' = [parent EXCEPT ![i] = p]
    /\ UNCHANGED <<coreVars, poolSplit, unclaimed, referredVolume, linkVars>>

(* IbTier::for_volume and share_bps *)
TierShare(volume) == TierValue(ShareTiers, TopShare, volume)

(* entitlement *)
Entitlement(share, split, tierShare) ==
    IF share = 0 \/ split = 0 THEN 0
    ELSE Lesser(MulDivFloor(MulDivFloor(share, Bps, split), tierShare, Bps), share)

(* Mutant of Override: a second bite of the trader's fees. *)
UnbudgetedOverride(earned, share) == MulDivFloor(earned, OverrideBps, Bps)

(* parent_override, out of what the child's rebate left. *)
Override(earned, share) == Lesser(MulDivFloor(earned, OverrideBps, Bps), share - earned)

(* sync_trader: anyone, with the parent's account or without.  The volume  *)
(* counts first, so this very share is paid at the tier it leads to.       *)
SyncTrader(c, withParent) ==
    LET i         == ReferrerOf[c]
        share     == SatSub(generated[c], creditedShare[c])
        traded    == SatSub(tradedVolume[c], creditedVolume[c])
        volume    == referredVolume[i] + traded
        earned    == Entitlement(share, poolSplit, TierShare(volume))
        override  == Override(earned, share)
        rebated   == [unclaimed EXCEPT ![i] = @ + earned]
    IN  /\ i \in registered
        /\ share > 0 \/ traded > 0
        /\ withParent => parent[i] \in registered
        /\ referredVolume' = [referredVolume EXCEPT ![i] = volume]
        /\ unclaimed' = IF withParent /\ override > 0
                        THEN [rebated EXCEPT ![parent[i]] = @ + override]
                        ELSE rebated
        /\ creditedShare' = [creditedShare EXCEPT ![c] = generated[c]]
        /\ creditedVolume' = [creditedVolume EXCEPT ![c] = tradedVolume[c]]
        /\ UNCHANGED <<coreVars, poolSplit, registered, parent>>

(* pay_referral: the core's bound on all claims, for a vault that can pay. *)
PayReferral(amount) ==
    /\ payoutsOn
    /\ claimed + amount <= earmarked
    /\ claimed' = claimed + amount
    /\ UNCHANGED <<feeSplitReferral, earmarked, payoutsOn, generated, tradedVolume>>

(* claim *)
ClaimRebate(i) ==
    /\ i \in registered
    /\ unclaimed[i] > 0
    /\ PayReferral(unclaimed[i])
    /\ unclaimed' = [unclaimed EXCEPT ![i] = 0]
    /\ UNCHANGED <<poolSplit, registered, parent, referredVolume, linkVars>>

ReferralNext ==
    \/ \E c \in Clients, fee \in ReferredFees : KeeperClose(c, fee)
    \/ \E c \in Clients, fee \in ReferredFees, n \in ReferredNotionals : ReferredTrade(c, fee, n)
    \/ \E split \in ReferralSplits : UpdateFeeSplits(split)
    \/ SetReferralAuthority
    \/ SyncSplit
    \/ \E i \in Ibs, p \in Ibs \cup {NoIb} : RegisterIb(i, p)
    \/ \E c \in Clients, withParent \in BOOLEAN : SyncTrader(c, withParent)
    \/ \E i \in Ibs : ClaimRebate(i)

ReferralSpec == ReferralInit /\ [][ReferralNext]_referralVars

-----------------------------------------------------------------------------
(* What a trader's account has gathered and no sync has turned into rebates. *)
Unsynced == [c \in Clients |-> generated[c] - creditedShare[c]]

(* "An IB can never be paid more than was earmarked": pay_referral's bound *)
(* on the total refuses no IB's claim.  Whoever syncs and claims, in any   *)
(* order, across tiers, parents and changes of the split, all rebates that *)
(* wait and all shares still to be synced fit into what the core has       *)
(* earmarked and not yet paid.                                             *)
RebatesCovered ==
    SumTo(unclaimed, NIbs) + SumTo(Unsynced, NClients) + claimed <= earmarked
=============================================================================
