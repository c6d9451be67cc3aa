------------------------------- MODULE Vaults -------------------------------
(***************************************************************************)
(* The four token vaults of solfx-core, the accounting fields that mirror  *)
(* them, and the instructions that move USDC across the protocol's edge    *)
(* without touching a position or an LP share.                             *)
(*                                                                         *)
(* Every unit outside the vaults is held somewhere too: in a trader's, a   *)
(* provider's or a sponsor's wallet, or in one of the protocol's running   *)
(* totals of what it has paid out.  The system is closed.                  *)
(***************************************************************************)
EXTENDS SolfxMath, Sums

CONSTANTS
    NUsers,             \* user accounts are numbered 1..NUsers
    NProviders,         \* LP providers are numbered 1..NProviders
    Referred,           \* the users that registered with a referrer
    FeeSplit,           \* Protocol::fee_split, [lp, treasury, insurance, referral]
    TraderFunds,        \* what each trader's wallet holds at the start
    ProviderFunds,      \* what each provider's wallet holds at the start
    SponsorFunds,       \* what insurance sponsors hold at the start
    CollateralAmounts,  \* the amounts deposits and withdrawals are made in
    SponsorAmounts,     \* the amounts the insurance fund is topped up in
    PayoutAmounts       \* the amounts treasury and referral payouts are made in

Users == 1..NUsers
Providers == 1..NProviders

ASSUME PartiesAssumption ==
    /\ NUsers \in Nat
    /\ NProviders \in Nat
    /\ Referred \subseteq Users
    /\ TraderFunds \in Nat
    /\ ProviderFunds \in Nat
    /\ SponsorFunds \in Nat

ASSUME AmountsAssumption ==
    /\ CollateralAmounts \subseteq Nat \ {0}
    /\ SponsorAmounts \subseteq Nat \ {0}
    /\ PayoutAmounts \subseteq Nat \ {0}

(* FeeSplitBps::validate, enforced whenever the split is set. *)
ASSUME SplitAssumption ==
    /\ FeeSplit \in [lp : Nat, treasury : Nat, insurance : Nat, referral : Nat]
    /\ ValidSplit(FeeSplit)

VARIABLES
    \* token balances of the vaults
    collateralVault, lpVault, insuranceVault, feeVault,
    \* the accounting that mirrors them
    totalUserCollateral, aum, insuranceBalance,
    \* per-user accounts
    free, referralFeesGenerated,
    \* running totals of the protocol
    totalReferralAccrued, totalReferralClaimed, totalTreasuryWithdrawn,
    totalLiquidatorPaid, totalBadDebt, totalBadDebtCovered,
    paused,
    \* tokens outside the protocol
    traderWallet, providerWallet, sponsorWallet

tokenVars == <<collateralVault, lpVault, insuranceVault, feeVault>>
mirrorVars == <<totalUserCollateral, aum, insuranceBalance>>
userVars == <<free, referralFeesGenerated>>
debtVars == <<totalBadDebt, totalBadDebtCovered>>
walletVars == <<traderWallet, providerWallet, sponsorWallet>>
payoutVars == <<totalReferralClaimed, totalTreasuryWithdrawn>>
vaultsVars == <<tokenVars, mirrorVars, userVars, debtVars, walletVars, payoutVars,
                totalReferralAccrued, totalLiquidatorPaid, paused>>

VaultsTypeOK ==
    /\ collateralVault \in Nat
    /\ lpVault \in Nat
    /\ insuranceVault \in Nat
    /\ feeVault \in Nat
    /\ totalUserCollateral \in Nat
    /\ aum \in Nat
    /\ insuranceBalance \in Nat
    /\ free \in [Users -> Nat]
    /\ referralFeesGenerated \in [Users -> Nat]
    /\ totalReferralAccrued \in Nat
    /\ totalReferralClaimed \in Nat
    /\ totalTreasuryWithdrawn \in Nat
    /\ totalLiquidatorPaid \in Nat
    /\ totalBadDebt \in Nat
    /\ totalBadDebtCovered \in Nat
    /\ paused \in BOOLEAN
    /\ traderWallet \in [Users -> Nat]
    /\ providerWallet \in [Providers -> Nat]
    /\ sponsorWallet \in Nat

VaultsInit ==
    /\ collateralVault = 0 /\ lpVault = 0 /\ insuranceVault = 0 /\ feeVault = 0
    /\ totalUserCollateral = 0 /\ aum = 0 /\ insuranceBalance = 0
    /\ free = [u \in Users |-> 0]
    /\ referralFeesGenerated = [u \in Users |-> 0]
    /\ totalReferralAccrued = 0 /\ totalReferralClaimed = 0
    /\ totalTreasuryWithdrawn = 0 /\ totalLiquidatorPaid = 0
    /\ totalBadDebt = 0 /\ totalBadDebtCovered = 0
    /\ paused = FALSE
    /\ traderWallet = [u \in Users |-> TraderFunds]
    /\ providerWallet = [q \in Providers |-> ProviderFunds]
    /\ sponsorWallet = SponsorFunds

-----------------------------------------------------------------------------
(***************************************************************************)
(* settle and flows_for_allocation: route a fee allocation and settle the  *)
(* trader's pnl against the pool, tokens and accounting alike.  A          *)
(* liquidation moves three more amounts in the same instruction: out to    *)
(* the liquidator from the collateral vault, reward to the liquidator from *)
(* the insurance vault, and draw from insurance to the pool.               *)
(***************************************************************************)
SettleWith(alloc, pnl, referred, out, reward, draw) ==
    LET lpDelta   == alloc.lp - pnl
        feeIn     == alloc.treasury + alloc.referral
        userDelta == pnl - AllocTotal(alloc)
    IN  /\ lpVault + lpDelta >= 0
        /\ aum + lpDelta >= 0
        /\ collateralVault + userDelta - out >= 0
        /\ totalUserCollateral + userDelta - out >= 0
        /\ insuranceVault + alloc.insurance - reward - draw >= 0
        /\ insuranceBalance + alloc.insurance - reward - draw >= 0
        /\ collateralVault' = collateralVault - lpDelta - alloc.insurance - feeIn - out
        /\ lpVault' = lpVault + lpDelta + draw
        /\ insuranceVault' = insuranceVault + alloc.insurance - reward - draw
        /\ feeVault' = feeVault + feeIn
        /\ aum' = aum + lpDelta + draw
        /\ insuranceBalance' = insuranceBalance + alloc.insurance - reward - draw
        /\ totalUserCollateral' = totalUserCollateral + userDelta - out
        /\ totalReferralAccrued' =
              totalReferralAccrued + (IF referred THEN alloc.referral ELSE 0)
        /\ totalLiquidatorPaid' = totalLiquidatorPaid + out + reward
        /\ totalBadDebtCovered' = totalBadDebtCovered + draw

Settle(alloc, pnl, referred) == SettleWith(alloc, pnl, referred, 0, 0, 0)

(* UserAccount::record_trade: the referral share of a referred trader's fee. *)
RecordTrade(u, alloc) ==
    referralFeesGenerated' =
        [referralFeesGenerated EXCEPT ![u] =
            @ + (IF u \in Referred THEN alloc.referral ELSE 0)]

(* What a settlement never touches. *)
settleFrame == <<walletVars, payoutVars, paused>>

-----------------------------------------------------------------------------
DepositCollateral(u, amount) ==
    /\ traderWallet[u] >= amount
    /\ traderWallet' = [traderWallet EXCEPT ![u] = @ - amount]
    /\ collateralVault' = collateralVault + amount
    /\ free' = [free EXCEPT ![u] = @ + amount]
    /\ totalUserCollateral' = totalUserCollateral + amount
    /\ UNCHANGED <<lpVault, insuranceVault, feeVault, aum, insuranceBalance,
                   referralFeesGenerated, debtVars, providerWallet, sponsorWallet,
                   payoutVars, totalReferralAccrued, totalLiquidatorPaid, paused>>

WithdrawCollateral(u, amount) ==
    /\ free[u] >= amount
    /\ totalUserCollateral >= amount
    /\ collateralVault >= amount
    /\ traderWallet' = [traderWallet EXCEPT ![u] = @ + amount]
    /\ collateralVault' = collateralVault - amount
    /\ free' = [free EXCEPT ![u] = @ - amount]
    /\ totalUserCollateral' = totalUserCollateral - amount
    /\ UNCHANGED <<lpVault, insuranceVault, feeVault, aum, insuranceBalance,
                   referralFeesGenerated, debtVars, providerWallet, sponsorWallet,
                   payoutVars, totalReferralAccrued, totalLiquidatorPaid, paused>>

DepositInsuranceFund(amount) ==
    /\ sponsorWallet >= amount
    /\ sponsorWallet' = sponsorWallet - amount
    /\ insuranceVault' = insuranceVault + amount
    /\ insuranceBalance' = insuranceBalance + amount
    /\ UNCHANGED <<collateralVault, lpVault, feeVault, totalUserCollateral, aum, userVars,
                   debtVars, traderWallet, providerWallet, payoutVars,
                   totalReferralAccrued, totalLiquidatorPaid, paused>>

(* The admin takes from the fee vault whatever it holds. *)
WithdrawTreasuryFees(amount) ==
    /\ feeVault >= amount
    /\ feeVault' = feeVault - amount
    /\ totalTreasuryWithdrawn' = totalTreasuryWithdrawn + amount
    /\ UNCHANGED <<collateralVault, lpVault, insuranceVault, mirrorVars, userVars, debtVars,
                   walletVars, totalReferralClaimed, totalReferralAccrued,
                   totalLiquidatorPaid, paused>>

(* Mutants of PayReferral: a claim that is booked and not paid out of the  *)
(* vault, and one that is not limited to what has accrued.                 *)
UnpaidReferral(amount) ==
    /\ totalReferralClaimed + amount <= totalReferralAccrued
    /\ totalReferralClaimed' = totalReferralClaimed + amount
    /\ UNCHANGED <<tokenVars, mirrorVars, userVars, debtVars, walletVars,
                   totalTreasuryWithdrawn, totalReferralAccrued, totalLiquidatorPaid, paused>>

(* The referral programme takes up to what has accrued for it. *)
PayReferral(amount) ==
    /\ totalReferralClaimed + amount <= totalReferralAccrued
    /\ feeVault >= amount
    /\ feeVault' = feeVault - amount
    /\ totalReferralClaimed' = totalReferralClaimed + amount
    /\ UNCHANGED <<collateralVault, lpVault, insuranceVault, mirrorVars, userVars, debtVars,
                   walletVars, totalTreasuryWithdrawn, totalReferralAccrued,
                   totalLiquidatorPaid, paused>>

EmergencyPause ==
    /\ paused' = TRUE
    /\ UNCHANGED <<tokenVars, mirrorVars, userVars, debtVars, walletVars, payoutVars,
                   totalReferralAccrued, totalLiquidatorPaid>>

Unpause ==
    /\ paused' = FALSE
    /\ UNCHANGED <<tokenVars, mirrorVars, userVars, debtVars, walletVars, payoutVars,
                   totalReferralAccrued, totalLiquidatorPaid>>

VaultsNext ==
    \/ \E u \in Users, amount \in CollateralAmounts :
          DepositCollateral(u, amount) \/ WithdrawCollateral(u, amount)
    \/ \E amount \in SponsorAmounts : DepositInsuranceFund(amount)
    \/ \E amount \in PayoutAmounts : WithdrawTreasuryFees(amount) \/ PayReferral(amount)
    \/ EmergencyPause
    \/ Unpause
=============================================================================
