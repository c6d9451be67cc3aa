------------------------------- MODULE LpPool -------------------------------
(***************************************************************************)
(* The LP pool of solfx-core: shares minted against deposits, exits that   *)
(* wait out a cooldown and are priced when they settle, an exit fee that   *)
(* stays with the pool and a performance fee that goes to the treasury.    *)
(*                                                                         *)
(* Time enters as whether an outstanding request's cooldown has passed.    *)
(* LP shares are an SPL token: a holder may send them to another provider. *)
(***************************************************************************)
EXTENDS Vaults

CONSTANTS
    LpDeposits,      \* the amounts providers deposit
    LpRequests,      \* the numbers of shares an exit is requested for
    ExitFeeBps,      \* LpPool::exit_fee_bps
    PerformanceBps   \* LpPool::performance_fee_bps

ASSUME LpAssumption ==
    /\ LpDeposits \subseteq Nat \ {0}
    /\ LpRequests \subseteq Nat \ {0}
    /\ ExitFeeBps \in Nat
    /\ PerformanceBps \in Nat

VARIABLES
    lpTokenSupply,            \* LpPool::lp_token_supply
    shares,                   \* each provider's LP tokens
    request,                  \* each provider's LpWithdrawRequest account
    highWaterMark,            \* LpPool::high_water_mark_per_share
    pendingWithdrawalShares   \* LpPool::pending_withdrawal_shares

lpVars == <<lpTokenSupply, shares, request, highWaterMark, pendingWithdrawalShares>>

NoRequest == [shares |-> 0, matured |-> FALSE]

LpTypeOK ==
    /\ lpTokenSupply \in Nat
    /\ shares \in [Providers -> Nat]
    /\ request \in [Providers -> [shares : Nat, matured : BOOLEAN]]
    /\ highWaterMark \in Nat
    /\ pendingWithdrawalShares \in Nat

LpInit ==
    /\ lpTokenSupply = 0
    /\ shares = [q \in Providers |-> 0]
    /\ request = [q \in Providers |-> NoRequest]
    /\ highWaterMark = QuotePrecision
    /\ pendingWithdrawalShares = 0

(* What an LP instruction leaves alone of the vaults. *)
lpFrame == <<collateralVault, insuranceVault, totalUserCollateral, insuranceBalance,
             userVars, debtVars, payoutVars, totalReferralAccrued, totalLiquidatorPaid,
             paused, traderWallet, sponsorWallet>>

-----------------------------------------------------------------------------

(* Mutants of AddLiquidity: the pool books the shares it mints as assets,  *)
(* and the deposit as shares.                                              *)
AssetsByShares(q, amount) ==
    LET minted == SharesForDeposit(amount, aum, lpTokenSupply)
    IN  /\ ~ paused
        /\ providerWallet[q] >= amount
        /\ minted > 0
        /\ providerWallet' = [providerWallet EXCEPT ![q] = @ - amount]
        /\ lpVault' = lpVault + amount
        /\ aum' = aum + minted
        /\ lpTokenSupply' = lpTokenSupply + minted
        /\ shares' = [shares EXCEPT ![q] = @ + minted]
        /\ UNCHANGED <<lpFrame, feeVault, request, highWaterMark, pendingWithdrawalShares>>

AddLiquidity(q, amount) ==
    LET minted == SharesForDeposit(amount, aum, lpTokenSupply)
    IN  /\ ~ paused
        /\ providerWallet[q] >= amount
        /\ minted > 0
        /\ providerWallet' = [providerWallet EXCEPT ![q] = @ - amount]
        /\ lpVault' = lpVault + amount
        /\ aum' = aum + amount
        /\ lpTokenSupply' = lpTokenSupply + minted
        /\ shares' = [shares EXCEPT ![q] = @ + minted]
        /\ UNCHANGED <<lpFrame, feeVault, request, highWaterMark, pendingWithdrawalShares>>

(* One request per provider; the shares stay in the provider's account. *)
RequestRemoveLiquidity(q, amount) ==
    /\ request[q] = NoRequest
    /\ shares[q] >= amount
    /\ request' = [request EXCEPT ![q] = [shares |-> amount, matured |-> FALSE]]
    /\ pendingWithdrawalShares' = pendingWithdrawalShares + amount
    /\ UNCHANGED <<vaultsVars, lpTokenSupply, shares, highWaterMark>>

(* The cooldown of an outstanding request passes. *)
CooldownElapses(q) ==
    /\ request[q] # NoRequest
    /\ ~ request[q].matured
    /\ request' = [request EXCEPT ![q].matured = TRUE]
    /\ UNCHANGED <<vaultsVars, lpTokenSupply, shares, highWaterMark, pendingWithdrawalShares>>

CancelRemoveLiquidity(q) ==
    /\ request[q] # NoRequest
    /\ request' = [request EXCEPT ![q] = NoRequest]
    /\ pendingWithdrawalShares' = SatSub(pendingWithdrawalShares, request[q].shares)
    /\ UNCHANGED <<vaultsVars, lpTokenSupply, shares, highWaterMark>>

(* An exit of n shares, priced at today's NAV: what they are worth, and the *)
(* two fees.  The exit fee is waived when nobody stays.                     *)
ExitGross(n) == UsdcForShares(n, aum, lpTokenSupply)

ExitPerformance(n) ==
    PerformanceFee(n, NavPerShare(aum, lpTokenSupply), highWaterMark, PerformanceBps)

ExitCharge(n) == IF n = lpTokenSupply THEN 0 ELSE ExitFee(ExitGross(n), ExitFeeBps)

ExitPayout(n) == ExitGross(n) - ExitPerformance(n) - ExitCharge(n)

(* What the instruction checks of the amounts. *)
Payable(n) ==
    /\ n <= lpTokenSupply
    /\ ExitPayout(n) >= 0
    /\ lpVault >= ExitPayout(n) + ExitPerformance(n)
    /\ aum >= ExitPayout(n) + ExitPerformance(n)

RemoveLiquidity(q) ==
    LET n       == request[q].shares
        perf    == ExitPerformance(n)
        payout  == ExitPayout(n)
        left    == aum - payout - perf
    IN  /\ request[q].matured
        /\ shares[q] >= n
        /\ Payable(n)
        /\ providerWallet' = [providerWallet EXCEPT ![q] = @ + payout]
        /\ lpVault' = lpVault - payout - perf
        /\ feeVault' = feeVault + perf
        /\ aum' = left
        /\ lpTokenSupply' = lpTokenSupply - n
        /\ shares' = [shares EXCEPT ![q] = @ - n]
        /\ pendingWithdrawalShares' = SatSub(pendingWithdrawalShares, n)
        /\ highWaterMark' = Greater(highWaterMark, NavPerShare(left, lpTokenSupply - n))
        /\ request' = [request EXCEPT ![q] = NoRequest]
        /\ UNCHANGED lpFrame

(* The LP token is transferable; the pool does not see the transfer. *)
TransferShares(q, to, amount) ==
    /\ q # to
    /\ shares[q] >= amount
    /\ shares' = [shares EXCEPT ![q] = @ - amount, ![to] = @ + amount]
    /\ UNCHANGED <<vaultsVars, lpTokenSupply, request, highWaterMark, pendingWithdrawalShares>>

LpNext ==
    \E q \in Providers :
        \/ \E amount \in LpDeposits : AddLiquidity(q, amount)
        \/ \E amount \in LpRequests : RequestRemoveLiquidity(q, amount)
        \/ CooldownElapses(q)
        \/ CancelRemoveLiquidity(q)
        \/ RemoveLiquidity(q)
        \/ \E to \in Providers, amount \in LpRequests : TransferShares(q, to, amount)
=============================================================================
