------------------------------ MODULE Clearing ------------------------------
(***************************************************************************)
(* The solfx-core program: vaults, positions and markets, keepers and the  *)
(* LP pool together.  One instruction is one step, since a Solana          *)
(* transaction is atomic and rolls back whole; the interleavings are those *)
(* of the instructions that traders, providers, keepers and admins send.   *)
(***************************************************************************)
EXTENDS Keepers, LpPool, FiniteSets

vars == <<vaultsVars, tradingVars, lpVars>>

TypeOK ==
    /\ VaultsTypeOK
    /\ TradingTypeOK
    /\ LpTypeOK

Init ==
    /\ VaultsInit
    /\ TradingInit
    /\ LpInit

Next ==
    \/ VaultsNext /\ UNCHANGED <<tradingVars, lpVars>>
    \/ TraderNext /\ UNCHANGED lpVars
    \/ KeeperNext /\ UNCHANGED lpVars
    \/ LpNext /\ UNCHANGED tradingVars

Spec == Init /\ [][Next]_vars

-----------------------------------------------------------------------------
PositionCollateral == SumTo([p \in Positions |-> pos[p].collateral], NPositions)

OnSide(f, m, d) ==
    SumTo([p \in Positions |->
              IF MarketOf[p] = m /\ pos[p].direction = d THEN f[p] ELSE 0], NPositions)

(* I1: the collateral vault holds exactly what the program owes traders -   *)
(* their free collateral, their positions' margin, and the funding payers   *)
(* have paid and receivers not yet claimed - and Protocol's total says so.  *)
(* C-2 of the audit was a liquidation that broke it.                        *)
CollateralBacked ==
    /\ collateralVault = totalUserCollateral
    /\ totalUserCollateral = SumTo(free, NUsers) + PositionCollateral
                                + SumTo(fundingBalance, NMarkets)

(* I2 and I6: the pool's accounting is the LP vault's balance, and the     *)
(* insurance fund's is its vault's, through trades, liquidations, insurance *)
(* draws and exits.                                                         *)
PoolBacked == aum = lpVault
InsuranceBacked == insuranceBalance = insuranceVault
FundsBacked == PoolBacked /\ InsuranceBacked

(* I7: no instruction creates or destroys USDC. *)
Conservation ==
    collateralVault + lpVault + insuranceVault + feeVault
      + totalTreasuryWithdrawn + totalReferralClaimed + totalLiquidatorPaid
      + SumTo(traderWallet, NUsers) + SumTo(providerWallet, NProviders) + sponsorWallet
      = NUsers * TraderFunds + NProviders * ProviderFunds + SponsorFunds

(* I4: open interest, in quote and in base units, is the sum over the open  *)
(* positions of each side, whatever sequence of partial closes, top-ups and *)
(* liquidations got there; the saturating subtraction never saturates.      *)
OpenInterestExact ==
    \A m \in Markets, d \in Directions :
        /\ oi[m][d] = OnSide([p \in Positions |-> pos[p].entryNotional], m, d)
        /\ baseOi[m][d] = OnSide([p \in Positions |-> pos[p].size], m, d)

(* The counters of open positions, per market and per user, count them. *)
CountsExact ==
    /\ \A m \in Markets :
          openCount[m] = Cardinality({p \in Positions : MarketOf[p] = m /\ IsOpen(p)})
    /\ \A u \in Users :
          openPositions[u] = Cardinality({p \in Positions : Owner[p] = u /\ IsOpen(p)})

(* I5: no position holds size without collateral, and none holds collateral *)
(* or notional without size, after any mix of carry, partial closes and     *)
(* margin withdrawals.                                                      *)
NoUnsecuredPosition ==
    \A p \in Positions : /\ IsOpen(p) <=> pos[p].collateral > 0
                         /\ IsOpen(p) => pos[p].entryNotional > 0

(* What traders are recorded to have generated for referrers, and what the  *)
(* referral programme has been paid, never exceed what was earmarked.       *)
ReferralBounded ==
    /\ SumTo(referralFeesGenerated, NUsers) <= totalReferralAccrued
    /\ totalReferralClaimed <= totalReferralAccrued

(* Bad debt that insurance covered and bad debt queued for ADL were both    *)
(* booked as bad debt first.                                                *)
BadDebtAccounted == totalBadDebtCovered + SumTo(pendingAdl, NMarkets) <= totalBadDebt

(* While the oracle price stands still, traders together never take more    *)
(* out of the pool than they brought: every spread, skew impact, fee and    *)
(* rounding is against them, in any order of opens, top-ups and closes.     *)
(* For instances whose quotes agree on one price.                           *)
FlatMarketPaysNobody ==
    SumTo(traderWallet, NUsers) + SumTo(free, NUsers) + PositionCollateral
      + SumTo(fundingBalance, NMarkets) <= NUsers * TraderFunds

(* Once its cooldown has passed, an exit whose shares are still held can be *)
(* settled: no fee exceeds what the shares are worth, and the vault holds   *)
(* it, whatever the pool won, lost or paid out in the meantime.             *)
MaturedExitSettles ==
    \A q \in Providers :
        request[q].matured /\ shares[q] >= request[q].shares => Payable(request[q].shares)

-----------------------------------------------------------------------------
(* A liquidation never costs the pool: it gets the position's remains, its  *)
(* share of the carry and the insurance draw, and pays nothing.  Likewise a *)
(* liquidated trader is never paid more than the position held.             *)
LiquidationFavoursPool ==
    [][totalLiquidatorPaid' > totalLiquidatorPaid \/ totalBadDebtCovered' > totalBadDebtCovered
          => aum' >= aum /\ totalUserCollateral' <= totalUserCollateral]_vars

(* ADL takes profit and never principal: clearing queued debt leaves the    *)
(* owner with at least the margin net of the carry and funding it owed.     *)
AdlTakesOnlyProfit ==
    [][\A p \in Positions :
          LET m == MarketOf[p]
              c == AfterCarry(pos[p], m)
          IN  pendingAdl'[m] < pendingAdl[m] /\ IsOpen(p) /\ ~ IsOpen(p)'
                => free'[Owner[p]] >= free[Owner[p]] + AfterFunding(c, m).collateral]_vars

(* An LP deposit never dilutes the holders before it, and an exit never     *)
(* lowers the NAV of those who stay: NAV per share moves only with trading. *)
LpFlowsNeverDilute ==
    [][lpTokenSupply' # lpTokenSupply /\ lpTokenSupply > 0
          => aum' * lpTokenSupply >= aum * lpTokenSupply']_vars

(* While paused, or while its market does not allow opens, no side of the   *)
(* book grows, through any instruction.                                     *)
NoNewRiskWhenClosed ==
    [][\A m \in Markets, d \in Directions :
          paused \/ ~ AllowsOpen(status[m]) => baseOi'[m][d] <= baseOi[m][d]]_vars

-----------------------------------------------------------------------------
(* What market.rs:120-122 says of the program, and the program does not do. *)

(* allows_liquidation: an underwater position must remain liquidatable.     *)
(* Once its costs are settled, nothing the liquidation computes may refuse. *)
UnderwaterIsLiquidatable ==
    \A p \in Positions, q \in Quotes :
        LET m == MarketOf[p]
            c == AfterCarry(pos[p], m)
            r == AfterFunding(c, m)
        IN  /\ IsOpen(p)
            /\ CanExecute(m, r.size, Resolve(r.direction, "Close"), q)
            /\ Underwater(r, m, q)
            => Liquidation(r, CarryPaid(pos[p], m), Assess(r, m, q)).givenUp >= 0
=============================================================================
