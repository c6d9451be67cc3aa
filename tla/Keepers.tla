------------------------------ MODULE Keepers ------------------------------
(***************************************************************************)
(* The permissionless keeper instructions of solfx-core - liquidation,     *)
(* auto-deleveraging and the funding crank - and the admin's and           *)
(* guardian's control of a market's status.                                *)
(***************************************************************************)
EXTENDS Trading

CONSTANTS
    MinLiquidatorReward,  \* MIN_LIQUIDATOR_REWARD
    MaxBorrowIndex,       \* bound of this model: how far cranks move the carry index
    MaxFundingIndex       \* bound of this model: how far cranks move a funding index

ASSUME KeepersAssumption ==
    /\ MinLiquidatorReward \in Nat
    /\ MaxBorrowIndex \in Nat
    /\ MaxFundingIndex \in Nat

-----------------------------------------------------------------------------

(* Mutant of Routed: the shares are taken whether or not they are there. *)
UncappedRouted(carry, split, left) ==
    [carry |-> carry, insurance |-> split.insurance, treasury |-> split.treasury]

(* What is left of a position after the liquidator's share goes to the     *)
(* carry, then to the penalty's other two shares, as far as it lasts.      *)
Routed(carry, split, left) ==
    LET carryFee == Lesser(carry, left)
        insFee   == Lesser(split.insurance, left - carryFee)
    IN  [carry |-> carryFee,
         insurance |-> insFee,
         treasury |-> Lesser(split.treasury, left - carryFee - insFee)]

(* What a liquidation decides before it moves anything: r is the position  *)
(* with its carry and funding settled, carry what the settlement took.     *)
Liquidation(r, carry, health) ==
    LET equity   == health.liquidationEquity
        full     == FeeAmount(health.notional, Params.liqFee * (RatePrecision \div Bps))
        penalty  == Lesser(full, Greater(equity, 0))
        split    == SplitLiquidationPenalty(penalty)
        credit   == Greater(equity - penalty, 0)
        givenUp  == r.collateral + carry - credit
        out      == Lesser(split.liquidator, givenUp)
        after    == givenUp - out
        fees     == Routed(carry, split, after)
        ceiling  == Lesser(MinLiquidatorReward, SplitLiquidationPenalty(full).liquidator)
        badDebt  == Greater(-equity, 0)
        draw     == Lesser(badDebt, insuranceBalance)
    IN  [credit |-> credit,
         givenUp |-> givenUp,
         out |-> out,
         carryFee |-> fees.carry,
         insuranceFee |-> fees.insurance,
         treasuryFee |-> fees.treasury,
         poolIn |-> after - fees.carry - fees.insurance - fees.treasury,
         reward |-> Lesser(SatSub(ceiling, out), insuranceBalance - draw),
         badDebt |-> badDebt,
         draw |-> draw]

(* Mutant of Uncovered: the insured part queues too. *)
UncoveredInFull(l) == l.badDebt

(* The bad debt that insurance did not cover queues for ADL. *)
Uncovered(l) == l.badDebt - l.draw

(* The carry splits like a trading fee; the penalty's shares do not. *)
LiquidationAlloc(l) ==
    LET carry == SplitFee(l.carryFee, FeeSplit)
    IN  [carry EXCEPT !.treasury = @ + l.treasuryFee, !.insurance = @ + l.insuranceFee]

(* Mutants of CloseOut: the notional is recomputed from the average entry  *)
(* price, and the owner's count is not lowered.                            *)
RecomputedCloseOut(p, r, m) ==
    /\ RemoveOpenInterest(m, r.direction, NotionalInQuote(r.size, r.entryPrice), r.size)
    /\ openCount' = [openCount EXCEPT ![m] = SatSub(@, 1)]
    /\ openPositions' = [openPositions EXCEPT ![Owner[p]] = SatSub(@, 1)]
    /\ pos' = [pos EXCEPT ![p] = NoPosition]

(* The position account is closed and leaves the book. *)
CloseOut(p, r, m) ==
    /\ RemoveOpenInterest(m, r.direction, r.entryNotional, r.size)
    /\ openCount' = [openCount EXCEPT ![m] = SatSub(@, 1)]
    /\ openPositions' = [openPositions EXCEPT ![Owner[p]] = SatSub(@, 1)]
    /\ pos' = [pos EXCEPT ![p] = NoPosition]

LiquidatePosition(p, quote) ==
    LET u      == Owner[p]
        m      == MarketOf[p]
        c      == AfterCarry(pos[p], m)
        carry  == CarryPaid(pos[p], m)
        r      == AfterFunding(c, m)
        l      == Liquidation(r, carry, Assess(r, m, quote))
        alloc  == LiquidationAlloc(l)
    IN  /\ IsOpen(p)
        /\ AllowsLiquidation(status[m])
        /\ CanExecute(m, r.size, Resolve(r.direction, "Close"), quote)
        /\ Underwater(r, m, quote)
        /\ l.givenUp >= 0
        /\ fundingBalance' = [fundingBalance EXCEPT ![m] = @ + FundingPaid(c, m)]
        /\ SettleWith(alloc, -l.poolIn, u \in Referred, l.out, l.reward, l.draw)
        /\ pendingAdl' = [pendingAdl EXCEPT ![m] = @ + Uncovered(l)]
        /\ totalBadDebt' = totalBadDebt + l.badDebt
        /\ CloseOut(p, r, m)
        /\ free' = [free EXCEPT ![u] = @ + l.credit]
        /\ UNCHANGED <<settleFrame, referralFeesGenerated, indexVars, status>>

(* Mutant of Socialised: the whole queued debt is withheld. *)
SocialisedInFull(m, profit) == pendingAdl[m]

(* The profit ADL withholds: up to the market's queued debt, never more    *)
(* than the profit itself.                                                 *)
Socialised(m, profit) == Lesser(pendingAdl[m], profit)

(* ADL closes a winner, withholding profit against the queued shortfall. *)
AutoDeleverage(p, quote) ==
    LET u          == Owner[p]
        m          == MarketOf[p]
        c          == AfterCarry(pos[p], m)
        carry      == CarryPaid(pos[p], m)
        r          == AfterFunding(c, m)
        profit     == Assess(r, m, quote).upnl
        socialised == Socialised(m, profit)
        paid       == profit - socialised
    IN  /\ IsOpen(p)
        /\ pendingAdl[m] > 0
        /\ AllowsLiquidation(status[m])
        /\ CanExecute(m, r.size, Resolve(r.direction, "Close"), quote)
        /\ profit > 0
        /\ fundingBalance' = [fundingBalance EXCEPT ![m] = @ + FundingPaid(c, m)]
        /\ Settle(SplitFee(carry, FeeSplit), paid, u \in Referred)
        /\ pendingAdl' = [pendingAdl EXCEPT ![m] = @ - socialised]
        /\ CloseOut(p, r, m)
        /\ free' = [free EXCEPT ![u] = @ + r.collateral + paid]
        /\ UNCHANGED <<settleFrame, totalBadDebt, referralFeesGenerated, indexVars, status>>

(* One period of carry and funding, while the indices are within bounds. *)
CrankFunding(m) ==
    LET rate   == FundingRate(baseOi[m]["Long"], baseOi[m]["Short"],
                              Params.fundingK, Params.fundingCap)
        update == FundingIndexUpdate(baseOi[m]["Long"], baseOi[m]["Short"], rate, 1, 1)
        next   == [d \in Directions |-> fundingIndex[m][d] + update[d]]
    IN  /\ status[m] # "Initialized"
        /\ borrowIndex' = [borrowIndex EXCEPT ![m] = AdvanceCarryIndex(@, Params.carryRate, 1, 1)]
        /\ fundingIndex' = [fundingIndex EXCEPT ![m] = next]
        /\ borrowIndex'[m] <= MaxBorrowIndex
        /\ \A d \in Directions : Abs(next[d]) <= MaxFundingIndex
        /\ UNCHANGED <<vaultsVars, pos, bookVars, fundingBalance, pendingAdl, status>>

-----------------------------------------------------------------------------
(* The admin's override; a delisted market stays delisted under it. *)
SetMarketStatus(m, new) ==
    /\ new \notin {"WeekendMode", "PreOpenWindow"}
    /\ status[m] # "Delisted"
    /\ status' = [status EXCEPT ![m] = new]
    /\ UNCHANGED <<vaultsVars, pos, bookVars, indexVars, fundingBalance, pendingAdl>>

(* The guardian's halt asks nothing of the market's status. *)
HaltMarket(m) ==
    /\ status' = [status EXCEPT ![m] = "Halted"]
    /\ UNCHANGED <<vaultsVars, pos, bookVars, indexVars, fundingBalance, pendingAdl>>

KeeperNext ==
    \/ \E p \in Positions, q \in Quotes : LiquidatePosition(p, q) \/ AutoDeleverage(p, q)
    \/ \E m \in Markets : CrankFunding(m) \/ HaltMarket(m)
    \/ \E m \in Markets, s \in MarketStatuses : SetMarketStatus(m, s)
=============================================================================
