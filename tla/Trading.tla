------------------------------ MODULE Trading ------------------------------
(***************************************************************************)
(* Positions and markets of solfx-core, and the instructions a trader      *)
(* signs: open, increase, reduce (a partial decrease, a full close, and a  *)
(* trigger order's fill all run the same code), add and remove margin.     *)
(*                                                                         *)
(* A quote is what the oracle's gates let through: a price and the spread  *)
(* its confidence adds.  The trader's slippage limit and minimum hold only *)
(* reject; here any quote may be met.  Quote currency is USD.              *)
(***************************************************************************)
EXTENDS Vaults

CONSTANTS
    NMarkets,          \* markets are numbered 1..NMarkets
    NPositions,        \* position accounts are numbered 1..NPositions
    Owner,             \* the user a position account belongs to
    MarketOf,          \* the market a position account belongs to
    Quotes,            \* [price, conf] the oracle may report
    Sizes,             \* base sizes orders are placed in
    Margins,           \* collateral amounts orders and adjustments use
    TierRates,         \* fee rates the volume schedule may grant
    MinNotional,       \* MIN_NOTIONAL_QUOTE
    Params,            \* a market's risk, fee and pricing parameters
    Caps,              \* the protocol's skew, utilisation and insurance controls
    MarketStatuses     \* the statuses the admin and the session crank use here

Markets == 1..NMarkets
Positions == 1..NPositions

(* MarketStatus and its three allow-lists. *)
MarketStatus == {"Initialized", "Active", "ReduceOnly", "Halted", "GapWindow",
                 "WeekendMode", "PreOpenWindow", "Delisted"}
AllowsOpen(s) == s \in {"Active", "WeekendMode"}
AllowsClose(s) == s \in {"Active", "ReduceOnly", "GapWindow", "WeekendMode",
                         "PreOpenWindow", "Delisted"}
AllowsLiquidation(s) == s # "Initialized"

ParamNames == {"imr", "mmr", "maxLeverage", "liqFee", "openFee", "closeFee",
               "baseSpread", "skewRate", "minSize", "maxSize", "maxOi",
               "carryRate", "fundingK", "fundingCap"}
CapNames == {"maxSkew", "maxUtilisation", "minInsuranceRatio", "insuranceTarget", "skewFloor"}

(* Market::validate_risk_params, called on creation and after every update. *)
ValidRiskParams(prm) ==
    /\ prm.maxLeverage > 0
    /\ prm.mmr > 0 /\ prm.mmr < prm.imr
    /\ prm.imr >= Bps \div prm.maxLeverage
    /\ prm.liqFee > 0 /\ prm.liqFee < prm.mmr
    /\ prm.minSize > 0 /\ prm.minSize <= prm.maxSize
    /\ prm.maxOi > 0

ASSUME BookAssumption ==
    /\ NMarkets \in Nat
    /\ NPositions \in Nat
    /\ Owner \in [Positions -> Users]
    /\ MarketOf \in [Positions -> Markets]
    /\ Sizes \subseteq Nat \ {0}
    /\ Margins \subseteq Nat \ {0}
    /\ TierRates \subseteq Nat
    /\ MinNotional \in Nat \ {0}
    /\ MarketStatuses \subseteq MarketStatus

ASSUME QuotesAssumption == \A q \in Quotes : q.price \in Nat /\ q.conf \in Nat

ASSUME ParamsAssumption ==
    /\ Params \in [ParamNames -> Nat]
    /\ Caps \in [CapNames -> Nat]
    /\ ValidRiskParams(Params)

VARIABLES
    pos,              \* the position accounts
    oi, baseOi,       \* open interest per side, in quote and in base units
    openCount,        \* Market::open_position_count
    openPositions,    \* UserAccount::open_positions
    borrowIndex,      \* Market::cum_borrow_index
    fundingIndex,     \* Market::cum_funding_long and cum_funding_short
    fundingBalance,   \* funding collected from payers and not yet paid out
    pendingAdl,       \* Market::pending_adl_debt
    status            \* Market::status

bookVars == <<oi, baseOi, openCount, openPositions>>
indexVars == <<borrowIndex, fundingIndex>>
tradingVars == <<pos, bookVars, indexVars, fundingBalance, pendingAdl, status>>

Position == [direction : Directions, size : Nat, collateral : Nat, entryPrice : Nat,
             entryNotional : Nat, fundingEntry : Int, borrowEntry : Nat]

(* A closed account is gone: its rent is refunded and its fields are zero. *)
NoPosition == [direction |-> "Long", size |-> 0, collateral |-> 0, entryPrice |-> 0,
               entryNotional |-> 0, fundingEntry |-> 0, borrowEntry |-> 0]

IsOpen(p) == pos[p].size > 0

TradingTypeOK ==
    /\ pos \in [Positions -> Position]
    /\ oi \in [Markets -> [Directions -> Nat]]
    /\ baseOi \in [Markets -> [Directions -> Nat]]
    /\ openCount \in [Markets -> Nat]
    /\ openPositions \in [Users -> Nat]
    /\ borrowIndex \in [Markets -> Nat]
    /\ fundingIndex \in [Markets -> [Directions -> Int]]
    /\ fundingBalance \in [Markets -> Nat]
    /\ pendingAdl \in [Markets -> Nat]
    /\ status \in [Markets -> MarketStatus]

TradingInit ==
    /\ pos = [p \in Positions |-> NoPosition]
    /\ oi = [m \in Markets |-> [d \in Directions |-> 0]]
    /\ baseOi = [m \in Markets |-> [d \in Directions |-> 0]]
    /\ openCount = [m \in Markets |-> 0]
    /\ openPositions = [u \in Users |-> 0]
    /\ borrowIndex = [m \in Markets |-> 0]
    /\ fundingIndex = [m \in Markets |-> [d \in Directions |-> 0]]
    /\ fundingBalance = [m \in Markets |-> 0]
    /\ pendingAdl = [m \in Markets |-> 0]
    /\ status = [m \in Markets |-> "Active"]

-----------------------------------------------------------------------------
(* Execution price: base spread, confidence and skew impact, all adverse. *)

TotalSpread(m, size, side, quote) ==
    LET signed == IF side = "Buy" THEN size ELSE -size
        skew   == SkewDelta(baseOi[m]["Long"], baseOi[m]["Short"], signed)
    IN  Params.baseSpread + quote.conf + SkewImpact(skew, Params.skewRate)

ExecPrice(m, size, side, quote) ==
    ExecutionPrice(quote.price, TotalSpread(m, size, side, quote), side)

CanExecute(m, size, side, quote) ==
    /\ TotalSpread(m, size, side, quote) <= MaxTotalSpread
    /\ ExecPrice(m, size, side, quote) > 0

(* Accrued costs and their settlement (risk.rs).  r is a position record. *)

CarryOwed(r, m) == AccruedCarry(r.entryNotional, borrowIndex[m], r.borrowEntry)
FundingOwed(r, m) == AccruedFunding(r.size, fundingIndex[m][r.direction], r.fundingEntry)

CarryPaid(r, m) == Lesser(CarryOwed(r, m), r.collateral)

AfterCarry(r, m) ==
    [r EXCEPT !.collateral = @ - CarryPaid(r, m), !.borrowEntry = borrowIndex[m]]

(* Mutant of FundingPaid: a receipt is not capped by what was collected. *)
UncappedFundingPaid(r, m) == Lesser(FundingOwed(r, m), r.collateral)

(* What a position pays in funding, at most its collateral; negative when  *)
(* it receives, at most what the market has collected.                     *)
FundingPaid(r, m) ==
    LET owed == FundingOwed(r, m)
    IN  IF owed > 0 THEN Lesser(owed, r.collateral)
                    ELSE -Lesser(-owed, fundingBalance[m])

(* Mutant of AfterFunding: the position is charged what it owes, not what  *)
(* it pays.                                                                *)
OwedAfterFunding(r, m) ==
    [r EXCEPT !.collateral = Greater(@ - FundingOwed(r, m), 0),
              !.fundingEntry = fundingIndex[m][r.direction]]

AfterFunding(r, m) ==
    [r EXCEPT !.collateral = @ - FundingPaid(r, m),
              !.fundingEntry = fundingIndex[m][r.direction]]

(* risk::assess: a position marked at the price it would close at. *)
Assess(r, m, quote) ==
    LET mark     == ExecPrice(m, r.size, Resolve(r.direction, "Close"), quote)
        notional == NotionalInQuote(r.size, mark)
        upnl     == UpnlInQuote(r.size, r.entryPrice, mark, r.direction)
        carry    == CarryOwed(r, m)
        funding  == FundingOwed(r, m)
        closeFee == FeeAmount(notional, Params.closeFee)
    IN  [notional |-> notional,
         upnl |-> upnl,
         equity |-> Equity(r.collateral, upnl, carry, funding, closeFee),
         liquidationEquity |-> Equity(r.collateral, upnl, carry, funding, 0),
         maintenance |-> MaintenanceMargin(notional, Params.mmr)]

Underwater(r, m, quote) ==
    LET health == Assess(r, m, quote)
    IN  IsLiquidatable(health.liquidationEquity, health.maintenance)

-----------------------------------------------------------------------------
(* Open interest and the caps on it. *)

AddOpenInterest(m, d, notional, size) ==
    /\ oi' = [oi EXCEPT ![m][d] = @ + notional]
    /\ baseOi' = [baseOi EXCEPT ![m][d] = @ + size]

(* Quote units saturate, base units must not underflow. *)
RemoveOpenInterest(m, d, notional, size) ==
    /\ baseOi[m][d] >= size
    /\ oi' = [oi EXCEPT ![m][d] = SatSub(@, notional)]
    /\ baseOi' = [baseOi EXCEPT ![m][d] = @ - size]

WithinOiCap(quoteOi, d) == quoteOi[d] <= Params.maxOi

(* The heavy side is closed to opens once the imbalance is both material   *)
(* against the pool and past the ratio.  quoteOi and base are one market's *)
(* counters after the trade.                                               *)
WithinSkewCap(quoteOi, base, d, assets) ==
    LET heavy == IF base["Long"] >= base["Short"] THEN "Long" ELSE "Short"
        total == base["Long"] + base["Short"]
        floor == MulDivFloor(assets, Caps.skewFloor, Bps)
    IN  /\ Caps.maxSkew > 0
        /\ d = heavy
        /\ total > 0
        /\ Abs(quoteOi["Long"] - quoteOi["Short"]) > floor
        => MulDivFloor(Abs(base["Long"] - base["Short"]), Bps, total) <= Caps.maxSkew

WithinUtilisation(quoteOi, assets) ==
    Caps.maxUtilisation > 0 =>
        /\ assets > 0
        /\ MulDivFloor(quoteOi["Long"] + quoteOi["Short"], Bps, assets) <= Caps.maxUtilisation

AboveInsuranceFloor(balance) ==
    Caps.minInsuranceRatio > 0 /\ Caps.insuranceTarget > 0 =>
        MulDivFloor(balance, Bps, Caps.insuranceTarget) >= Caps.minInsuranceRatio

MarginSuffices(notional, collateral) ==
    /\ collateral > 0
    /\ EffectiveLeverage(notional, collateral) <= Params.maxLeverage
    /\ collateral >= InitialMargin(notional, Params.imr)

(* Mutant of OpensAllowed: the pause is forgotten. *)
OpensWhilePaused(m) == AllowsOpen(status[m])

(* Opens and increases need the protocol running and the market open. *)
OpensAllowed(m) ==
    /\ ~ paused
    /\ AllowsOpen(status[m])

-----------------------------------------------------------------------------
OpenPosition(p, d, size, collateral, quote, tierRate) ==
    LET u        == Owner[p]
        m        == MarketOf[p]
        side     == Resolve(d, "Open")
        exec     == ExecPrice(m, size, side, quote)
        notional == NotionalInQuote(size, exec)
        fee      == FeeAmount(notional, Lesser(Params.openFee, tierRate))
        alloc    == SplitFee(fee, FeeSplit)
    IN  /\ ~ IsOpen(p)
        /\ OpensAllowed(m)
        /\ CanExecute(m, size, side, quote)
        /\ notional >= MinNotional
        /\ size \in Params.minSize..Params.maxSize
        /\ MarginSuffices(notional, collateral)
        /\ free[u] >= collateral + fee
        /\ free' = [free EXCEPT ![u] = @ - (collateral + fee)]
        /\ Settle(alloc, 0, u \in Referred)
        /\ AddOpenInterest(m, d, notional, size)
        /\ WithinOiCap(oi'[m], d)
        /\ WithinSkewCap(oi'[m], baseOi'[m], d, aum')
        /\ WithinUtilisation(oi'[m], aum')
        /\ AboveInsuranceFloor(insuranceBalance')
        /\ openCount' = [openCount EXCEPT ![m] = @ + 1]
        /\ openPositions' = [openPositions EXCEPT ![u] = @ + 1]
        /\ pos' = [pos EXCEPT ![p] =
              [direction |-> d, size |-> size, collateral |-> collateral,
               entryPrice |-> exec, entryNotional |-> notional,
               fundingEntry |-> fundingIndex[m][d], borrowEntry |-> borrowIndex[m]]]
        /\ RecordTrade(u, alloc)
        /\ UNCHANGED <<settleFrame, totalBadDebt, indexVars, fundingBalance, pendingAdl, status>>

(* Carry and funding are not settled first: the new size shares the old    *)
(* position's index snapshots.                                             *)
IncreasePosition(p, size, collateral, quote, tierRate) ==
    LET u        == Owner[p]
        m        == MarketOf[p]
        r        == pos[p]
        side     == Resolve(r.direction, "Open")
        exec     == ExecPrice(m, size, side, quote)
        added    == NotionalInQuote(size, exec)
        fee      == FeeAmount(added, Lesser(Params.openFee, tierRate))
        alloc    == SplitFee(fee, FeeSplit)
    IN  /\ IsOpen(p)
        /\ OpensAllowed(m)
        /\ CanExecute(m, size, side, quote)
        /\ added >= MinNotional
        /\ r.size + size <= Params.maxSize
        /\ MarginSuffices(r.entryNotional + added, r.collateral + collateral)
        /\ free[u] >= collateral + fee
        /\ free' = [free EXCEPT ![u] = @ - (collateral + fee)]
        /\ Settle(alloc, 0, u \in Referred)
        /\ AddOpenInterest(m, r.direction, added, size)
        /\ WithinOiCap(oi'[m], r.direction)
        /\ pos' = [pos EXCEPT ![p] =
              [r EXCEPT !.size = @ + size,
                        !.collateral = @ + collateral,
                        !.entryNotional = @ + added,
                        !.entryPrice =
                            WeightedEntryPrice(r.size, @, size, exec, r.direction)]]
        /\ RecordTrade(u, alloc)
        /\ UNCHANGED <<settleFrame, totalBadDebt, openCount, openPositions, indexVars,
                       fundingBalance, pendingAdl, status>>

(* The loss is capped at what the released margin covers; what lies beyond *)
(* is booked as bad debt.  Funding is left as it is.                       *)
Reduce(p, delta, quote, tierRate) ==
    LET u         == Owner[p]
        m         == MarketOf[p]
        r         == AfterCarry(pos[p], m)
        carry     == CarryPaid(pos[p], m)
        full      == delta = r.size
        side      == Resolve(r.direction, "Close")
        exec      == ExecPrice(m, delta, side, quote)
        pnl       == UpnlInQuote(delta, r.entryPrice, exec, r.direction)
        closeFee  == FeeAmount(NotionalInQuote(delta, exec), Lesser(Params.closeFee, tierRate))
        fee       == closeFee + carry
        released  == IF full THEN r.collateral ELSE MulDivFloor(r.collateral, delta, r.size)
        available == released + carry - fee
        equity    == available + pnl
        settled   == IF equity >= 0 THEN pnl ELSE -available
        closed    == IF full THEN r.entryNotional ELSE MulDivFloor(r.entryNotional, delta, r.size)
        alloc     == SplitFee(fee, FeeSplit)
    IN  /\ AllowsClose(status[m])
        /\ delta \in 1..r.size
        /\ CanExecute(m, delta, side, quote)
        /\ Settle(alloc, settled, u \in Referred)
        /\ free' = [free EXCEPT ![u] = @ + Greater(equity, 0)]
        /\ totalBadDebt' = totalBadDebt + Greater(-equity, 0)
        /\ RemoveOpenInterest(m, r.direction, closed, delta)
        /\ full \/ r.collateral > released
        /\ pos' = [pos EXCEPT ![p] =
              IF full THEN NoPosition
              ELSE [r EXCEPT !.size = @ - delta,
                             !.collateral = @ - released,
                             !.entryNotional = @ - closed]]
        /\ openCount' = [openCount EXCEPT ![m] = SatSub(@, IF full THEN 1 ELSE 0)]
        /\ openPositions' = [openPositions EXCEPT ![u] = SatSub(@, IF full THEN 1 ELSE 0)]
        /\ RecordTrade(u, alloc)
        /\ UNCHANGED <<settleFrame, indexVars, fundingBalance, pendingAdl, status>>

(* Allowed while paused and in every market status. *)
AddPositionCollateral(p, amount) ==
    LET u == Owner[p]
    IN  /\ IsOpen(p)
        /\ free[u] >= amount
        /\ free' = [free EXCEPT ![u] = @ - amount]
        /\ pos' = [pos EXCEPT ![p].collateral = @ + amount]
        /\ UNCHANGED <<tokenVars, mirrorVars, referralFeesGenerated, debtVars, settleFrame,
                       totalReferralAccrued, totalLiquidatorPaid, bookVars, indexVars,
                       fundingBalance, pendingAdl, status>>

(* Mutant of RemovePositionCollateral: the whole margin may go, unrealised *)
(* profit standing in for it.                                              *)
RemoveAllCollateral(p, amount, quote) ==
    LET m      == MarketOf[p]
        r      == pos[p]
        health == Assess(r, m, quote)
    IN  /\ IsOpen(p)
        /\ r.collateral >= amount
        /\ CanExecute(m, r.size, Resolve(r.direction, "Close"), quote)
        /\ ~ Underwater(r, m, quote)
        /\ health.equity - amount >= InitialMargin(health.notional, Params.imr)
        /\ free' = [free EXCEPT ![Owner[p]] = @ + amount]
        /\ pos' = [pos EXCEPT ![p].collateral = @ - amount]
        /\ UNCHANGED <<tokenVars, mirrorVars, referralFeesGenerated, debtVars, settleFrame,
                       totalReferralAccrued, totalLiquidatorPaid, bookVars, indexVars,
                       fundingBalance, pendingAdl, status>>

(* The position must still meet initial margin on its assessed equity. *)
RemovePositionCollateral(p, amount, quote) ==
    LET u      == Owner[p]
        m      == MarketOf[p]
        r      == pos[p]
        side   == Resolve(r.direction, "Close")
        health == Assess(r, m, quote)
    IN  /\ IsOpen(p)
        /\ r.collateral > amount
        /\ CanExecute(m, r.size, side, quote)
        /\ ~ Underwater(r, m, quote)
        /\ health.equity - amount >= InitialMargin(health.notional, Params.imr)
        /\ EffectiveLeverage(health.notional, r.collateral - amount) <= Params.maxLeverage
        /\ free' = [free EXCEPT ![u] = @ + amount]
        /\ pos' = [pos EXCEPT ![p].collateral = @ - amount]
        /\ UNCHANGED <<tokenVars, mirrorVars, referralFeesGenerated, debtVars, settleFrame,
                       totalReferralAccrued, totalLiquidatorPaid, bookVars, indexVars,
                       fundingBalance, pendingAdl, status>>

TraderNext ==
    \E p \in Positions :
        \/ \E d \in Directions, size \in Sizes, c \in Margins, q \in Quotes, t \in TierRates :
              OpenPosition(p, d, size, c, q, t)
        \/ \E size \in Sizes, c \in Margins \cup {0}, q \in Quotes, t \in TierRates :
              IncreasePosition(p, size, c, q, t)
        \/ \E delta \in 1..pos[p].size, q \in Quotes, t \in TierRates :
              Reduce(p, delta, q, t)
        \/ \E a \in Margins : AddPositionCollateral(p, a)
        \/ \E a \in Margins, q \in Quotes : RemovePositionCollateral(p, a, q)
=============================================================================
