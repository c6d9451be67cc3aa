------------------------------ MODULE SolfxMath ------------------------------
(***************************************************************************)
(* The pure arithmetic of crates/solfx-math: fees, margin, pricing, PnL,   *)
(* funding, carry and LP shares.  The scales of constants.rs (1e4 basis    *)
(* points, 1e9 rates, 1e12 notional) are constants here, so that the       *)
(* rounding the code does at the last unit shows up on small numbers.      *)
(* Amounts are integers without a width: an operation the code would       *)
(* refuse with MathOverflow is outside every bound used below.             *)
(***************************************************************************)
EXTENDS Integers

CONSTANTS
    Bps,              \* BPS_PRECISION
    RatePrecision,    \* RATE_PRECISION, of fee rates and of the two indices
    NotionalDivisor,  \* NOTIONAL_DIVISOR: base size times price over quote
    QuotePrecision,   \* QUOTE_PRECISION: one share at par
    LotScale,         \* LOT_SIZE_BASE * RATE_PRECISION
    MaxTotalSpread,   \* MAX_TOTAL_SPREAD_BPS
    LiquidatorBps,    \* the liquidator's 4_000 of a penalty
    PenaltyInsBps,    \* the insurance fund's 4_000 of a penalty
    MmrTiers,         \* MMR_TIERS: a set of [bound, value], bounds exclusive
    MmrTopTier        \* the multiplier above every bound

ASSUME ScalesAssumption ==
    /\ Bps \in Nat \ {0}
    /\ RatePrecision \in Nat \ {0}
    /\ NotionalDivisor \in Nat \ {0}
    /\ QuotePrecision \in Nat \ {0}
    /\ LotScale \in Nat \ {0}
    /\ MaxTotalSpread \in Nat

ASSUME PenaltySharesAssumption ==
    /\ LiquidatorBps \in Nat
    /\ PenaltyInsBps \in Nat
    /\ LiquidatorBps + PenaltyInsBps <= Bps

ASSUME TiersAssumption ==
    /\ MmrTopTier \in Nat
    /\ \A t \in MmrTiers : t.bound \in Nat /\ t.value \in Nat

Directions == {"Long", "Short"}
Sign(d) == IF d = "Long" THEN 1 ELSE -1

(* Rounding (fixed.rs).  \div floors toward minus infinity, as the signed  *)
(* variants of the code do.                                                *)
MulDivFloor(a, b, d) == (a * b) \div d
MulDivCeil(a, b, d) == -((-(a * b)) \div d)

Lesser(a, b) == IF a <= b THEN a ELSE b
Greater(a, b) == IF a >= b THEN a ELSE b
SatSub(a, b) == Greater(a - b, 0)
Abs(a) == IF a >= 0 THEN a ELSE -a

(* The value of the lowest tier whose exclusive bound lies above n. *)
TierValue(tiers, top, n) ==
    LET above == {t \in tiers : n < t.bound}
    IN  IF above = {} THEN top
        ELSE (CHOOSE t \in above : \A o \in above : t.bound <= o.bound).value

-----------------------------------------------------------------------------
(* Fees (fees.rs). *)

FeeAmount(notional, rate) ==
    IF notional = 0 \/ rate = 0 THEN 0
    ELSE Greater(MulDivCeil(notional, rate, RatePrecision), 1)

ValidSplit(s) == s.lp + s.treasury + s.insurance + s.referral = Bps

(* The treasury takes the remainder of the three floored shares. *)
SplitFee(fee, split) ==
    LET lp  == MulDivFloor(fee, split.lp, Bps)
        ins == MulDivFloor(fee, split.insurance, Bps)
        ref == MulDivFloor(fee, split.referral, Bps)
    IN  [lp |-> lp, insurance |-> ins, referral |-> ref,
         treasury |-> fee - lp - ins - ref]

AllocTotal(a) == a.lp + a.treasury + a.insurance + a.referral

SplitLiquidationPenalty(penalty) ==
    LET liq == MulDivFloor(penalty, LiquidatorBps, Bps)
        ins == MulDivFloor(penalty, PenaltyInsBps, Bps)
    IN  [liquidator |-> liq, insurance |-> ins, treasury |-> penalty - liq - ins]

-----------------------------------------------------------------------------
(* Margin (margin.rs). *)

MmrMultiplier(notional) == TierValue(MmrTiers, MmrTopTier, notional)

InitialMargin(notional, imr) == MulDivCeil(notional, imr, Bps)

MaintenanceMargin(notional, mmr) ==
    MulDivCeil(MulDivCeil(notional, mmr, Bps), MmrMultiplier(notional), Bps)

EffectiveLeverage(notional, collateral) == MulDivCeil(notional, 1, collateral)

Equity(collateral, upnl, carry, funding, closeFee) ==
    collateral + upnl - carry - funding - closeFee

IsLiquidatable(equity, maintenance) == equity < maintenance

-----------------------------------------------------------------------------
(* PnL (pnl.rs).  Costs round up, profits and losses round down. *)

NotionalInQuote(size, price) == MulDivCeil(size, price, NotionalDivisor)

UpnlInQuote(size, entry, exit, d) ==
    MulDivFloor(size, Sign(d) * (exit - entry), NotionalDivisor)

(* Mutant of WeightedEntryPrice: both sides round down. *)
FlooredEntryPrice(sizeA, priceA, sizeB, priceB, d) ==
    MulDivFloor(sizeA * priceA + sizeB * priceB, 1, sizeA + sizeB)

(* A long's average entry rounds up and a short's down: both are adverse. *)
WeightedEntryPrice(sizeA, priceA, sizeB, priceB, d) ==
    LET weighted == sizeA * priceA + sizeB * priceB
    IN  IF d = "Long" THEN MulDivCeil(weighted, 1, sizeA + sizeB)
                      ELSE MulDivFloor(weighted, 1, sizeA + sizeB)

-----------------------------------------------------------------------------
(* Pricing (pricing.rs). *)

(* A long buys to open and sells to close, a short the other way round. *)
Resolve(d, action) ==
    IF (d = "Long") = (action = "Open") THEN "Buy" ELSE "Sell"

(* By how much a signed trade worsens the imbalance of the book. *)
SkewDelta(baseLong, baseShort, signedSize) ==
    Abs(baseLong - baseShort + signedSize) - Abs(baseLong - baseShort)

(* Mutant of SkewImpact: balancing trades are rebated. *)
RebatedSkewImpact(delta, rate) == MulDivCeil(delta, rate, LotScale)

SkewImpact(delta, rate) ==
    IF delta <= 0 \/ rate = 0 THEN 0 ELSE MulDivCeil(delta, rate, LotScale)

ExecutionPrice(price, spread, side) ==
    LET adjustment == MulDivCeil(price, spread, Bps)
    IN  IF side = "Buy" THEN price + adjustment ELSE price - adjustment

-----------------------------------------------------------------------------
(* Funding and carry (funding.rs).  Time enters as a period's rate. *)

FundingRate(baseLong, baseShort, k, cap) ==
    IF baseLong <= 0 \/ baseShort <= 0 THEN 0
    ELSE LET ratio  == MulDivFloor(baseLong - baseShort, RatePrecision,
                                   baseLong + baseShort)
             scaled == MulDivFloor(ratio, k, RatePrecision)
         IN  Greater(-cap, Lesser(scaled, cap))

(* Mutant of FundingIndexUpdate: the receivers' index moves by the payers' *)
(* rate, whatever the sizes of the two sides.                              *)
UnscaledIndexUpdate(baseLong, baseShort, rate, elapsed, hour) ==
    IF elapsed <= 0 \/ rate = 0 \/ baseLong <= 0 \/ baseShort <= 0
    THEN [d \in Directions |-> 0]
    ELSE LET period == MulDivCeil(Abs(rate), elapsed, hour)
         IN  [d \in Directions |-> IF (d = "Long") = (rate > 0) THEN period ELSE -period]

(* What one period adds to the two indices: the payers' rate is rounded up *)
(* and scaled by the ratio of the two sides, rounded down, for the         *)
(* receivers.                                                              *)
FundingIndexUpdate(baseLong, baseShort, rate, elapsed, hour) ==
    IF elapsed <= 0 \/ rate = 0 \/ baseLong <= 0 \/ baseShort <= 0
    THEN [d \in Directions |-> 0]
    ELSE LET period == MulDivCeil(Abs(rate), elapsed, hour)
             payer  == IF rate > 0 THEN "Long" ELSE "Short"
             base   == [d \in Directions |-> IF d = "Long" THEN baseLong ELSE baseShort]
             other  == CHOOSE d \in Directions : d # payer
             share  == MulDivFloor(period, base[payer], base[other])
         IN  [d \in Directions |-> IF d = payer THEN period ELSE -share]

AccruedFunding(size, indexNow, indexAtEntry) ==
    MulDivFloor(size, indexNow - indexAtEntry, RatePrecision)

AccruedCarry(notional, indexNow, indexAtEntry) ==
    MulDivCeil(notional, indexNow - indexAtEntry, RatePrecision)

(* The carry index advances at the long side's rate and never runs back. *)
AdvanceCarryIndex(index, rate, elapsed, hour) ==
    IF elapsed <= 0 \/ rate <= 0 THEN index
    ELSE index + MulDivFloor(rate, elapsed, hour)

-----------------------------------------------------------------------------
(* LP shares (lp.rs). *)

NavPerShare(assets, supply) ==
    IF supply = 0 THEN QuotePrecision ELSE MulDivFloor(assets, QuotePrecision, supply)

(* Mutant of SharesForDeposit: the shares minted round up. *)
GenerousShares(amount, assets, supply) ==
    IF amount = 0 THEN 0
    ELSE IF supply = 0 \/ assets = 0 THEN amount
    ELSE MulDivCeil(amount, supply, assets)

SharesForDeposit(amount, assets, supply) ==
    IF amount = 0 THEN 0
    ELSE IF supply = 0 \/ assets = 0 THEN amount
    ELSE MulDivFloor(amount, supply, assets)

UsdcForShares(shares, assets, supply) ==
    IF shares = 0 \/ supply = 0 THEN 0 ELSE MulDivFloor(shares, assets, supply)

ExitFee(gross, bps) ==
    IF gross = 0 \/ bps = 0 THEN 0 ELSE MulDivCeil(gross, bps, Bps)

(* Mutant of PerformanceFee: the gain is left in NAV units. *)
UnscaledPerformanceFee(shares, navNow, highWaterMark, bps) ==
    IF shares = 0 \/ bps = 0 \/ navNow <= highWaterMark THEN 0
    ELSE MulDivCeil(shares * (navNow - highWaterMark), bps, Bps)

PerformanceFee(shares, navNow, highWaterMark, bps) ==
    IF shares = 0 \/ bps = 0 \/ navNow <= highWaterMark THEN 0
    ELSE MulDivCeil(MulDivFloor(shares, navNow - highWaterMark, QuotePrecision), bps, Bps)
=============================================================================
