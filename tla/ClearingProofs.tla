--------------------------- MODULE ClearingProofs ---------------------------
(***************************************************************************)
(* Type correctness of the clearing house and the agreement of its         *)
(* accounting with its vaults, for every value of the constants.           *)
(*                                                                         *)
(* TypeOK is not inductive alone.  A carry charge is the growth of the     *)
(* market's index since the position's snapshot; were a snapshot ahead of  *)
(* the index the charge would be negative, and so would be the fee that    *)
(* the close splits.  The invariant adds that no snapshot is ahead, and    *)
(* that an account without size is empty: an open finds no margin in it.   *)
(***************************************************************************)
EXTENDS Clearing, SolfxMathProofs

(* A position account is empty, or its size is secured by margin. *)
Secured(r) == r = NoPosition \/ (r.size > 0 /\ r.collateral > 0 /\ r.entryNotional > 0)

BookSound ==
    \A p \in Positions : /\ pos[p].borrowEntry <= borrowIndex[MarketOf[p]]
                         /\ Secured(pos[p])

(* The accounting mirrors the three vaults that carry it. *)
Mirrored ==
    /\ PoolBacked
    /\ InsuranceBacked
    /\ collateralVault = totalUserCollateral

IInv ==
    /\ TypeOK
    /\ BookSound
    /\ Mirrored

-----------------------------------------------------------------------------
LEMMA InitIInv == Init => IInv
<1> SUFFICES ASSUME Init PROVE IInv
  OBVIOUS
<1>1. VaultsTypeOK
  BY PartiesAssumption DEF Init, VaultsInit, VaultsTypeOK
<1>2. TradingTypeOK
  <2>1. NoPosition \in Position
    BY DEF NoPosition, Position, Directions
  <2> QED
    BY <2>1 DEF Init, TradingInit, TradingTypeOK, MarketStatus
<1>3. LpTypeOK
  BY ScalesAssumption DEF Init, LpInit, LpTypeOK, NoRequest
<1>4. BookSound
  BY BookAssumption DEF Init, TradingInit, BookSound, NoPosition, Secured
<1>5. Mirrored
  BY DEF Init, VaultsInit, Mirrored, PoolBacked, InsuranceBacked
<1> QED
  BY <1>1, <1>2, <1>3, <1>4, <1>5 DEF IInv, TypeOK

(* An instruction that leaves the book alone keeps the book's part of the  *)
(* invariant, and one that leaves the LP accounts alone keeps theirs.      *)
LEMMA BookFrame ==
  ASSUME TradingTypeOK, BookSound, UNCHANGED tradingVars
  PROVE  TradingTypeOK' /\ BookSound'
  BY DEF TradingTypeOK, BookSound, tradingVars, bookVars, indexVars

LEMMA LpFrame ==
  ASSUME LpTypeOK, UNCHANGED lpVars
  PROVE  LpTypeOK'
  BY DEF LpTypeOK, lpVars

LEMMA VaultsFrame ==
  ASSUME VaultsTypeOK, Mirrored, UNCHANGED vaultsVars
  PROVE  VaultsTypeOK' /\ Mirrored'
  BY DEF VaultsTypeOK, Mirrored, PoolBacked, InsuranceBacked, vaultsVars, tokenVars,
         mirrorVars, userVars, debtVars, walletVars, payoutVars

-----------------------------------------------------------------------------
(* The instructions of Vaults. *)

LEMMA VaultsStep ==
  ASSUME VaultsTypeOK, Mirrored, VaultsNext
  PROVE  VaultsTypeOK' /\ Mirrored'
<1> USE DEF VaultsTypeOK, Mirrored, PoolBacked, InsuranceBacked, tokenVars, mirrorVars,
            userVars, debtVars, walletVars, payoutVars
<1>1. ASSUME NEW u \in Users, NEW amount \in CollateralAmounts, DepositCollateral(u, amount)
      PROVE  VaultsTypeOK' /\ Mirrored'
  <2>1. amount \in Nat
    BY AmountsAssumption
  <2> QED
    BY <1>1, <2>1 DEF DepositCollateral
<1>2. ASSUME NEW u \in Users, NEW amount \in CollateralAmounts, WithdrawCollateral(u, amount)
      PROVE  VaultsTypeOK' /\ Mirrored'
  <2>1. amount \in Nat
    BY AmountsAssumption
  <2> QED
    BY <1>2, <2>1 DEF WithdrawCollateral
<1>3. ASSUME NEW amount \in SponsorAmounts, DepositInsuranceFund(amount)
      PROVE  VaultsTypeOK' /\ Mirrored'
  <2>1. amount \in Nat
    BY AmountsAssumption
  <2> QED
    BY <1>3, <2>1 DEF DepositInsuranceFund
<1>4. ASSUME NEW amount \in PayoutAmounts, WithdrawTreasuryFees(amount)
      PROVE  VaultsTypeOK' /\ Mirrored'
  <2>1. amount \in Nat
    BY AmountsAssumption
  <2> QED
    BY <1>4, <2>1 DEF WithdrawTreasuryFees
<1>5. ASSUME NEW amount \in PayoutAmounts, PayReferral(amount)
      PROVE  VaultsTypeOK' /\ Mirrored'
  <2>1. amount \in Nat
    BY AmountsAssumption
  <2> QED
    BY <1>5, <2>1 DEF PayReferral
<1>6. CASE EmergencyPause
  BY <1>6 DEF EmergencyPause
<1>7. CASE Unpause
  BY <1>7 DEF Unpause
<1> QED
  BY <1>1, <1>2, <1>3, <1>4, <1>5, <1>6, <1>7 DEF VaultsNext

-----------------------------------------------------------------------------
(* settle moves the same amounts in the vaults and in the accounting, and  *)
(* its guards keep every one of them from going negative.                  *)
LEMMA SettleSound ==
  ASSUME VaultsTypeOK, Mirrored,
         NEW alloc \in Allocation, NEW pnl \in Int, NEW referred,
         NEW out \in Nat, NEW reward \in Nat, NEW draw \in Nat,
         SettleWith(alloc, pnl, referred, out, reward, draw)
  PROVE  /\ collateralVault' \in Nat /\ lpVault' \in Nat
         /\ insuranceVault' \in Nat /\ feeVault' \in Nat
         /\ totalUserCollateral' \in Nat /\ aum' \in Nat /\ insuranceBalance' \in Nat
         /\ totalReferralAccrued' \in Nat /\ totalLiquidatorPaid' \in Nat
         /\ totalBadDebtCovered' \in Nat
         /\ Mirrored'
<1>1. /\ alloc.lp \in Nat /\ alloc.treasury \in Nat
      /\ alloc.insurance \in Nat /\ alloc.referral \in Nat
  BY DEF Allocation
<1>2. AllocTotal(alloc) = alloc.lp + alloc.treasury + alloc.insurance + alloc.referral
  BY DEF AllocTotal
<1> QED
  BY <1>1, <1>2 DEF SettleWith, VaultsTypeOK, Mirrored, PoolBacked, InsuranceBacked

LEMMA RecordTradeNat ==
  ASSUME VaultsTypeOK, NEW u \in Users, NEW alloc \in Allocation, RecordTrade(u, alloc)
  PROVE  referralFeesGenerated' \in [Users -> Nat]
<1>1. alloc.referral \in Nat
  BY DEF Allocation
<1> QED
  BY <1>1 DEF RecordTrade, VaultsTypeOK

(* The vaults after a settled trade of user u, whose free collateral moves *)
(* by its own amount.                                                      *)
LEMMA TradeVaults ==
  ASSUME VaultsTypeOK, Mirrored,
         NEW alloc \in Allocation, NEW pnl \in Int, NEW referred,
         NEW out \in Nat, NEW reward \in Nat, NEW draw \in Nat,
         SettleWith(alloc, pnl, referred, out, reward, draw),
         UNCHANGED settleFrame,
         free' \in [Users -> Nat], referralFeesGenerated' \in [Users -> Nat],
         totalBadDebt' \in Nat
  PROVE  VaultsTypeOK' /\ Mirrored'
<1>1. /\ collateralVault' \in Nat /\ lpVault' \in Nat
      /\ insuranceVault' \in Nat /\ feeVault' \in Nat
      /\ totalUserCollateral' \in Nat /\ aum' \in Nat /\ insuranceBalance' \in Nat
      /\ totalReferralAccrued' \in Nat /\ totalLiquidatorPaid' \in Nat
      /\ totalBadDebtCovered' \in Nat
      /\ Mirrored'
  BY SettleSound
<1> QED
  BY <1>1 DEF VaultsTypeOK, settleFrame, walletVars, payoutVars

-----------------------------------------------------------------------------
(* Prices and costs of a position. *)

LEMMA ExecPriceInt ==
  ASSUME TradingTypeOK, NEW m \in Markets, NEW size \in Nat, NEW side \in {"Buy", "Sell"},
         NEW quote \in Quotes
  PROVE  ExecPrice(m, size, side, quote) \in Int
<1> DEFINE signed == IF side = "Buy" THEN size ELSE -size
           skew   == SkewDelta(baseOi[m]["Long"], baseOi[m]["Short"], signed)
           impact == SkewImpact(skew, Params.skewRate)
           spread == TotalSpread(m, size, side, quote)
<1>1. /\ Params.baseSpread \in Nat /\ Params.skewRate \in Nat
      /\ quote.price \in Nat /\ quote.conf \in Nat
      /\ baseOi[m]["Long"] \in Nat /\ baseOi[m]["Short"] \in Nat
  BY ParamsAssumption, QuotesAssumption DEF ParamNames, TradingTypeOK, Directions
<1>2. skew \in Int
  BY <1>1 DEF SkewDelta, Abs
<1>3. impact \in Int
  <2> DEFINE rate == Params.skewRate
  <2>0. rate \in Int /\ LotScale \in Nat \ {0}
    BY <1>1, ScalesAssumption
  <2> HIDE DEF skew, rate
  <2>1. MulDivCeil(skew, rate, LotScale) \in Int
    BY <1>2, <2>0, CeilInt
  <2> USE DEF rate
  <2> QED
    BY <2>1, <1>2 DEF SkewImpact
<1>4. spread = Params.baseSpread + quote.conf + impact
  BY DEF TotalSpread
<1>5. spread \in Int
  <2> HIDE DEF impact, spread
  <2> QED
    BY <1>1, <1>3, <1>4
<1>6. MulDivCeil(quote.price, spread, Bps) \in Int
  <2> HIDE DEF spread
  <2>1. quote.price \in Int /\ Bps \in Nat \ {0}
    BY <1>1, ScalesAssumption
  <2> QED
    BY <2>1, <1>5, CeilInt
<1>7. ExecPrice(m, size, side, quote) = ExecutionPrice(quote.price, spread, side)
  BY DEF ExecPrice
<1> HIDE DEF spread
<1> QED
  BY <1>1, <1>6, <1>7 DEF ExecutionPrice

(* A price an order can execute at is positive. *)
LEMMA ExecPriceNat ==
  ASSUME TradingTypeOK, NEW m \in Markets, NEW size \in Nat, NEW side \in {"Buy", "Sell"},
         NEW quote \in Quotes, CanExecute(m, size, side, quote)
  PROVE  ExecPrice(m, size, side, quote) \in Nat \ {0}
  BY ExecPriceInt DEF CanExecute

LEMMA ResolveSide ==
  ASSUME NEW d, NEW action
  PROVE  Resolve(d, action) \in {"Buy", "Sell"}
  BY DEF Resolve

LEMMA NotionalNat ==
  ASSUME NEW size \in Nat, NEW price \in Nat
  PROVE  NotionalInQuote(size, price) \in Nat
  BY CeilNat, ScalesAssumption DEF NotionalInQuote

LEMMA UpnlInt ==
  ASSUME NEW size \in Nat, NEW entry \in Nat, NEW exit \in Nat, NEW d \in Directions
  PROVE  UpnlInQuote(size, entry, exit, d) \in Int
<1>1. Sign(d) * (exit - entry) \in Int
  BY DEF Sign
<1> QED
  BY <1>1, FloorTyped, ScalesAssumption DEF UpnlInQuote

(* Settling the carry takes at most the collateral and leaves a position   *)
(* whose snapshot is the market's index.                                   *)
LEMMA CarrySettles ==
  ASSUME TradingTypeOK, NEW m \in Markets, NEW r \in Position,
         r.borrowEntry <= borrowIndex[m]
  PROVE  /\ CarryPaid(r, m) \in 0..r.collateral
         /\ AfterCarry(r, m) \in Position
         /\ AfterCarry(r, m).collateral = r.collateral - CarryPaid(r, m)
         /\ AfterCarry(r, m).borrowEntry = borrowIndex[m]
         /\ AfterCarry(r, m).size = r.size
         /\ AfterCarry(r, m).direction = r.direction
         /\ AfterCarry(r, m).entryNotional = r.entryNotional
         /\ AfterCarry(r, m).entryPrice = r.entryPrice
<1>1. /\ r.collateral \in Nat /\ r.entryNotional \in Nat /\ r.borrowEntry \in Nat
      /\ borrowIndex[m] \in Nat
  BY DEF Position, TradingTypeOK
<1>2. borrowIndex[m] - r.borrowEntry \in Nat
  BY <1>1
<1>3. CarryOwed(r, m) \in Nat
  BY <1>1, <1>2, CeilNat, ScalesAssumption DEF CarryOwed, AccruedCarry
<1>4. CarryPaid(r, m) \in 0..r.collateral
  BY <1>1, <1>3 DEF CarryPaid, Lesser
<1>5. r.collateral - CarryPaid(r, m) \in Nat
  BY <1>1, <1>4
<1> QED
  BY <1>1, <1>4, <1>5 DEF AfterCarry, Position

LEMMA FundingOwedInt ==
  ASSUME TradingTypeOK, NEW m \in Markets, NEW r \in Position
  PROVE  FundingOwed(r, m) \in Int
<1> DEFINE growth == fundingIndex[m][r.direction] - r.fundingEntry
<1>1. growth \in Int /\ r.size \in Int /\ RatePrecision \in Nat \ {0}
  BY ScalesAssumption DEF TradingTypeOK, Position
<1>2. FundingOwed(r, m) = MulDivFloor(r.size, growth, RatePrecision)
  BY DEF FundingOwed, AccruedFunding
<1> HIDE DEF growth
<1> QED
  BY <1>1, <1>2, FloorTyped

(* Settling funding takes at most the collateral, and pays out at most     *)
(* what the market has collected.                                          *)
LEMMA FundingSettles ==
  ASSUME TradingTypeOK, NEW m \in Markets, NEW r \in Position
  PROVE  /\ FundingPaid(r, m) \in Int
         /\ FundingPaid(r, m) <= r.collateral
         /\ fundingBalance[m] + FundingPaid(r, m) \in Nat
         /\ AfterFunding(r, m) \in Position
         /\ AfterFunding(r, m).collateral = r.collateral - FundingPaid(r, m)
         /\ AfterFunding(r, m).borrowEntry = r.borrowEntry
         /\ AfterFunding(r, m).size = r.size
         /\ AfterFunding(r, m).direction = r.direction
         /\ AfterFunding(r, m).entryNotional = r.entryNotional
         /\ AfterFunding(r, m).entryPrice = r.entryPrice
<1>1. /\ r.collateral \in Nat /\ r.size \in Nat /\ r.fundingEntry \in Int
      /\ r.direction \in Directions
      /\ fundingBalance[m] \in Nat
  BY DEF Position, TradingTypeOK
<1>2. fundingIndex[m][r.direction] \in Int
  BY <1>1 DEF TradingTypeOK
<1>3. FundingOwed(r, m) \in Int
  BY FundingOwedInt
<1>4. /\ FundingPaid(r, m) \in Int
      /\ FundingPaid(r, m) <= r.collateral
      /\ -FundingPaid(r, m) <= fundingBalance[m]
  BY <1>1, <1>3 DEF FundingPaid, Lesser
<1>5. r.collateral - FundingPaid(r, m) \in Nat
  BY <1>1, <1>4
<1>6. fundingBalance[m] + FundingPaid(r, m) \in Nat
  BY <1>1, <1>4
<1> QED
  BY <1>1, <1>2, <1>4, <1>5, <1>6 DEF AfterFunding, Position

LEMMA AssessInt ==
  ASSUME TradingTypeOK, NEW m \in Markets, NEW r \in Position, NEW quote \in Quotes,
         CanExecute(m, r.size, Resolve(r.direction, "Close"), quote)
  PROVE  /\ Assess(r, m, quote).notional \in Nat
         /\ Assess(r, m, quote).upnl \in Int
         /\ Assess(r, m, quote).liquidationEquity \in Int
<1> DEFINE mark == ExecPrice(m, r.size, Resolve(r.direction, "Close"), quote)
<1>1. /\ r.collateral \in Nat /\ r.size \in Nat /\ r.fundingEntry \in Int
      /\ r.direction \in Directions /\ r.entryPrice \in Nat
      /\ r.entryNotional \in Nat /\ r.borrowEntry \in Nat /\ borrowIndex[m] \in Nat
  BY DEF Position, TradingTypeOK
<1>2. mark \in Nat
  BY <1>1, ExecPriceNat, ResolveSide
<1>3. NotionalInQuote(r.size, mark) \in Nat
  BY <1>1, <1>2, NotionalNat
<1>4. UpnlInQuote(r.size, r.entryPrice, mark, r.direction) \in Int
  BY <1>1, <1>2, UpnlInt
<1>5. CarryOwed(r, m) \in Int
  <2> DEFINE growth == borrowIndex[m] - r.borrowEntry
  <2>1. growth \in Int /\ r.entryNotional \in Int /\ RatePrecision \in Nat \ {0}
    BY <1>1, ScalesAssumption
  <2>2. CarryOwed(r, m) = MulDivCeil(r.entryNotional, growth, RatePrecision)
    BY DEF CarryOwed, AccruedCarry
  <2> HIDE DEF growth
  <2> QED
    BY <2>1, <2>2, CeilInt
<1>6. FundingOwed(r, m) \in Int
  BY FundingOwedInt
<1> HIDE DEF mark
<1>7. /\ Assess(r, m, quote).notional = NotionalInQuote(r.size, mark)
      /\ Assess(r, m, quote).upnl = UpnlInQuote(r.size, r.entryPrice, mark, r.direction)
      /\ Assess(r, m, quote).liquidationEquity =
            r.collateral + UpnlInQuote(r.size, r.entryPrice, mark, r.direction)
              - CarryOwed(r, m) - FundingOwed(r, m) - 0
  BY DEF Assess, mark, Equity
<1> QED
  BY <1>1, <1>3, <1>4, <1>5, <1>6, <1>7

-----------------------------------------------------------------------------
(* Open interest and the position accounts. *)

LEMMA AddOpenInterestTyped ==
  ASSUME TradingTypeOK, NEW m \in Markets, NEW d \in Directions,
         NEW notional \in Nat, NEW size \in Nat, AddOpenInterest(m, d, notional, size)
  PROVE  /\ oi' \in [Markets -> [Directions -> Nat]]
         /\ baseOi' \in [Markets -> [Directions -> Nat]]
<1>1. oi[m][d] + notional \in Nat /\ baseOi[m][d] + size \in Nat
  BY DEF TradingTypeOK
<1> QED
  BY <1>1 DEF AddOpenInterest, TradingTypeOK

LEMMA RemoveOpenInterestTyped ==
  ASSUME TradingTypeOK, NEW m \in Markets, NEW d \in Directions,
         NEW notional \in Nat, NEW size \in Nat, RemoveOpenInterest(m, d, notional, size)
  PROVE  /\ oi' \in [Markets -> [Directions -> Nat]]
         /\ baseOi' \in [Markets -> [Directions -> Nat]]
<1>1. SatSub(oi[m][d], notional) \in Nat /\ baseOi[m][d] - size \in Nat
  BY DEF RemoveOpenInterest, TradingTypeOK, SatSub, Greater
<1> QED
  BY <1>1 DEF RemoveOpenInterest, TradingTypeOK

LEMMA PositionStored ==
  ASSUME TradingTypeOK, BookSound, NEW p \in Positions, NEW v \in Position,
         v.borrowEntry <= borrowIndex[MarketOf[p]], Secured(v),
         pos' = [pos EXCEPT ![p] = v], borrowIndex' = borrowIndex
  PROVE  pos' \in [Positions -> Position] /\ BookSound'
  BY DEF TradingTypeOK, BookSound

(* Where a position is and what it holds. *)
LEMMA PositionTyped ==
  ASSUME TradingTypeOK, BookSound, NEW p \in Positions
  PROVE  /\ pos[p] \in Position
         /\ Owner[p] \in Users
         /\ MarketOf[p] \in Markets
         /\ borrowIndex[MarketOf[p]] \in Nat
         /\ pos[p].borrowEntry <= borrowIndex[MarketOf[p]]
         /\ Secured(pos[p])
  BY BookAssumption DEF TradingTypeOK, BookSound

LEMMA EmptyPosition ==
  /\ NoPosition \in Position /\ NoPosition.borrowEntry = 0
  /\ NoPosition.size = 0 /\ NoPosition.collateral = 0 /\ NoPosition.entryNotional = 0
  /\ Secured(NoPosition)
  BY DEF NoPosition, Position, Directions, Secured

(* A position resized, with what else moves with it. *)
Resized(r, size, collateral, notional, entry) ==
    [r EXCEPT !.size = size, !.collateral = collateral,
              !.entryNotional = notional, !.entryPrice = entry]

LEMMA ResizedPosition ==
  ASSUME NEW r \in Position, NEW size \in Nat, NEW collateral \in Nat,
         NEW notional \in Nat, NEW entry \in Nat
  PROVE  Resized(r, size, collateral, notional, entry) \in Position
<1> DEFINE v == Resized(r, size, collateral, notional, entry)
<1>1. v = [r EXCEPT !.size = size, !.collateral = collateral,
                    !.entryNotional = notional, !.entryPrice = entry]
  BY DEF Resized
<1> HIDE DEF v
<1>2. v = [direction |-> r.direction, size |-> size, collateral |-> collateral,
           entryPrice |-> entry, entryNotional |-> notional,
           fundingEntry |-> r.fundingEntry, borrowEntry |-> r.borrowEntry]
  BY <1>1 DEF Position
<1>3. v \in Position
  BY <1>2 DEF Position
<1> QED
  BY <1>3 DEF v

LEMMA ResizedFields ==
  ASSUME NEW r \in Position, NEW size, NEW collateral, NEW notional, NEW entry
  PROVE  LET v == Resized(r, size, collateral, notional, entry)
         IN  /\ v.borrowEntry = r.borrowEntry
             /\ v.size = size
             /\ v.collateral = collateral
             /\ v.entryNotional = notional
  BY DEF Resized, Position

(* The shortfall an instruction queues for ADL, or takes off the queue: no *)
(* more than it books as bad debt beyond what it draws from insurance.     *)
Queues(m, draw, debt) ==
    \E queued \in Int :
        /\ pendingAdl' = [pendingAdl EXCEPT ![m] = @ + queued]
        /\ pendingAdl[m] + queued \in Nat
        /\ queued + draw <= debt

(* What a user is recorded to have generated for a referrer. *)
Earns(u, alloc) ==
    \E earned \in Nat :
        /\ earned <= IF u \in Referred THEN alloc.referral ELSE 0
        /\ referralFeesGenerated' = [referralFeesGenerated EXCEPT ![u] = @ + earned]

(* What every trade is: it stores a position, leaves a book, settles a fee *)
(* and a profit with the vaults, credits or charges the owner and moves    *)
(* the market's funding balance, and what the trader's money gains or      *)
(* loses on the one side is what the collateral vault does on the other.   *)
TradeShape(p, v, alloc, pnl, out, reward, draw, debt, freed, paid) ==
    /\ pos' = [pos EXCEPT ![p] = v]
    /\ v.borrowEntry <= borrowIndex[MarketOf[p]]
    /\ Secured(v)
    /\ oi' \in [Markets -> [Directions -> Nat]]
    /\ baseOi' \in [Markets -> [Directions -> Nat]]
    /\ openCount' \in [Markets -> Nat]
    /\ openPositions' \in [Users -> Nat]
    /\ fundingBalance' = [fundingBalance EXCEPT ![MarketOf[p]] = @ + paid]
    /\ fundingBalance[MarketOf[p]] + paid \in Nat
    /\ pendingAdl' \in [Markets -> Nat]
    /\ Queues(MarketOf[p], draw, debt)
    /\ free' = [free EXCEPT ![Owner[p]] = @ + freed]
    /\ free[Owner[p]] + freed \in Nat
    /\ referralFeesGenerated' \in [Users -> Nat]
    /\ Earns(Owner[p], alloc)
    /\ totalBadDebt' = totalBadDebt + debt
    /\ SettleWith(alloc, pnl, Owner[p] \in Referred, out, reward, draw)
    /\ freed + paid + v.collateral - pos[p].collateral = pnl - AllocTotal(alloc) - out
    /\ UNCHANGED <<settleFrame, indexVars, status>>

IsTrade(p) ==
    \E v \in Position, alloc \in Allocation, pnl \in Int, out \in Nat, reward \in Nat,
       draw \in Nat, debt \in Nat, freed \in Int, paid \in Int :
        TradeShape(p, v, alloc, pnl, out, reward, draw, debt, freed, paid)

LEMMA TradeStep ==
  ASSUME VaultsTypeOK, TradingTypeOK, BookSound, Mirrored,
         NEW p \in Positions, IsTrade(p)
  PROVE  VaultsTypeOK' /\ TradingTypeOK' /\ BookSound' /\ Mirrored'
<1>1. PICK v \in Position, alloc \in Allocation, pnl \in Int, out \in Nat, reward \in Nat,
           draw \in Nat, debt \in Nat, freed \in Int, paid \in Int :
        TradeShape(p, v, alloc, pnl, out, reward, draw, debt, freed, paid)
  BY DEF IsTrade
<1>2. Owner[p] \in Users /\ MarketOf[p] \in Markets
  BY PositionTyped
<1>3. free' \in [Users -> Nat] /\ fundingBalance' \in [Markets -> Nat]
  BY <1>1, <1>2 DEF TradeShape, VaultsTypeOK, TradingTypeOK
<1>4. VaultsTypeOK' /\ Mirrored'
  <2>1. totalBadDebt' \in Nat
    BY <1>1 DEF TradeShape, VaultsTypeOK
  <2> QED
    BY <1>1, <1>3, <2>1, TradeVaults DEF TradeShape
<1>5. borrowIndex' = borrowIndex /\ fundingIndex' = fundingIndex /\ status' = status
  BY <1>1 DEF TradeShape, indexVars
<1>6. pos' \in [Positions -> Position] /\ BookSound'
  BY <1>1, <1>5, PositionStored DEF TradeShape
<1> QED
  BY <1>1, <1>3, <1>4, <1>5, <1>6 DEF TradeShape, TradingTypeOK

-----------------------------------------------------------------------------
(* The instructions of Trading. *)

(* A market whose funding balance a trade leaves alone moves it by zero. *)
LEMMA NoFunding ==
  ASSUME TradingTypeOK, NEW m \in Markets, fundingBalance' = fundingBalance
  PROVE  /\ fundingBalance' = [fundingBalance EXCEPT ![m] = @ + 0]
         /\ fundingBalance[m] + 0 \in Nat
<1>1. fundingBalance \in [Markets -> Nat] /\ fundingBalance[m] \in Nat
  BY DEF TradingTypeOK
<1>2. fundingBalance[m] + 0 = fundingBalance[m]
  BY <1>1
<1> QED
  BY <1>1, <1>2

(* A trade that leaves the queue alone, and what is recorded of its fee. *)
LEMMA NothingQueued ==
  ASSUME TradingTypeOK, NEW m \in Markets, NEW debt \in Nat, pendingAdl' = pendingAdl
  PROVE  Queues(m, 0, debt)
<1>1. pendingAdl[m] \in Nat /\ pendingAdl[m] + 0 = pendingAdl[m] /\ 0 + 0 <= debt
  BY DEF TradingTypeOK
<1> DEFINE queued == 0
<1>2. /\ queued \in Int /\ queued + 0 <= debt /\ pendingAdl[m] + queued \in Nat
      /\ pendingAdl[m] + queued = pendingAdl[m]
  BY <1>1
<1> HIDE DEF queued
<1>3. pendingAdl' = [pendingAdl EXCEPT ![m] = @ + queued]
  BY <1>2 DEF TradingTypeOK
<1> QED
  BY <1>2, <1>3 DEF Queues

LEMMA TradeEarns ==
  ASSUME VaultsTypeOK, NEW u \in Users, NEW alloc \in Allocation, RecordTrade(u, alloc)
  PROVE  Earns(u, alloc)
<1> DEFINE earned == IF u \in Referred THEN alloc.referral ELSE 0
<1>1. earned \in Nat
  BY DEF Allocation
<1>2. referralFeesGenerated' = [referralFeesGenerated EXCEPT ![u] = @ + earned]
  BY DEF RecordTrade
<1>3. earned <= IF u \in Referred THEN alloc.referral ELSE 0
  BY <1>1
<1> QED
  BY <1>1, <1>2, <1>3 DEF Earns

LEMMA NothingEarned ==
  ASSUME VaultsTypeOK, NEW u \in Users, NEW alloc \in Allocation,
         referralFeesGenerated' = referralFeesGenerated
  PROVE  Earns(u, alloc)
<1>1. /\ referralFeesGenerated[u] + 0 = referralFeesGenerated[u]
      /\ 0 <= IF u \in Referred THEN alloc.referral ELSE 0
  BY DEF VaultsTypeOK, Allocation
<1>2. referralFeesGenerated' = [referralFeesGenerated EXCEPT ![u] = @ + 0]
  BY <1>1 DEF VaultsTypeOK
<1> QED
  BY <1>1, <1>2 DEF Earns

LEMMA OpenPositionStep ==
  ASSUME VaultsTypeOK, TradingTypeOK, BookSound, Mirrored,
         NEW p \in Positions, NEW d \in Directions, NEW size \in Sizes,
         NEW collateral \in Margins, NEW quote \in Quotes, NEW tierRate \in TierRates,
         OpenPosition(p, d, size, collateral, quote, tierRate)
  PROVE  IsTrade(p)
<1> DEFINE u        == Owner[p]
           m        == MarketOf[p]
           side     == Resolve(d, "Open")
           exec     == ExecPrice(m, size, side, quote)
           notional == NotionalInQuote(size, exec)
           fee      == FeeAmount(notional, Lesser(Params.openFee, tierRate))
           alloc    == SplitFee(fee, FeeSplit)
           v        == [direction |-> d, size |-> size, collateral |-> collateral,
                        entryPrice |-> exec, entryNotional |-> notional,
                        fundingEntry |-> fundingIndex[m][d], borrowEntry |-> borrowIndex[m]]
<1>1. size \in Nat /\ collateral \in Nat /\ u \in Users /\ m \in Markets
  BY BookAssumption
<1>2. exec \in Nat
  BY <1>1, ExecPriceNat, ResolveSide DEF OpenPosition
<1>3. notional \in Nat
  BY <1>1, <1>2, NotionalNat
<1>4. fee \in Nat
  <2>1. Lesser(Params.openFee, tierRate) \in Nat
    BY ParamsAssumption, BookAssumption DEF ParamNames, Lesser
  <2> QED
    BY <2>1, <1>3, FeeNat
<1>5. alloc \in Allocation
  BY <1>4, SplitFeeExact, SplitAssumption DEF Allocation
<1>6. v \in Position /\ v.borrowEntry = borrowIndex[m] /\ borrowIndex[m] \in Nat
  BY <1>1, <1>2, <1>3 DEF Position, TradingTypeOK
<1>7. v.size = size /\ v.collateral = collateral /\ v.entryNotional = notional
  OBVIOUS
<1> HIDE DEF v, alloc, fee, notional, exec, side
<1>8. Secured(v)
  <2>1. notional >= MinNotional /\ collateral > 0
    BY DEF OpenPosition, MarginSuffices, notional, exec, side
  <2>2. size > 0 /\ notional > 0
    BY <1>1, <1>3, <2>1, BookAssumption
  <2> QED
    BY <1>7, <2>1, <2>2 DEF Secured
<1> DEFINE freed == -(collateral + fee)
<1>9. pos[p].collateral = 0
  <2>1. Secured(pos[p])
    BY PositionTyped
  <2> QED
    BY <2>1, EmptyPosition DEF Secured, OpenPosition, IsOpen
<1>10. /\ free' = [free EXCEPT ![u] = @ + freed]
       /\ free[u] + freed \in Nat /\ freed \in Int
  <2>1. free[u] >= collateral + fee /\ free' = [free EXCEPT ![u] = @ - (collateral + fee)]
    BY DEF OpenPosition, fee, notional, exec, side
  <2>2. free \in [Users -> Nat] /\ free[u] \in Nat
    BY <1>1 DEF VaultsTypeOK
  <2>3. free[u] - (collateral + fee) = free[u] + freed /\ free[u] + freed \in Nat
    BY <1>1, <1>4, <2>1, <2>2
  <2>4. freed \in Int
    BY <1>1, <1>4
  <2> HIDE DEF freed
  <2> QED
    BY <2>1, <2>3, <2>4
<1>11. freed + 0 + v.collateral - pos[p].collateral = 0 - AllocTotal(alloc) - 0
  <2>1. AllocTotal(alloc) = fee
    BY <1>4, SplitFeeExact, SplitAssumption DEF alloc, Allocation
  <2> QED
    BY <1>1, <1>4, <1>7, <1>9, <2>1
<1> HIDE DEF freed
<1>12. TradeShape(p, v, alloc, 0, 0, 0, 0, 0, freed, 0)
  <2>1. pos' = [pos EXCEPT ![p] = v]
    BY DEF OpenPosition, v, notional, exec, side
  <2>2. oi' \in [Markets -> [Directions -> Nat]] /\ baseOi' \in [Markets -> [Directions -> Nat]]
    BY <1>1, <1>3, AddOpenInterestTyped DEF OpenPosition, notional, exec, side
  <2>3. openCount' \in [Markets -> Nat] /\ openPositions' \in [Users -> Nat]
    BY <1>1 DEF OpenPosition, TradingTypeOK
  <2>4. pendingAdl' \in [Markets -> Nat] /\ Queues(m, 0, 0)
    <3>1. pendingAdl' = pendingAdl
      BY DEF OpenPosition
    <3> QED
      BY <1>1, <3>1, NothingQueued DEF TradingTypeOK
  <2>5. /\ fundingBalance' = [fundingBalance EXCEPT ![m] = @ + 0]
        /\ fundingBalance[m] + 0 \in Nat
    BY <1>1, NoFunding DEF OpenPosition
  <2>6. referralFeesGenerated' \in [Users -> Nat] /\ Earns(u, alloc)
    <3>1. RecordTrade(u, alloc)
      BY DEF OpenPosition, alloc, fee, notional, exec, side
    <3> QED
      BY <1>1, <1>5, <3>1, RecordTradeNat, TradeEarns
  <2>7. totalBadDebt' = totalBadDebt + 0
    BY DEF OpenPosition, VaultsTypeOK
  <2>8. SettleWith(alloc, 0, u \in Referred, 0, 0, 0)
    BY DEF OpenPosition, Settle, alloc, fee, notional, exec, side
  <2>9. v.borrowEntry <= borrowIndex[MarketOf[p]]
    BY <1>6
  <2>10. UNCHANGED <<settleFrame, indexVars, status>>
    BY DEF OpenPosition
  <2> QED
    BY <1>8, <1>10, <1>11, <2>1, <2>2, <2>3, <2>4, <2>5, <2>6, <2>7, <2>8, <2>9, <2>10
       DEF TradeShape
<1> QED
  BY <1>5, <1>6, <1>10, <1>12 DEF IsTrade

LEMMA WeightedEntryNat ==
  ASSUME NEW sizeA \in Nat \ {0}, NEW priceA \in Nat, NEW sizeB \in Nat, NEW priceB \in Nat,
         NEW d \in Directions
  PROVE  WeightedEntryPrice(sizeA, priceA, sizeB, priceB, d) \in Nat
<1> DEFINE weighted == sizeA * priceA + sizeB * priceB
           size     == sizeA + sizeB
<1>1. weighted \in Nat /\ size \in Nat \ {0} /\ 1 \in Nat
  BY SMT
<1> HIDE DEF weighted, size
<1>2. MulDivCeil(weighted, 1, size) \in Nat /\ MulDivFloor(weighted, 1, size) \in Nat
  BY <1>1, CeilNat, FloorNat
<1> QED
  BY <1>2 DEF WeightedEntryPrice, weighted, size

LEMMA IncreasePositionStep ==
  ASSUME VaultsTypeOK, TradingTypeOK, BookSound, Mirrored,
         NEW p \in Positions, NEW size \in Sizes,
         NEW collateral \in Margins \cup {0}, NEW quote \in Quotes, NEW tierRate \in TierRates,
         IncreasePosition(p, size, collateral, quote, tierRate)
  PROVE  IsTrade(p)
<1> DEFINE u     == Owner[p]
           m     == MarketOf[p]
           r     == pos[p]
           side  == Resolve(r.direction, "Open")
           exec  == ExecPrice(m, size, side, quote)
           added == NotionalInQuote(size, exec)
           fee   == FeeAmount(added, Lesser(Params.openFee, tierRate))
           alloc == SplitFee(fee, FeeSplit)
           entry == WeightedEntryPrice(r.size, r.entryPrice, size, exec, r.direction)
           v     == [r EXCEPT !.size = @ + size, !.collateral = @ + collateral,
                              !.entryNotional = @ + added, !.entryPrice = entry]
<1>1. size \in Nat /\ collateral \in Nat
  BY BookAssumption
<1>2. /\ r \in Position /\ u \in Users /\ m \in Markets
      /\ r.borrowEntry <= borrowIndex[m]
  BY PositionTyped
<1>3. /\ r.size \in Nat \ {0} /\ r.entryPrice \in Nat /\ r.direction \in Directions
      /\ r.collateral \in Nat /\ r.entryNotional \in Nat
  BY <1>2 DEF Position, IncreasePosition, IsOpen
<1>4. exec \in Nat
  BY <1>1, <1>2, ExecPriceNat, ResolveSide DEF IncreasePosition
<1>5. added \in Nat
  BY <1>1, <1>4, NotionalNat
<1>6. fee \in Nat
  <2>1. Lesser(Params.openFee, tierRate) \in Nat
    BY ParamsAssumption, BookAssumption DEF ParamNames, Lesser
  <2> QED
    BY <2>1, <1>5, FeeNat
<1>7. alloc \in Allocation
  BY <1>6, SplitFeeExact, SplitAssumption DEF Allocation
<1>8. entry \in Nat
  BY <1>1, <1>3, <1>4, WeightedEntryNat
<1> HIDE DEF alloc, fee, added, exec, side, entry
<1>9. /\ v \in Position /\ v.borrowEntry <= borrowIndex[m]
      /\ v.size = r.size + size /\ v.collateral = r.collateral + collateral
      /\ v.entryNotional = r.entryNotional + added
  <2> DEFINE newSize       == r.size + size
             newCollateral == r.collateral + collateral
             newNotional   == r.entryNotional + added
  <2>1. newSize \in Nat /\ newCollateral \in Nat /\ newNotional \in Nat
    BY <1>1, <1>3, <1>5
  <2>2. v = Resized(r, newSize, newCollateral, newNotional, entry)
    BY DEF Resized
  <2> HIDE DEF v, newSize, newCollateral, newNotional
  <2>3. Resized(r, newSize, newCollateral, newNotional, entry) \in Position
    BY <2>1, <1>2, <1>8, ResizedPosition
  <2>4. /\ v.borrowEntry = r.borrowEntry /\ v.size = newSize
        /\ v.collateral = newCollateral /\ v.entryNotional = newNotional
    BY <1>2, <2>2, ResizedFields
  <2> QED
    BY <2>2, <2>3, <2>4, <1>2 DEF newSize, newCollateral, newNotional
<1>10. pos' = [pos EXCEPT ![p] = v]
  BY DEF IncreasePosition, entry, added, exec, side
<1> HIDE DEF v
<1>11. Secured(v)
  <2>1. Secured(r)
    BY PositionTyped
  <2>2. r.collateral > 0 /\ r.entryNotional > 0
    BY <1>3, <2>1, EmptyPosition DEF Secured
  <2> QED
    BY <1>1, <1>3, <1>5, <1>9, <2>2 DEF Secured
<1> DEFINE freed == -(collateral + fee)
<1>12. /\ free' = [free EXCEPT ![u] = @ + freed]
       /\ free[u] + freed \in Nat /\ freed \in Int
  <2>1. free[u] >= collateral + fee /\ free' = [free EXCEPT ![u] = @ - (collateral + fee)]
    BY DEF IncreasePosition, fee, added, exec, side
  <2>2. free \in [Users -> Nat] /\ free[u] \in Nat
    BY <1>2 DEF VaultsTypeOK
  <2>3. free[u] - (collateral + fee) = free[u] + freed /\ free[u] + freed \in Nat
    BY <1>1, <1>6, <2>1, <2>2
  <2>4. freed \in Int
    BY <1>1, <1>6
  <2> HIDE DEF freed
  <2> QED
    BY <2>1, <2>3, <2>4
<1>13. freed + 0 + v.collateral - pos[p].collateral = 0 - AllocTotal(alloc) - 0
  <2>1. AllocTotal(alloc) = fee
    BY <1>6, SplitFeeExact, SplitAssumption DEF alloc, Allocation
  <2> QED
    BY <1>1, <1>3, <1>6, <1>9, <2>1
<1> HIDE DEF freed
<1>14. TradeShape(p, v, alloc, 0, 0, 0, 0, 0, freed, 0)
  <2>1. oi' \in [Markets -> [Directions -> Nat]] /\ baseOi' \in [Markets -> [Directions -> Nat]]
    BY <1>1, <1>2, <1>3, <1>5, AddOpenInterestTyped DEF IncreasePosition, added, exec, side
  <2>2. /\ openCount' \in [Markets -> Nat] /\ openPositions' \in [Users -> Nat]
        /\ pendingAdl' \in [Markets -> Nat] /\ Queues(m, 0, 0)
    <3>1. /\ openCount' = openCount /\ openPositions' = openPositions
          /\ pendingAdl' = pendingAdl
      BY DEF IncreasePosition
    <3> QED
      BY <1>2, <3>1, NothingQueued DEF TradingTypeOK
  <2>3. /\ fundingBalance' = [fundingBalance EXCEPT ![m] = @ + 0]
        /\ fundingBalance[m] + 0 \in Nat
    BY <1>2, NoFunding DEF IncreasePosition
  <2>4. referralFeesGenerated' \in [Users -> Nat] /\ Earns(u, alloc)
    <3>1. RecordTrade(u, alloc)
      BY DEF IncreasePosition, alloc, fee, added, exec, side
    <3> QED
      BY <1>2, <1>7, <3>1, RecordTradeNat, TradeEarns
  <2>5. totalBadDebt' = totalBadDebt + 0
    BY DEF IncreasePosition, VaultsTypeOK
  <2>6. SettleWith(alloc, 0, u \in Referred, 0, 0, 0)
    BY DEF IncreasePosition, Settle, alloc, fee, added, exec, side
  <2>7. UNCHANGED <<settleFrame, indexVars, status>>
    BY DEF IncreasePosition
  <2> QED
    BY <1>9, <1>10, <1>11, <1>12, <1>13, <2>1, <2>2, <2>3, <2>4, <2>5, <2>6, <2>7
       DEF TradeShape
<1> QED
  BY <1>7, <1>9, <1>12, <1>14 DEF IsTrade

(* A part of something is less than it. *)
LEMMA FloorBelow ==
  ASSUME NEW a \in Nat, a > 0, NEW b \in Nat, NEW d \in Nat \ {0}, b < d
  PROVE  MulDivFloor(a, b, d) < a
<1> DEFINE f == MulDivFloor(a, b, d)
<1>1. f \in Nat /\ d * f <= a * b
  BY FloorShare
<1> HIDE DEF f
<1>2. a * b < a * d
  <2>1. b + 1 <= d
    OBVIOUS
  <2>2. a * (b + 1) <= a * d
    BY <2>1
  <2>3. a * (b + 1) = a * b + a
    OBVIOUS
  <2>4. a * b \in Int /\ a * d \in Int
    OBVIOUS
  <2> QED
    BY <2>2, <2>3, <2>4
<1>3. SUFFICES ASSUME f >= a PROVE FALSE
  BY <1>1 DEF f
<1>4. d * a <= d * f
  BY <1>1, <1>3
<1>5. d * a = a * d /\ a * d \in Int /\ d * f \in Int /\ a * b \in Int
  BY <1>1
<1> QED
  BY <1>1, <1>2, <1>4, <1>5

LEMMA ReduceStep ==
  ASSUME VaultsTypeOK, TradingTypeOK, BookSound, Mirrored,
         NEW p \in Positions, NEW delta \in 1..pos[p].size,
         NEW quote \in Quotes, NEW tierRate \in TierRates,
         Reduce(p, delta, quote, tierRate)
  PROVE  IsTrade(p)
<1> DEFINE u         == Owner[p]
           m         == MarketOf[p]
           r         == AfterCarry(pos[p], m)
           carry     == CarryPaid(pos[p], m)
           full      == delta = r.size
           side      == Resolve(r.direction, "Close")
           exec      == ExecPrice(m, delta, side, quote)
           pnl       == UpnlInQuote(delta, r.entryPrice, exec, r.direction)
           closeFee  == FeeAmount(NotionalInQuote(delta, exec), Lesser(Params.closeFee, tierRate))
           fee       == closeFee + carry
           released  == IF full THEN r.collateral ELSE MulDivFloor(r.collateral, delta, r.size)
           available == released + carry - fee
           equity    == available + pnl
           settled   == IF equity >= 0 THEN pnl ELSE -available
           closed    == IF full THEN r.entryNotional
                        ELSE MulDivFloor(r.entryNotional, delta, r.size)
           alloc     == SplitFee(fee, FeeSplit)
           v         == IF full THEN NoPosition
                        ELSE [r EXCEPT !.size = @ - delta, !.collateral = @ - released,
                                       !.entryNotional = @ - closed]
<1>1. /\ pos[p] \in Position /\ u \in Users /\ m \in Markets
      /\ borrowIndex[m] \in Nat /\ pos[p].borrowEntry <= borrowIndex[m]
  BY PositionTyped
<1>2. /\ r \in Position /\ r.borrowEntry = borrowIndex[m] /\ r.size = pos[p].size
      /\ carry \in Nat /\ r.collateral = pos[p].collateral - carry
      /\ r.entryNotional = pos[p].entryNotional
  <2>1. carry \in 0..pos[p].collateral /\ pos[p].collateral \in Nat
    BY <1>1, CarrySettles DEF Position
  <2> QED
    BY <1>1, <2>1, CarrySettles
<1> HIDE DEF r, carry
<1>3. /\ r.size \in Nat /\ r.entryPrice \in Nat /\ r.direction \in Directions
      /\ r.collateral \in Nat /\ r.entryNotional \in Nat
  BY <1>2 DEF Position
<1>4. delta \in Nat \ {0} /\ delta <= r.size /\ r.size \in Nat \ {0}
  BY <1>2, <1>3
<1>5. exec \in Nat
  <2>1. CanExecute(m, delta, side, quote)
    BY DEF Reduce, r
  <2> QED
    BY <1>1, <1>4, <2>1, ExecPriceNat, ResolveSide
<1> HIDE DEF exec, side
<1>6. pnl \in Int
  BY <1>3, <1>4, <1>5, UpnlInt
<1>7. closeFee \in Nat
  <2>1. Lesser(Params.closeFee, tierRate) \in Nat
    BY ParamsAssumption, BookAssumption DEF ParamNames, Lesser
  <2>2. NotionalInQuote(delta, exec) \in Nat
    BY <1>4, <1>5, NotionalNat
  <2> QED
    BY <2>1, <2>2, FeeNat
<1> HIDE DEF pnl, closeFee
<1>8. fee \in Nat
  BY <1>2, <1>7
<1>9. alloc \in Allocation
  <2> HIDE DEF fee
  <2> QED
    BY <1>8, SplitFeeExact, SplitAssumption DEF Allocation
<1>10. /\ released \in Nat /\ released <= r.collateral
       /\ closed \in Nat /\ closed <= r.entryNotional
  <2>1. /\ MulDivFloor(r.collateral, delta, r.size) \in Nat
        /\ MulDivFloor(r.collateral, delta, r.size) <= r.collateral
        /\ MulDivFloor(r.entryNotional, delta, r.size) \in Nat
        /\ MulDivFloor(r.entryNotional, delta, r.size) <= r.entryNotional
    BY <1>3, <1>4, FloorNat
  <2> QED
    BY <1>3, <2>1
<1> HIDE DEF released, closed, alloc
<1>11. equity \in Int /\ settled \in Int
  BY <1>2, <1>6, <1>8, <1>10
<1>12. full => released = r.collateral
  BY DEF released
<1>13. /\ v \in Position /\ v.borrowEntry <= borrowIndex[m]
       /\ v.collateral = r.collateral - released
       /\ Secured(v)
  <2>1. CASE full
    BY <2>1, <1>1, <1>3, <1>12, EmptyPosition
  <2>2. CASE ~ full
    <3> DEFINE newSize       == r.size - delta
               newCollateral == r.collateral - released
               newNotional   == r.entryNotional - closed
    <3>1. newSize \in Nat /\ newCollateral \in Nat /\ newNotional \in Nat
      BY <1>3, <1>4, <1>10
    <3>2. v = Resized(r, newSize, newCollateral, newNotional, r.entryPrice)
      BY <2>2, <1>2 DEF Position, Resized
    <3>3. newSize > 0 /\ newCollateral > 0 /\ newNotional > 0
      <4>1. r.collateral > released
        BY <2>2 DEF Reduce, r, carry, released
      <4>2. Secured(pos[p])
        BY PositionTyped
      <4>3. r.entryNotional > 0
        BY <1>1, <1>2, <1>3, <1>4, <4>2, EmptyPosition DEF Secured, Position
      <4>4. closed < r.entryNotional
        BY <2>2, <1>3, <1>4, <4>3, FloorBelow DEF closed
      <4> QED
        BY <2>2, <1>3, <1>4, <1>10, <4>1, <4>4
    <3> HIDE DEF v, newSize, newCollateral, newNotional
    <3>4. Resized(r, newSize, newCollateral, newNotional, r.entryPrice) \in Position
      BY <3>1, <1>2, <1>3, ResizedPosition
    <3>5. /\ v.borrowEntry = r.borrowEntry /\ v.size = newSize
          /\ v.collateral = newCollateral /\ v.entryNotional = newNotional
      BY <1>2, <3>2, ResizedFields
    <3>6. Secured(v)
      BY <3>3, <3>5 DEF Secured
    <3> QED
      BY <3>2, <3>4, <3>5, <3>6, <1>1, <1>2 DEF newCollateral
  <2> QED
    BY <2>1, <2>2
<1>14. /\ pos' = [pos EXCEPT ![p] = v]
       /\ SettleWith(alloc, settled, u \in Referred, 0, 0, 0)
       /\ free' = [free EXCEPT ![u] = @ + Greater(equity, 0)]
       /\ totalBadDebt' = totalBadDebt + Greater(-equity, 0)
       /\ RemoveOpenInterest(m, r.direction, closed, delta)
       /\ RecordTrade(u, alloc)
  BY DEF Reduce, Settle, r, carry, side, exec, pnl, closeFee, released, closed, alloc
<1>15. Greater(-equity, 0) \in Nat /\ Greater(equity, 0) \in Nat
  BY <1>11 DEF Greater
<1>16. Greater(equity, 0) + 0 + v.collateral - pos[p].collateral = settled - AllocTotal(alloc) - 0
  <2>1. AllocTotal(alloc) = fee
    <3> HIDE DEF fee
    <3> QED
      BY <1>8, SplitFeeExact, SplitAssumption DEF alloc, Allocation
  <2>2. v.collateral - pos[p].collateral = -(released + carry)
    <3>1. pos[p].collateral \in Nat
      BY <1>1 DEF Position
    <3> HIDE DEF v
    <3> QED
      BY <3>1, <1>2, <1>3, <1>10, <1>13
  <2>3. Greater(equity, 0) - (released + carry) = settled - fee
    <3> HIDE DEF fee
    <3>1. equity = released + carry - fee + pnl
      OBVIOUS
    <3>2. CASE equity >= 0
      <4>1. Greater(equity, 0) = equity /\ settled = pnl
        BY <1>11, <3>2 DEF Greater
      <4> QED
        BY <4>1, <1>2, <1>6, <1>8, <1>10
    <3>3. CASE ~ (equity >= 0)
      <4>1. Greater(equity, 0) = 0 /\ settled = -(released + carry - fee)
        BY <1>11, <3>3 DEF Greater
      <4> QED
        BY <4>1, <1>2, <1>8, <1>10
    <3> QED
      BY <3>2, <3>3
  <2>4. v.collateral \in Int /\ pos[p].collateral \in Int
    <3> HIDE DEF v
    <3> QED
      BY <1>1, <1>13 DEF Position
  <2> HIDE DEF v, settled, equity, fee
  <2> QED
    BY <2>1, <2>2, <2>3, <2>4, <1>2, <1>8, <1>10, <1>11, <1>15
<1> HIDE DEF v, settled, equity
<1>17. TradeShape(p, v, alloc, settled, 0, 0, 0, Greater(-equity, 0), Greater(equity, 0), 0)
  <2>1. oi' \in [Markets -> [Directions -> Nat]] /\ baseOi' \in [Markets -> [Directions -> Nat]]
    BY <1>1, <1>3, <1>4, <1>10, <1>14, RemoveOpenInterestTyped
  <2>2. openCount' \in [Markets -> Nat] /\ openPositions' \in [Users -> Nat]
    <3> DEFINE n == IF full THEN 1 ELSE 0
    <3>1. /\ openCount' = [openCount EXCEPT ![m] = SatSub(@, n)]
          /\ openPositions' = [openPositions EXCEPT ![u] = SatSub(@, n)]
      BY DEF Reduce, r
    <3>2. /\ openCount \in [Markets -> Nat] /\ openPositions \in [Users -> Nat]
          /\ n \in Nat
      BY DEF TradingTypeOK
    <3>3. SatSub(openCount[m], n) \in Nat /\ SatSub(openPositions[u], n) \in Nat
      <4> HIDE DEF n
      <4> QED
        BY <1>1, <3>2 DEF SatSub, Greater
    <3> HIDE DEF n
    <3> QED
      BY <1>1, <3>1, <3>2, <3>3
  <2>3. pendingAdl' \in [Markets -> Nat] /\ Queues(m, 0, Greater(-equity, 0))
    <3>1. pendingAdl' = pendingAdl
      BY DEF Reduce
    <3> QED
      BY <1>1, <1>15, <3>1, NothingQueued DEF TradingTypeOK
  <2>4. /\ fundingBalance' = [fundingBalance EXCEPT ![m] = @ + 0]
        /\ fundingBalance[m] + 0 \in Nat
    BY <1>1, NoFunding DEF Reduce
  <2>5. free[u] + Greater(equity, 0) \in Nat
    BY <1>1, <1>15 DEF VaultsTypeOK
  <2>6. referralFeesGenerated' \in [Users -> Nat] /\ Earns(u, alloc)
    BY <1>1, <1>9, <1>14, RecordTradeNat, TradeEarns
  <2>7. UNCHANGED <<settleFrame, indexVars, status>>
    BY DEF Reduce
  <2> QED
    BY <1>13, <1>14, <1>16, <2>1, <2>2, <2>3, <2>4, <2>5, <2>6, <2>7 DEF TradeShape
<1>18. Greater(equity, 0) \in Int /\ 0 \in Int /\ 0 \in Nat
  BY <1>15
<1> QED
  BY <1>9, <1>11, <1>13, <1>15, <1>17, <1>18 DEF IsTrade

(* Adding and removing margin move the owner's own money, by delta. *)
LEMMA MarginMoved ==
  ASSUME VaultsTypeOK, TradingTypeOK, BookSound, Mirrored,
         NEW p \in Positions, NEW delta \in Int, NEW v,
         v = [pos[p] EXCEPT !.collateral = pos[p].collateral + delta],
         IsOpen(p), pos[p].collateral + delta > 0, pos[p].collateral + delta \in Nat,
         free[Owner[p]] - delta \in Nat,
         pos' = [pos EXCEPT ![p] = v],
         free' = [free EXCEPT ![Owner[p]] = free[Owner[p]] - delta],
         UNCHANGED <<tokenVars, mirrorVars, referralFeesGenerated, debtVars, settleFrame,
                     totalReferralAccrued, totalLiquidatorPaid, bookVars, indexVars,
                     fundingBalance, pendingAdl, status>>
  PROVE  VaultsTypeOK' /\ TradingTypeOK' /\ BookSound' /\ Mirrored'
<1>1. pos[p] \in Position /\ Owner[p] \in Users
      /\ pos[p].borrowEntry <= borrowIndex[MarketOf[p]]
  BY PositionTyped
<1>2. /\ v \in Position /\ v.borrowEntry = pos[p].borrowEntry
      /\ v.size = pos[p].size /\ v.entryNotional = pos[p].entryNotional
      /\ v.collateral > 0
  BY <1>1 DEF Position
<1>3. borrowIndex' = borrowIndex
  BY DEF indexVars
<1>4. v.borrowEntry <= borrowIndex[MarketOf[p]] /\ Secured(v)
  <2>1. pos[p].size > 0 /\ pos[p].entryNotional > 0
    BY PositionTyped, EmptyPosition DEF Secured, IsOpen
  <2> QED
    BY <1>1, <1>2, <2>1 DEF Secured
<1>5. pos' \in [Positions -> Position] /\ BookSound'
  BY <1>2, <1>3, <1>4, PositionStored
<1>6. TradingTypeOK'
  BY <1>5 DEF TradingTypeOK, bookVars, indexVars
<1>7. VaultsTypeOK' /\ Mirrored'
  BY <1>1 DEF VaultsTypeOK, Mirrored, PoolBacked, InsuranceBacked, tokenVars,
     mirrorVars, debtVars, settleFrame, walletVars, payoutVars
<1> QED
  BY <1>5, <1>6, <1>7

LEMMA AddMarginStep ==
  ASSUME VaultsTypeOK, TradingTypeOK, BookSound, Mirrored,
         NEW p \in Positions, NEW amount \in Margins, AddPositionCollateral(p, amount)
  PROVE  VaultsTypeOK' /\ TradingTypeOK' /\ BookSound' /\ Mirrored'
<1> DEFINE v == [pos[p] EXCEPT !.collateral = pos[p].collateral + amount]
<1>1. amount \in Nat \ {0} /\ pos[p] \in Position /\ Owner[p] \in Users
  BY PositionTyped, BookAssumption
<1>2. /\ pos[p].collateral + amount \in Nat /\ pos[p].collateral + amount > 0
      /\ free[Owner[p]] - amount \in Nat
  BY <1>1 DEF Position, VaultsTypeOK, AddPositionCollateral
<1>3. pos' = [pos EXCEPT ![p] = v]
  BY <1>1 DEF AddPositionCollateral, TradingTypeOK
<1>4. free' = [free EXCEPT ![Owner[p]] = free[Owner[p]] - amount]
  BY DEF AddPositionCollateral
<1>5. amount \in Int
  BY <1>1
<1> QED
  BY <1>2, <1>3, <1>4, <1>5, MarginMoved DEF AddPositionCollateral

LEMMA RemoveMarginStep ==
  ASSUME VaultsTypeOK, TradingTypeOK, BookSound, Mirrored,
         NEW p \in Positions, NEW amount \in Margins, NEW quote \in Quotes,
         RemovePositionCollateral(p, amount, quote)
  PROVE  VaultsTypeOK' /\ TradingTypeOK' /\ BookSound' /\ Mirrored'
<1> DEFINE delta == -amount
           v == [pos[p] EXCEPT !.collateral = pos[p].collateral + delta]
<1>1. amount \in Nat /\ pos[p] \in Position /\ Owner[p] \in Users
  BY PositionTyped, BookAssumption
<1>2. delta \in Int /\ pos[p].collateral \in Nat /\ free[Owner[p]] \in Nat
  BY <1>1 DEF Position, VaultsTypeOK
<1>3. /\ pos[p].collateral + delta \in Nat /\ pos[p].collateral + delta > 0
      /\ free[Owner[p]] - delta \in Nat
  BY <1>1, <1>2 DEF RemovePositionCollateral
<1>4. /\ pos[p].collateral + delta = pos[p].collateral - amount
      /\ free[Owner[p]] - delta = free[Owner[p]] + amount
  BY <1>1, <1>2
<1>5. pos' = [pos EXCEPT ![p] = v]
  <2>1. pos' = [pos EXCEPT ![p].collateral = pos[p].collateral - amount]
    BY DEF RemovePositionCollateral
  <2> HIDE DEF delta
  <2> QED
    BY <2>1, <1>4
<1>6. free' = [free EXCEPT ![Owner[p]] = free[Owner[p]] - delta]
  <2>1. free' = [free EXCEPT ![Owner[p]] = free[Owner[p]] + amount]
    BY DEF RemovePositionCollateral
  <2> HIDE DEF delta
  <2> QED
    BY <2>1, <1>4
<1> HIDE DEF delta
<1> QED
  BY <1>2, <1>3, <1>5, <1>6, MarginMoved DEF RemovePositionCollateral

-----------------------------------------------------------------------------
(* The instructions of Keepers. *)

LEMMA PenaltySharesTyped ==
  ASSUME NEW penalty \in Nat
  PROVE  /\ SplitLiquidationPenalty(penalty).liquidator \in Nat
         /\ SplitLiquidationPenalty(penalty).insurance \in Nat
         /\ SplitLiquidationPenalty(penalty).treasury \in Nat
<1> DEFINE liq == MulDivFloor(penalty, LiquidatorBps, Bps)
           ins == MulDivFloor(penalty, PenaltyInsBps, Bps)
           tre == MulDivFloor(penalty, Bps - LiquidatorBps - PenaltyInsBps, Bps)
<1>1. /\ Bps \in Nat \ {0} /\ LiquidatorBps \in Nat /\ PenaltyInsBps \in Nat
      /\ Bps - LiquidatorBps - PenaltyInsBps \in Nat
  BY ScalesAssumption, PenaltySharesAssumption
<1>2. liq \in Nat /\ Bps * liq <= penalty * LiquidatorBps
  BY <1>1, FloorShare
<1>3. ins \in Nat /\ Bps * ins <= penalty * PenaltyInsBps
  BY <1>1, FloorShare
<1> HIDE DEF liq, ins
<1>4. Bps * (liq + ins) <= penalty * Bps
  <2>1. Bps * (liq + ins) = Bps * liq + Bps * ins
    BY <1>1, <1>2, <1>3
  <2>2. penalty * (LiquidatorBps + PenaltyInsBps)
          = penalty * LiquidatorBps + penalty * PenaltyInsBps
    BY <1>1
  <2>3. penalty * (LiquidatorBps + PenaltyInsBps) <= penalty * Bps
    BY <1>1
  <2>4. /\ Bps * liq \in Int /\ Bps * ins \in Int /\ penalty * LiquidatorBps \in Int
        /\ penalty * PenaltyInsBps \in Int /\ penalty * Bps \in Int
    BY <1>1, <1>2, <1>3
  <2> QED
    BY <2>1, <2>2, <2>3, <2>4, <1>2, <1>3
<1>5. liq + ins <= penalty
  <2> DEFINE q == liq + ins
  <2>1. q \in Nat /\ Bps * q <= penalty * Bps
    BY <1>2, <1>3, <1>4
  <2> HIDE DEF q
  <2>2. q <= penalty
    <3> SUFFICES ASSUME q >= penalty + 1 PROVE FALSE
      BY <2>1
    <3>1. Bps * (penalty + 1) <= Bps * q
      BY <1>1, <2>1
    <3>2. Bps * (penalty + 1) = penalty * Bps + Bps
      BY <1>1
    <3> QED
      BY <1>1, <2>1, <3>1, <3>2
  <2> QED
    BY <2>2 DEF q
<1>6. SplitLiquidationPenalty(penalty) =
        [liquidator |-> liq, insurance |-> ins, treasury |-> penalty - liq - ins]
  BY DEF SplitLiquidationPenalty, liq, ins
<1> QED
  BY <1>2, <1>3, <1>5, <1>6

(* When what the position gives up is not negative, no flow of the         *)
(* liquidation is.                                                         *)
LEMMA LiquidationTyped ==
  ASSUME VaultsTypeOK, NEW r \in Position, NEW carry \in Nat, NEW health,
         health.notional \in Nat, health.liquidationEquity \in Int,
         Liquidation(r, carry, health).givenUp >= 0
  PROVE  LET l == Liquidation(r, carry, health)
         IN  /\ l.credit \in Nat
             /\ l.out \in Nat
             /\ l.carryFee \in Nat
             /\ l.insuranceFee \in Nat
             /\ l.treasuryFee \in Nat
             /\ l.poolIn \in Nat
             /\ l.reward \in Nat
             /\ l.badDebt \in Nat
             /\ l.draw \in Nat
             /\ l.draw <= l.badDebt
             /\ l.out + l.carryFee + l.insuranceFee + l.treasuryFee + l.poolIn
                  = r.collateral + carry - l.credit
<1> DEFINE equity   == health.liquidationEquity
           full     == FeeAmount(health.notional, Params.liqFee * (RatePrecision \div Bps))
           penalty  == Lesser(full, Greater(equity, 0))
           split    == SplitLiquidationPenalty(penalty)
           credit   == Greater(equity - penalty, 0)
           givenUp  == r.collateral + carry - credit
           out      == Lesser(split.liquidator, givenUp)
           after    == givenUp - out
           carryFee == Lesser(carry, after)
           insFee   == Lesser(split.insurance, after - carryFee)
           treFee   == Lesser(split.treasury, after - carryFee - insFee)
           selfFund == SplitLiquidationPenalty(full).liquidator
           ceiling  == Lesser(MinLiquidatorReward, selfFund)
           badDebt  == Greater(-equity, 0)
           draw     == Lesser(badDebt, insuranceBalance)
<1>1. r.collateral \in Nat /\ insuranceBalance \in Nat /\ MinLiquidatorReward \in Nat
  BY KeepersAssumption DEF Position, VaultsTypeOK
<1>2. full \in Nat
  <2>1. RatePrecision \div Bps \in Nat
    <3>1. /\ RatePrecision \div Bps \in Int /\ Bps \in Nat \ {0} /\ RatePrecision \in Nat \ {0}
          /\ RatePrecision < Bps * (RatePrecision \div Bps) + Bps
      BY ScalesAssumption, DivFloors
    <3> QED
      BY <3>1
  <2>2. Params.liqFee \in Nat
    BY ParamsAssumption DEF ParamNames
  <2>3. Params.liqFee * (RatePrecision \div Bps) \in Nat
    BY <2>1, <2>2
  <2> QED
    BY <2>3, FeeNat
<1> HIDE DEF full
<1>3. penalty \in Nat
  BY <1>2 DEF Lesser, Greater
<1> HIDE DEF penalty
<1>4. /\ split.liquidator \in Nat /\ split.insurance \in Nat /\ split.treasury \in Nat
      /\ selfFund \in Nat
  BY <1>2, <1>3, PenaltySharesTyped
<1>5. /\ Liquidation(r, carry, health).credit = credit
      /\ Liquidation(r, carry, health).givenUp = givenUp
      /\ Liquidation(r, carry, health).out = out
      /\ Liquidation(r, carry, health).carryFee = carryFee
      /\ Liquidation(r, carry, health).insuranceFee = insFee
      /\ Liquidation(r, carry, health).treasuryFee = treFee
      /\ Liquidation(r, carry, health).poolIn = after - carryFee - insFee - treFee
      /\ Liquidation(r, carry, health).reward
           = Lesser(SatSub(ceiling, out), insuranceBalance - draw)
      /\ Liquidation(r, carry, health).badDebt = badDebt
      /\ Liquidation(r, carry, health).draw = draw
  BY DEF Liquidation, Routed, penalty, full
<1> HIDE DEF split, selfFund
<1>6. credit \in Nat /\ givenUp \in Nat
  BY <1>1, <1>3, <1>5 DEF Greater
<1>7. out \in Nat /\ after \in Nat
  BY <1>4, <1>6 DEF Lesser
<1> HIDE DEF credit, givenUp, out
<1>8. carryFee \in Nat /\ after - carryFee \in Nat
  BY <1>7 DEF Lesser
<1>9. insFee \in Nat /\ after - carryFee - insFee \in Nat
  BY <1>4, <1>8 DEF Lesser
<1>10. treFee \in Nat /\ after - carryFee - insFee - treFee \in Nat
  BY <1>4, <1>9 DEF Lesser
<1>11. /\ badDebt \in Nat /\ draw \in Nat /\ draw <= badDebt
       /\ insuranceBalance - draw \in Nat
  BY <1>1 DEF Lesser, Greater
<1>12. Lesser(SatSub(ceiling, out), insuranceBalance - draw) \in Nat
  <2>1. ceiling \in Nat
    BY <1>1, <1>4 DEF Lesser
  <2> QED
    BY <2>1, <1>7, <1>11 DEF Lesser, SatSub, Greater
<1>13. out + carryFee + insFee + treFee + (after - carryFee - insFee - treFee) = givenUp
  BY <1>6, <1>7, <1>8, <1>9, <1>10
<1> HIDE DEF carryFee, insFee, treFee, badDebt, draw, ceiling
<1> QED
  BY <1>5, <1>6, <1>7, <1>8, <1>9, <1>10, <1>11, <1>12, <1>13 DEF givenUp

LEMMA LiquidationAllocTyped ==
  ASSUME NEW l, l.carryFee \in Nat, l.treasuryFee \in Nat, l.insuranceFee \in Nat
  PROVE  /\ LiquidationAlloc(l) \in Allocation
         /\ AllocTotal(LiquidationAlloc(l)) = l.carryFee + l.treasuryFee + l.insuranceFee
<1> DEFINE carry == SplitFee(l.carryFee, FeeSplit)
<1>1. carry \in Allocation /\ AllocTotal(carry) = l.carryFee
  BY SplitFeeExact, SplitAssumption DEF Allocation
<1> HIDE DEF carry
<1>2. LiquidationAlloc(l) = [lp |-> carry.lp, treasury |-> carry.treasury + l.treasuryFee,
                             insurance |-> carry.insurance + l.insuranceFee,
                             referral |-> carry.referral]
  <2>1. LiquidationAlloc(l) = [carry EXCEPT !.treasury = @ + l.treasuryFee,
                                            !.insurance = @ + l.insuranceFee]
    BY DEF LiquidationAlloc, carry
  <2> QED
    BY <1>1, <2>1 DEF Allocation
<1> QED
  BY <1>1, <1>2 DEF Allocation, AllocTotal

(* Carry, then funding, settled on an open position. *)
LEMMA CostsSettle ==
  ASSUME TradingTypeOK, BookSound, NEW p \in Positions
  PROVE  LET m == MarketOf[p]
             c == AfterCarry(pos[p], m)
             r == AfterFunding(c, m)
         IN  /\ m \in Markets
             /\ CarryPaid(pos[p], m) \in Nat
             /\ c \in Position
             /\ r \in Position
             /\ FundingPaid(c, m) \in Int
             /\ fundingBalance[m] + FundingPaid(c, m) \in Nat
             /\ r.collateral = pos[p].collateral - CarryPaid(pos[p], m) - FundingPaid(c, m)
             /\ r.size = pos[p].size
             /\ r.direction = pos[p].direction
             /\ r.entryNotional = pos[p].entryNotional
             /\ r.borrowEntry = borrowIndex[m]
<1> DEFINE m == MarketOf[p]
           carry == CarryPaid(pos[p], m)
           c == AfterCarry(pos[p], m)
           funding == FundingPaid(c, m)
           r == AfterFunding(c, m)
<1>1. pos[p] \in Position /\ m \in Markets /\ pos[p].borrowEntry <= borrowIndex[m]
  BY PositionTyped
<1>2. /\ carry \in 0..pos[p].collateral /\ c \in Position
      /\ c.collateral = pos[p].collateral - carry
      /\ c.size = pos[p].size /\ c.direction = pos[p].direction
      /\ c.entryNotional = pos[p].entryNotional /\ c.borrowEntry = borrowIndex[m]
  BY <1>1, CarrySettles
<1>3. carry \in Nat
  BY <1>1, <1>2 DEF Position
<1> HIDE DEF c, carry
<1>4. /\ funding \in Int /\ fundingBalance[m] + funding \in Nat /\ r \in Position
      /\ r.collateral = c.collateral - funding
      /\ r.size = c.size /\ r.direction = c.direction
      /\ r.entryNotional = c.entryNotional /\ r.borrowEntry = c.borrowEntry
  BY <1>1, <1>2, FundingSettles
<1> QED
  BY <1>1, <1>2, <1>3, <1>4 DEF c, carry

LEMMA LiquidatePositionStep ==
  ASSUME VaultsTypeOK, TradingTypeOK, BookSound, Mirrored,
         NEW p \in Positions, NEW quote \in Quotes, LiquidatePosition(p, quote)
  PROVE  IsTrade(p)
<1> DEFINE u      == Owner[p]
           m      == MarketOf[p]
           c      == AfterCarry(pos[p], m)
           carry  == CarryPaid(pos[p], m)
           r      == AfterFunding(c, m)
           health == Assess(r, m, quote)
           l      == Liquidation(r, carry, health)
           alloc  == LiquidationAlloc(l)
           paid   == FundingPaid(c, m)
<1>1. u \in Users /\ borrowIndex[m] \in Nat
  BY PositionTyped
<1>2. /\ m \in Markets /\ carry \in Nat /\ r \in Position
      /\ fundingBalance[m] + paid \in Nat /\ paid \in Int
      /\ r.collateral = pos[p].collateral - carry - paid
  BY CostsSettle
<1>3. health.notional \in Nat /\ health.liquidationEquity \in Int
  <2>1. CanExecute(m, r.size, Resolve(r.direction, "Close"), quote)
    BY DEF LiquidatePosition
  <2> HIDE DEF r
  <2> QED
    BY <1>2, <2>1, AssessInt
<1>4. l.givenUp >= 0
  BY DEF LiquidatePosition
<1> HIDE DEF health, r, carry, paid, c
<1>5. /\ l.credit \in Nat /\ l.out \in Nat /\ l.carryFee \in Nat /\ l.insuranceFee \in Nat
      /\ l.treasuryFee \in Nat /\ l.poolIn \in Nat /\ l.reward \in Nat
      /\ l.badDebt \in Nat /\ l.draw \in Nat /\ l.draw <= l.badDebt
      /\ l.out + l.carryFee + l.insuranceFee + l.treasuryFee + l.poolIn
           = r.collateral + carry - l.credit
  BY <1>2, <1>3, <1>4, LiquidationTyped
<1> HIDE DEF l
<1>6. /\ alloc \in Allocation
      /\ AllocTotal(alloc) = l.carryFee + l.treasuryFee + l.insuranceFee
  BY <1>5, LiquidationAllocTyped
<1> HIDE DEF alloc
<1>7. /\ fundingBalance' = [fundingBalance EXCEPT ![m] = @ + paid]
      /\ SettleWith(alloc, -l.poolIn, u \in Referred, l.out, l.reward, l.draw)
      /\ pendingAdl' = [pendingAdl EXCEPT ![m] = @ + (l.badDebt - l.draw)]
      /\ totalBadDebt' = totalBadDebt + l.badDebt
      /\ RemoveOpenInterest(m, r.direction, r.entryNotional, r.size)
      /\ openCount' = [openCount EXCEPT ![m] = SatSub(@, 1)]
      /\ openPositions' = [openPositions EXCEPT ![u] = SatSub(@, 1)]
      /\ pos' = [pos EXCEPT ![p] = NoPosition]
      /\ free' = [free EXCEPT ![u] = @ + l.credit]
      /\ UNCHANGED <<settleFrame, referralFeesGenerated, indexVars, status>>
  BY DEF LiquidatePosition, CloseOut, Uncovered, alloc, l, health, r, carry, paid, c
<1> DEFINE poolPnl == -l.poolIn
<1>8. poolPnl \in Int
  BY <1>5
<1>9. l.credit + paid + NoPosition.collateral - pos[p].collateral
        = poolPnl - AllocTotal(alloc) - l.out
  <2>1. pos[p].collateral \in Nat /\ r.collateral \in Nat
    BY <1>2, PositionTyped DEF Position
  <2>2. NoPosition.collateral = 0
    BY EmptyPosition
  <2>3. l.credit + paid + 0 - pos[p].collateral
          = poolPnl - (l.carryFee + l.treasuryFee + l.insuranceFee) - l.out
    <3> DEFINE held   == pos[p].collateral
               margin == r.collateral
               credit == l.credit
               out    == l.out
               carryC == l.carryFee
               insC   == l.insuranceFee
               treC   == l.treasuryFee
               pool   == l.poolIn
    <3>1. /\ held \in Int /\ margin \in Int /\ carry \in Int /\ paid \in Int
          /\ credit \in Int /\ out \in Int /\ carryC \in Int /\ insC \in Int
          /\ treC \in Int /\ pool \in Int
      BY <1>2, <1>5, <2>1
    <3>2. margin = held - carry - paid /\ poolPnl = -pool
      BY <1>2
    <3>3. out + carryC + insC + treC + pool = margin + carry - credit
      BY <1>5
    <3> HIDE DEF poolPnl, held, margin, credit, out, carryC, insC, treC, pool
    <3>4. credit + paid + 0 - held = poolPnl - (carryC + treC + insC) - out
      BY <3>1, <3>2, <3>3
    <3> QED
      BY <3>4 DEF held, credit, out, carryC, insC, treC
  <2> QED
    BY <1>6, <2>2, <2>3
<1>10. TradeShape(p, NoPosition, alloc, poolPnl, l.out, l.reward, l.draw, l.badDebt,
                  l.credit, paid)
  <2>1. oi' \in [Markets -> [Directions -> Nat]] /\ baseOi' \in [Markets -> [Directions -> Nat]]
    <3>1. r.direction \in Directions /\ r.entryNotional \in Nat /\ r.size \in Nat
      BY <1>2 DEF Position
    <3> QED
      BY <3>1, <1>2, <1>7, RemoveOpenInterestTyped
  <2>2. openCount' \in [Markets -> Nat] /\ openPositions' \in [Users -> Nat]
    BY <1>1, <1>2, <1>7 DEF TradingTypeOK, SatSub, Greater
  <2>3. pendingAdl' \in [Markets -> Nat] /\ Queues(m, l.draw, l.badDebt)
    <3> DEFINE queued == l.badDebt - l.draw
    <3>1. queued \in Nat /\ queued + l.draw <= l.badDebt
      BY <1>5
    <3>2. pendingAdl \in [Markets -> Nat] /\ pendingAdl' = [pendingAdl EXCEPT ![m] = @ + queued]
      BY <1>7 DEF TradingTypeOK
    <3> HIDE DEF queued
    <3>3. pendingAdl[m] + queued \in Nat /\ queued \in Int
      BY <1>2, <3>1, <3>2
    <3> QED
      BY <1>2, <3>1, <3>2, <3>3 DEF Queues
  <2>4. /\ free[u] + l.credit \in Nat
        /\ referralFeesGenerated' \in [Users -> Nat] /\ Earns(u, alloc)
    BY <1>1, <1>5, <1>6, <1>7, NothingEarned DEF VaultsTypeOK
  <2>5. NoPosition.borrowEntry <= borrowIndex[MarketOf[p]] /\ Secured(NoPosition)
    BY <1>1, EmptyPosition
  <2> HIDE DEF poolPnl
  <2>6. SettleWith(alloc, poolPnl, u \in Referred, l.out, l.reward, l.draw)
    BY <1>7 DEF poolPnl
  <2> QED
    BY <1>2, <1>7, <1>9, <2>1, <2>2, <2>3, <2>4, <2>5, <2>6 DEF TradeShape
<1> HIDE DEF poolPnl
<1>11. NoPosition \in Position /\ l.credit \in Int
  BY <1>5, EmptyPosition
<1> QED
  BY <1>2, <1>5, <1>6, <1>8, <1>10, <1>11 DEF IsTrade

LEMMA AutoDeleverageStep ==
  ASSUME VaultsTypeOK, TradingTypeOK, BookSound, Mirrored,
         NEW p \in Positions, NEW quote \in Quotes, AutoDeleverage(p, quote)
  PROVE  IsTrade(p)
<1> DEFINE u          == Owner[p]
           m          == MarketOf[p]
           c          == AfterCarry(pos[p], m)
           carry      == CarryPaid(pos[p], m)
           r          == AfterFunding(c, m)
           profit     == Assess(r, m, quote).upnl
           socialised == Lesser(pendingAdl[m], profit)
           paid       == profit - socialised
           alloc      == SplitFee(carry, FeeSplit)
           funding    == FundingPaid(c, m)
<1>1. u \in Users /\ borrowIndex[m] \in Nat
  BY PositionTyped
<1>2. /\ m \in Markets /\ carry \in Nat /\ r \in Position
      /\ fundingBalance[m] + funding \in Nat /\ funding \in Int
      /\ r.collateral = pos[p].collateral - carry - funding
  BY CostsSettle
<1>3. profit \in Int
  <2>1. CanExecute(m, r.size, Resolve(r.direction, "Close"), quote)
    BY DEF AutoDeleverage
  <2> HIDE DEF r
  <2> QED
    BY <1>2, <2>1, AssessInt
<1>4. profit > 0
  BY DEF AutoDeleverage
<1> HIDE DEF profit, r, carry, funding, c
<1>5. /\ socialised \in Nat /\ socialised <= pendingAdl[m] /\ pendingAdl[m] \in Nat
      /\ paid \in Nat
  BY <1>2, <1>3, <1>4 DEF Lesser, TradingTypeOK
<1> HIDE DEF paid, socialised
<1>6. alloc \in Allocation /\ AllocTotal(alloc) = carry
  BY <1>2, SplitFeeExact, SplitAssumption DEF Allocation
<1> HIDE DEF alloc
<1>7. /\ fundingBalance' = [fundingBalance EXCEPT ![m] = @ + funding]
      /\ SettleWith(alloc, paid, u \in Referred, 0, 0, 0)
      /\ pendingAdl' = [pendingAdl EXCEPT ![m] = @ - socialised]
      /\ RemoveOpenInterest(m, r.direction, r.entryNotional, r.size)
      /\ openCount' = [openCount EXCEPT ![m] = SatSub(@, 1)]
      /\ openPositions' = [openPositions EXCEPT ![u] = SatSub(@, 1)]
      /\ pos' = [pos EXCEPT ![p] = NoPosition]
      /\ free' = [free EXCEPT ![u] = @ + r.collateral + paid]
      /\ UNCHANGED <<settleFrame, totalBadDebt, referralFeesGenerated, indexVars, status>>
  BY DEF AutoDeleverage, Settle, CloseOut, Socialised, alloc, paid, socialised, profit, r, carry, funding, c
<1> DEFINE freed == r.collateral + paid
<1>8. /\ r.direction \in Directions /\ r.entryNotional \in Nat /\ r.size \in Nat
      /\ r.collateral \in Nat /\ pos[p].collateral \in Nat
  BY <1>2, PositionTyped DEF Position
<1>9. /\ freed \in Nat /\ free[u] + freed \in Nat
      /\ free' = [free EXCEPT ![u] = @ + freed]
  <2>1. free[u] \in Nat
    BY <1>1 DEF VaultsTypeOK
  <2>2. free[u] + r.collateral + paid = free[u] + freed
    BY <1>5, <1>8, <2>1
  <2>3. freed \in Nat
    BY <1>5, <1>8
  <2>4. free' = [free EXCEPT ![u] = free[u] + r.collateral + paid]
    BY <1>7
  <2> HIDE DEF freed
  <2>5. free[u] + freed \in Nat
    BY <2>1, <2>3
  <2>6. free' = [free EXCEPT ![u] = free[u] + freed]
    BY <2>2, <2>4
  <2> QED
    BY <2>3, <2>5, <2>6
<1>10. freed + funding + NoPosition.collateral - pos[p].collateral
         = paid - AllocTotal(alloc) - 0
  <2>1. NoPosition.collateral = 0
    BY EmptyPosition
  <2> QED
    BY <1>2, <1>5, <1>6, <1>8, <2>1
<1> HIDE DEF freed
<1>11. TradeShape(p, NoPosition, alloc, paid, 0, 0, 0, 0, freed, funding)
  <2>1. oi' \in [Markets -> [Directions -> Nat]] /\ baseOi' \in [Markets -> [Directions -> Nat]]
    BY <1>8, <1>2, <1>7, RemoveOpenInterestTyped
  <2>2. openCount' \in [Markets -> Nat] /\ openPositions' \in [Users -> Nat]
    BY <1>1, <1>2, <1>7 DEF TradingTypeOK, SatSub, Greater
  <2>3. pendingAdl' \in [Markets -> Nat] /\ Queues(m, 0, 0)
    <3> DEFINE queued == -socialised
    <3>1. /\ queued \in Int /\ queued + 0 <= 0
          /\ pendingAdl[m] - socialised = pendingAdl[m] + queued
          /\ pendingAdl[m] + queued \in Nat
      BY <1>5
    <3>2. pendingAdl \in [Markets -> Nat] /\ pendingAdl' = [pendingAdl EXCEPT ![m] = @ + queued]
      BY <1>7, <3>1 DEF TradingTypeOK
    <3> HIDE DEF queued
    <3> QED
      BY <1>2, <3>1, <3>2 DEF Queues
  <2>4. referralFeesGenerated' \in [Users -> Nat] /\ Earns(u, alloc)
    BY <1>1, <1>6, <1>7, NothingEarned DEF VaultsTypeOK
  <2>5. totalBadDebt' = totalBadDebt + 0
    BY <1>7 DEF VaultsTypeOK
  <2>6. NoPosition.borrowEntry <= borrowIndex[MarketOf[p]] /\ Secured(NoPosition)
    BY <1>1, EmptyPosition
  <2> QED
    BY <1>2, <1>7, <1>9, <1>10, <2>1, <2>2, <2>3, <2>4, <2>5, <2>6 DEF TradeShape
<1>12. NoPosition \in Position /\ 0 \in Nat /\ paid \in Int /\ freed \in Int
  BY <1>5, <1>9, EmptyPosition
<1> QED
  BY <1>2, <1>6, <1>11, <1>12 DEF IsTrade

(* The carry index never runs back, and the funding indices stay integers. *)
LEMMA CrankFundingStep ==
  ASSUME VaultsTypeOK, TradingTypeOK, BookSound, Mirrored,
         NEW m \in Markets, CrankFunding(m)
  PROVE  VaultsTypeOK' /\ TradingTypeOK' /\ BookSound' /\ Mirrored'
<1> DEFINE base   == baseOi[m]
           rate   == FundingRate(base["Long"], base["Short"],
                                 Params.fundingK, Params.fundingCap)
           update == FundingIndexUpdate(base["Long"], base["Short"], rate, 1, 1)
           carry  == AdvanceCarryIndex(borrowIndex[m], Params.carryRate, 1, 1)
<1>1. /\ base["Long"] \in Nat /\ base["Short"] \in Nat /\ borrowIndex[m] \in Nat
      /\ Params.fundingK \in Nat /\ Params.fundingCap \in Nat /\ Params.carryRate \in Nat
      /\ RatePrecision \in Nat \ {0}
  BY ParamsAssumption, ScalesAssumption DEF TradingTypeOK, ParamNames, Directions
<1> HIDE DEF base
<1>2. carry \in Nat /\ carry >= borrowIndex[m]
  <2>1. 1 \in Nat \ {0} /\ 1 \in Nat
    OBVIOUS
  <2>2. MulDivFloor(Params.carryRate, 1, 1) \in Nat
    BY <1>1, <2>1, FloorNat
  <2> QED
    BY <1>1, <2>2 DEF AdvanceCarryIndex
<1>3. rate \in Int
  <2>1. CASE base["Long"] <= 0 \/ base["Short"] <= 0
    BY <2>1 DEF FundingRate
  <2>2. CASE ~ (base["Long"] <= 0 \/ base["Short"] <= 0)
    <3> DEFINE gap    == base["Long"] - base["Short"]
               total  == base["Long"] + base["Short"]
               ratio  == MulDivFloor(gap, RatePrecision, total)
               scaled == MulDivFloor(ratio, Params.fundingK, RatePrecision)
    <3>1. gap \in Int /\ total \in Nat \ {0} /\ RatePrecision \in Int /\ Params.fundingK \in Int
      BY <1>1, <2>2
    <3>2. ratio \in Int
      <4> HIDE DEF gap, total
      <4> QED
        BY <3>1, FloorTyped
    <3>3. scaled \in Int
      <4> HIDE DEF ratio
      <4> QED
        BY <3>1, <3>2, <1>1, FloorTyped
    <3>4. rate = Greater(-Params.fundingCap, Lesser(scaled, Params.fundingCap))
      BY <2>2 DEF FundingRate
    <3> HIDE DEF scaled
    <3> QED
      BY <1>1, <3>3, <3>4 DEF Greater, Lesser
  <2> QED
    BY <2>1, <2>2
<1> HIDE DEF rate
<1>4. \A d \in Directions : update[d] \in Int
  <2>1. CASE rate = 0 \/ base["Long"] <= 0 \/ base["Short"] <= 0
    BY <2>1 DEF FundingIndexUpdate
  <2>2. CASE ~ (rate = 0 \/ base["Long"] <= 0 \/ base["Short"] <= 0)
    <3> DEFINE period == MulDivCeil(Abs(rate), 1, 1)
               payer  == IF rate > 0 THEN "Long" ELSE "Short"
               side   == [d \in Directions |-> IF d = "Long" THEN base["Long"] ELSE base["Short"]]
               other  == CHOOSE d \in Directions : d # payer
               share  == MulDivFloor(period, side[payer], side[other])
    <3>1. Abs(rate) \in Int /\ 1 \in Int /\ 1 \in Nat \ {0}
      BY <1>3 DEF Abs
    <3>2. period \in Int
      BY <3>1, CeilInt
    <3>3. payer \in Directions /\ other \in Directions
      <4>1. \E d \in Directions : d # payer
        BY DEF Directions
      <4> QED
        BY <4>1 DEF Directions
    <3>4. side[payer] \in Int /\ side[other] \in Nat \ {0}
      <4> HIDE DEF payer, other
      <4> QED
        BY <1>1, <2>2, <3>3
    <3>5. share \in Int
      <4> HIDE DEF period, side, payer, other
      <4> QED
        BY <3>2, <3>4, FloorTyped
    <3>6. update = [d \in Directions |-> IF d = payer THEN period ELSE -share]
      BY <2>2 DEF FundingIndexUpdate
    <3> HIDE DEF period, share, payer, side, other
    <3> QED
      BY <3>2, <3>5, <3>6
  <2> QED
    BY <2>1, <2>2
<1> HIDE DEF update, carry
<1>5. /\ borrowIndex' = [borrowIndex EXCEPT ![m] = carry]
      /\ fundingIndex' = [fundingIndex EXCEPT ![m] =
                            [d \in Directions |-> fundingIndex[m][d] + update[d]]]
      /\ UNCHANGED <<vaultsVars, pos, bookVars, fundingBalance, pendingAdl, status>>
  BY DEF CrankFunding, carry, update, rate, base
<1>6. TradingTypeOK'
  <2>1. [d \in Directions |-> fundingIndex[m][d] + update[d]] \in [Directions -> Int]
    BY <1>4 DEF TradingTypeOK
  <2> QED
    BY <1>2, <1>5, <2>1 DEF TradingTypeOK, bookVars
<1>7. BookSound'
  <2> SUFFICES ASSUME NEW p \in Positions
               PROVE  /\ pos'[p].borrowEntry <= borrowIndex'[MarketOf[p]]
                      /\ Secured(pos'[p])
    BY DEF BookSound
  <2>1. /\ MarketOf[p] \in Markets /\ pos[p].borrowEntry \in Nat
        /\ borrowIndex[MarketOf[p]] \in Nat
        /\ pos[p].borrowEntry <= borrowIndex[MarketOf[p]]
        /\ Secured(pos[p])
    BY PositionTyped DEF Position
  <2> QED
    BY <1>1, <1>2, <1>5, <2>1 DEF TradingTypeOK
<1>8. VaultsTypeOK' /\ Mirrored'
  BY <1>5, VaultsFrame
<1> QED
  BY <1>6, <1>7, <1>8

LEMMA StatusStep ==
  ASSUME VaultsTypeOK, TradingTypeOK, BookSound, Mirrored,
         NEW m \in Markets,
         HaltMarket(m) \/ \E s \in MarketStatuses : SetMarketStatus(m, s)
  PROVE  VaultsTypeOK' /\ TradingTypeOK' /\ BookSound' /\ Mirrored'
<1>1. PICK s \in MarketStatus :
        /\ status' = [status EXCEPT ![m] = s]
        /\ UNCHANGED <<vaultsVars, pos, bookVars, indexVars, fundingBalance, pendingAdl>>
  BY BookAssumption DEF HaltMarket, SetMarketStatus, MarketStatus
<1>2. TradingTypeOK' /\ BookSound'
  BY <1>1 DEF TradingTypeOK, BookSound, bookVars, indexVars
<1> QED
  BY <1>1, <1>2, VaultsFrame

-----------------------------------------------------------------------------
(* The instructions of LpPool. *)

LEMMA AddLiquidityStep ==
  ASSUME VaultsTypeOK, LpTypeOK, Mirrored,
         NEW q \in Providers, NEW amount \in LpDeposits, AddLiquidity(q, amount)
  PROVE  VaultsTypeOK' /\ LpTypeOK' /\ Mirrored'
<1> DEFINE minted == SharesForDeposit(amount, aum, lpTokenSupply)
<1>1. amount \in Nat
  BY LpAssumption
<1>2. minted \in Nat
  <2>1. aum # 0 => MulDivFloor(amount, lpTokenSupply, aum) \in Nat
    <3>1. ASSUME aum # 0 PROVE aum \in Nat \ {0} /\ lpTokenSupply \in Nat
      BY <3>1 DEF VaultsTypeOK, LpTypeOK
    <3> QED
      BY <1>1, <3>1, FloorNat
  <2> QED
    BY <1>1, <2>1 DEF SharesForDeposit
<1>3. /\ providerWallet[q] >= amount
      /\ providerWallet' = [providerWallet EXCEPT ![q] = @ - amount]
      /\ lpVault' = lpVault + amount
      /\ aum' = aum + amount
      /\ lpTokenSupply' = lpTokenSupply + minted
      /\ shares' = [shares EXCEPT ![q] = @ + minted]
      /\ UNCHANGED <<lpFrame, feeVault, request, highWaterMark, pendingWithdrawalShares>>
  BY DEF AddLiquidity
<1> HIDE DEF minted
<1>4. LpTypeOK'
  BY <1>2, <1>3 DEF LpTypeOK
<1>5. VaultsTypeOK' /\ Mirrored'
  BY <1>1, <1>3 DEF VaultsTypeOK, Mirrored, PoolBacked, InsuranceBacked, lpFrame, userVars,
     debtVars, payoutVars
<1> QED
  BY <1>4, <1>5

LEMMA NavTyped ==
  ASSUME NEW assets \in Nat, NEW supply \in Nat
  PROVE  NavPerShare(assets, supply) \in Nat
<1>1. QuotePrecision \in Nat \ {0}
  BY ScalesAssumption
<1>2. supply # 0 => MulDivFloor(assets, QuotePrecision, supply) \in Nat
  <2>1. supply # 0 => supply \in Nat \ {0}
    OBVIOUS
  <2> QED
    BY <1>1, <2>1, FloorNat
<1> QED
  BY <1>1, <1>2 DEF NavPerShare

LEMMA PerformanceFeeTyped ==
  ASSUME NEW n \in Nat, NEW nav \in Nat, NEW mark \in Nat, NEW rate \in Nat
  PROVE  PerformanceFee(n, nav, mark, rate) \in Nat
<1> DEFINE gain   == nav - mark
           profit == MulDivFloor(n, gain, QuotePrecision)
<1>1. QuotePrecision \in Nat \ {0} /\ Bps \in Nat \ {0}
  BY ScalesAssumption
<1>2. ASSUME nav > mark PROVE MulDivCeil(profit, rate, Bps) \in Nat
  <2>1. gain \in Nat
    BY <1>2
  <2> HIDE DEF gain
  <2>2. profit \in Nat
    BY <1>1, <2>1, FloorNat
  <2> HIDE DEF profit
  <2> QED
    BY <1>1, <2>2, CeilNat
<1> QED
  BY <1>2 DEF PerformanceFee

(* What an exit takes from the LP vault goes to the provider and, as its   *)
(* performance fee, to the fee vault.                                      *)
LEMMA RemovalFlows ==
  ASSUME VaultsTypeOK, LpTypeOK, NEW q \in Providers, RemoveLiquidity(q)
  PROVE  \E payout \in Nat, perf \in Nat :
            /\ lpVault >= payout + perf
            /\ aum >= payout + perf
            /\ providerWallet' = [providerWallet EXCEPT ![q] = @ + payout]
            /\ lpVault' = lpVault - payout - perf
            /\ feeVault' = feeVault + perf
            /\ aum' = aum - payout - perf
            /\ UNCHANGED lpFrame
<1> DEFINE n      == request[q].shares
           nav    == NavPerShare(aum, lpTokenSupply)
           gross  == UsdcForShares(n, aum, lpTokenSupply)
           perf   == PerformanceFee(n, nav, highWaterMark, PerformanceBps)
           exit   == IF n = lpTokenSupply THEN 0 ELSE ExitFee(gross, ExitFeeBps)
           payout == gross - perf - exit
<1>1. /\ n \in Nat /\ aum \in Nat /\ lpTokenSupply \in Nat /\ highWaterMark \in Nat
      /\ Bps \in Nat \ {0} /\ ExitFeeBps \in Nat /\ PerformanceBps \in Nat
  BY LpAssumption, ScalesAssumption DEF VaultsTypeOK, LpTypeOK
<1> HIDE DEF n
<1>2. nav \in Nat
  BY <1>1, NavTyped
<1> HIDE DEF nav
<1>3. perf \in Nat
  BY <1>1, <1>2, PerformanceFeeTyped
<1>4. gross \in Nat
  <2>1. ASSUME lpTokenSupply # 0 PROVE MulDivFloor(n, aum, lpTokenSupply) \in Nat
    <3>1. lpTokenSupply \in Nat \ {0}
      BY <1>1, <2>1
    <3> QED
      BY <1>1, <3>1, FloorNat
  <2> QED
    BY <2>1 DEF UsdcForShares
<1> HIDE DEF perf, gross
<1>5. exit \in Int
  <2>1. MulDivCeil(gross, ExitFeeBps, Bps) \in Nat
    BY <1>1, <1>4, CeilNat
  <2> QED
    BY <2>1 DEF ExitFee
<1> HIDE DEF exit
<1>6. payout \in Int
  BY <1>3, <1>4, <1>5
<1>7. /\ payout >= 0 /\ aum >= payout + perf
      /\ lpVault >= payout + perf
      /\ providerWallet' = [providerWallet EXCEPT ![q] = @ + payout]
      /\ lpVault' = lpVault - payout - perf
      /\ feeVault' = feeVault + perf
      /\ aum' = aum - payout - perf
      /\ UNCHANGED lpFrame
  BY DEF RemoveLiquidity, ExitGross, ExitPerformance, ExitCharge, ExitPayout,
         Payable, n, nav, gross, perf, exit
<1> HIDE DEF payout
<1>8. payout \in Nat /\ aum >= payout + perf
  BY <1>1, <1>3, <1>6, <1>7
<1> QED
  BY <1>3, <1>7, <1>8

LEMMA RemoveLiquidityStep ==
  ASSUME VaultsTypeOK, LpTypeOK, Mirrored, NEW q \in Providers, RemoveLiquidity(q)
  PROVE  VaultsTypeOK' /\ LpTypeOK' /\ Mirrored'
<1>1. VaultsTypeOK' /\ Mirrored'
  <2>1. PICK payout \in Nat, perf \in Nat :
          /\ lpVault >= payout + perf
          /\ aum >= payout + perf
          /\ providerWallet' = [providerWallet EXCEPT ![q] = @ + payout]
          /\ lpVault' = lpVault - payout - perf
          /\ feeVault' = feeVault + perf
          /\ aum' = aum - payout - perf
          /\ UNCHANGED lpFrame
    BY RemovalFlows
  <2> QED
    BY <2>1 DEF VaultsTypeOK, Mirrored, PoolBacked, InsuranceBacked,
       lpFrame, userVars, debtVars, payoutVars
<1>2. LpTypeOK'
  <2> DEFINE n      == request[q].shares
             supply == lpTokenSupply - n
             nav    == NavPerShare(aum', supply)
  <2>1. /\ n \in Nat /\ lpTokenSupply \in Nat /\ highWaterMark \in Nat
        /\ shares[q] \in Nat /\ aum' \in Nat
    BY <1>1 DEF VaultsTypeOK, LpTypeOK
  <2>2. /\ shares[q] >= n /\ n <= lpTokenSupply
        /\ lpTokenSupply' = supply
        /\ shares' = [shares EXCEPT ![q] = @ - n]
        /\ pendingWithdrawalShares' = SatSub(pendingWithdrawalShares, n)
        /\ highWaterMark' = Greater(highWaterMark, nav)
        /\ request' = [request EXCEPT ![q] = NoRequest]
    BY DEF RemoveLiquidity, Payable
  <2> HIDE DEF n
  <2>3. supply \in Nat
    BY <2>1, <2>2
  <2> HIDE DEF supply
  <2>4. nav \in Nat
    BY <2>1, <2>3, NavTyped
  <2> HIDE DEF nav
  <2>5. NoRequest \in [shares : Nat, matured : BOOLEAN]
    BY DEF NoRequest
  <2> QED
    BY <2>1, <2>2, <2>3, <2>4, <2>5 DEF LpTypeOK, SatSub, Greater
<1> QED
  BY <1>1, <1>2

LEMMA LpStep ==
  ASSUME VaultsTypeOK, LpTypeOK, Mirrored, LpNext
  PROVE  VaultsTypeOK' /\ LpTypeOK' /\ Mirrored'
<1>1. PICK q \in Providers :
        \/ \E amount \in LpDeposits : AddLiquidity(q, amount)
        \/ \E amount \in LpRequests : RequestRemoveLiquidity(q, amount)
        \/ CooldownElapses(q)
        \/ CancelRemoveLiquidity(q)
        \/ RemoveLiquidity(q)
        \/ \E to \in Providers, amount \in LpRequests : TransferShares(q, to, amount)
  BY DEF LpNext
<1>2. ASSUME NEW amount \in LpRequests, RequestRemoveLiquidity(q, amount)
      PROVE  VaultsTypeOK' /\ LpTypeOK' /\ Mirrored'
  <2>1. amount \in Nat
    BY LpAssumption
  <2>2. LpTypeOK'
    BY <1>2, <2>1 DEF RequestRemoveLiquidity, LpTypeOK
  <2> QED
    BY <1>2, <2>2, VaultsFrame DEF RequestRemoveLiquidity
<1>3. ASSUME CooldownElapses(q)
      PROVE  VaultsTypeOK' /\ LpTypeOK' /\ Mirrored'
  <2>1. LpTypeOK'
    BY <1>3 DEF CooldownElapses, LpTypeOK
  <2> QED
    BY <1>3, <2>1, VaultsFrame DEF CooldownElapses
<1>4. ASSUME CancelRemoveLiquidity(q)
      PROVE  VaultsTypeOK' /\ LpTypeOK' /\ Mirrored'
  <2>1. LpTypeOK'
    BY <1>4 DEF CancelRemoveLiquidity, LpTypeOK, NoRequest, SatSub, Greater
  <2> QED
    BY <1>4, <2>1, VaultsFrame DEF CancelRemoveLiquidity
<1>5. ASSUME NEW to \in Providers, NEW amount \in LpRequests, TransferShares(q, to, amount)
      PROVE  VaultsTypeOK' /\ LpTypeOK' /\ Mirrored'
  <2>1. amount \in Nat /\ shares[q] \in Nat /\ shares[to] \in Nat
    BY LpAssumption DEF LpTypeOK
  <2>2. LpTypeOK'
    BY <1>5, <2>1 DEF TransferShares, LpTypeOK
  <2> QED
    BY <1>5, <2>2, VaultsFrame DEF TransferShares
<1> QED
  BY <1>1, <1>2, <1>3, <1>4, <1>5, AddLiquidityStep, RemoveLiquidityStep

-----------------------------------------------------------------------------
LEMMA TraderStep ==
  ASSUME VaultsTypeOK, TradingTypeOK, BookSound, Mirrored, TraderNext
  PROVE  VaultsTypeOK' /\ TradingTypeOK' /\ BookSound' /\ Mirrored'
<1>1. PICK p \in Positions :
        \/ \E d \in Directions, size \in Sizes, c \in Margins, q \in Quotes, t \in TierRates :
              OpenPosition(p, d, size, c, q, t)
        \/ \E size \in Sizes, c \in Margins \cup {0}, q \in Quotes, t \in TierRates :
              IncreasePosition(p, size, c, q, t)
        \/ \E delta \in 1..pos[p].size, q \in Quotes, t \in TierRates :
              Reduce(p, delta, q, t)
        \/ \E a \in Margins : AddPositionCollateral(p, a)
        \/ \E a \in Margins, q \in Quotes : RemovePositionCollateral(p, a, q)
  BY DEF TraderNext
<1>2. CASE \E d \in Directions, size \in Sizes, c \in Margins, q \in Quotes, t \in TierRates :
              OpenPosition(p, d, size, c, q, t)
  BY <1>2, OpenPositionStep, TradeStep
<1>3. CASE \E size \in Sizes, c \in Margins \cup {0}, q \in Quotes, t \in TierRates :
              IncreasePosition(p, size, c, q, t)
  BY <1>3, IncreasePositionStep, TradeStep
<1>4. CASE \E delta \in 1..pos[p].size, q \in Quotes, t \in TierRates : Reduce(p, delta, q, t)
  BY <1>4, ReduceStep, TradeStep
<1>5. CASE \E a \in Margins : AddPositionCollateral(p, a)
  BY <1>5, AddMarginStep
<1>6. CASE \E a \in Margins, q \in Quotes : RemovePositionCollateral(p, a, q)
  BY <1>6, RemoveMarginStep
<1> QED
  BY <1>1, <1>2, <1>3, <1>4, <1>5, <1>6

LEMMA KeeperStep ==
  ASSUME VaultsTypeOK, TradingTypeOK, BookSound, Mirrored, KeeperNext
  PROVE  VaultsTypeOK' /\ TradingTypeOK' /\ BookSound' /\ Mirrored'
<1>1. CASE \E p \in Positions, q \in Quotes : LiquidatePosition(p, q)
  BY <1>1, LiquidatePositionStep, TradeStep
<1>2. CASE \E p \in Positions, q \in Quotes : AutoDeleverage(p, q)
  BY <1>2, AutoDeleverageStep, TradeStep
<1>3. CASE \E m \in Markets : CrankFunding(m)
  BY <1>3, CrankFundingStep
<1>4. CASE \E m \in Markets : HaltMarket(m) \/ \E s \in MarketStatuses : SetMarketStatus(m, s)
  BY <1>4, StatusStep
<1> QED
  BY <1>1, <1>2, <1>3, <1>4 DEF KeeperNext

LEMMA StepIInv == IInv /\ [Next]_vars => IInv'
<1> SUFFICES ASSUME IInv, [Next]_vars PROVE IInv'
  OBVIOUS
<1>1. VaultsTypeOK /\ TradingTypeOK /\ LpTypeOK /\ BookSound /\ Mirrored
  BY DEF IInv, TypeOK
<1>2. CASE VaultsNext /\ UNCHANGED <<tradingVars, lpVars>>
  BY <1>1, <1>2, VaultsStep, BookFrame, LpFrame DEF IInv, TypeOK
<1>3. CASE TraderNext /\ UNCHANGED lpVars
  BY <1>1, <1>3, TraderStep, LpFrame DEF IInv, TypeOK
<1>4. CASE KeeperNext /\ UNCHANGED lpVars
  BY <1>1, <1>4, KeeperStep, LpFrame DEF IInv, TypeOK
<1>5. CASE LpNext /\ UNCHANGED tradingVars
  BY <1>1, <1>5, LpStep, BookFrame DEF IInv, TypeOK
<1>6. CASE UNCHANGED vars
  BY <1>1, <1>6, VaultsFrame, BookFrame, LpFrame DEF IInv, TypeOK, vars
<1> QED
  BY <1>2, <1>3, <1>4, <1>5, <1>6 DEF Next

(* The strengthened invariant holds of every reachable state. *)
THEOREM SpecIInv == Spec => []IInv
<1> QED
  BY InitIInv, StepIInv, PTL DEF Spec

(* Every amount, counter and index of the program stays in its range: no   *)
(* sequence of trades, liquidations, LP flows and payouts makes a vault,   *)
(* an account, a position's margin or a side of the book negative.         *)
THEOREM TypeCorrect == Spec => []TypeOK
<1>1. IInv => TypeOK
  BY DEF IInv
<1> QED
  BY <1>1, SpecIInv, PTL

(* I5: no position holds size without collateral or notional, and an       *)
(* account without size holds neither.                                     *)
THEOREM PositionsAlwaysSecured == Spec => []NoUnsecuredPosition
<1>1. IInv => NoUnsecuredPosition
  <2> SUFFICES ASSUME IInv, NEW p \in Positions
               PROVE  /\ IsOpen(p) <=> pos[p].collateral > 0
                      /\ IsOpen(p) => pos[p].entryNotional > 0
    BY DEF NoUnsecuredPosition
  <2>1. Secured(pos[p])
    BY DEF IInv, BookSound
  <2> QED
    BY <2>1, EmptyPosition DEF Secured, IsOpen
<1> QED
  BY <1>1, SpecIInv, PTL

(* I2 and I6: the pool's assets are the LP vault's balance, and the         *)
(* insurance fund's accounting is its vault's.                              *)
THEOREM FundsAlwaysBacked == Spec => []FundsBacked
<1>1. IInv => FundsBacked
  BY DEF IInv, Mirrored, FundsBacked
<1> QED
  BY <1>1, SpecIInv, PTL

-----------------------------------------------------------------------------
(* What a step may never do. *)

(* Deposits: x buys m of the s shares there are of assets a. *)
LEMMA DepositRatio ==
  ASSUME NEW a \in Nat, NEW s \in Nat, NEW x \in Nat, NEW m \in Nat, a * m <= x * s
  PROVE  (a + x) * s >= a * (s + m)
<1>1. (a + x) * s = a * s + x * s /\ a * (s + m) = a * s + a * m
  OBVIOUS
<1>2. a * s \in Int /\ x * s \in Int /\ a * m \in Int
  OBVIOUS
<1> QED
  BY <1>1, <1>2

(* Exits: n of the s shares are worth g, of which at most g leaves. *)
LEMMA ExitRatio ==
  ASSUME NEW a \in Nat, NEW s \in Nat, NEW n \in Nat, NEW g \in Nat, NEW x \in Int,
         x <= g, s * g <= n * a
  PROVE  (a - x) * s >= a * (s - n)
<1>1. (a - x) * s = a * s - x * s /\ a * (s - n) = a * s - n * a
  OBVIOUS
<1>2. x * s <= s * g
  OBVIOUS
<1>3. a * s \in Int /\ x * s \in Int /\ n * a \in Int /\ s * g \in Int
  OBVIOUS
<1> QED
  BY <1>1, <1>2, <1>3

LEMMA DepositNeverDilutes ==
  ASSUME VaultsTypeOK, LpTypeOK, NEW q \in Providers, NEW amount \in LpDeposits,
         AddLiquidity(q, amount), lpTokenSupply > 0
  PROVE  aum' * lpTokenSupply >= aum * lpTokenSupply'
<1> DEFINE minted == SharesForDeposit(amount, aum, lpTokenSupply)
<1>1. amount \in Nat \ {0} /\ aum \in Nat /\ lpTokenSupply \in Nat /\ lpTokenSupply # 0
  BY LpAssumption DEF VaultsTypeOK, LpTypeOK
<1>2. minted \in Nat /\ aum * minted <= amount * lpTokenSupply
  <2>1. CASE aum = 0
    <3>1. minted = amount
      BY <1>1, <2>1 DEF SharesForDeposit
    <3>2. aum * amount = 0 /\ amount * lpTokenSupply >= 0
      BY <1>1, <2>1
    <3> QED
      BY <1>1, <3>1, <3>2
  <2>2. CASE aum # 0
    <3>1. minted = MulDivFloor(amount, lpTokenSupply, aum)
      BY <1>1, <2>2 DEF SharesForDeposit
    <3>2. aum \in Nat \ {0}
      BY <1>1, <2>2
    <3> QED
      BY <1>1, <3>1, <3>2, FloorShare
  <2> QED
    BY <2>1, <2>2
<1>3. aum' = aum + amount /\ lpTokenSupply' = lpTokenSupply + minted
  BY DEF AddLiquidity
<1> HIDE DEF minted
<1>4. (aum + amount) * lpTokenSupply >= aum * (lpTokenSupply + minted)
  BY <1>1, <1>2, DepositRatio
<1> QED
  BY <1>3, <1>4

LEMMA ExitNeverDilutes ==
  ASSUME VaultsTypeOK, LpTypeOK, NEW q \in Providers, RemoveLiquidity(q), lpTokenSupply > 0
  PROVE  aum' * lpTokenSupply >= aum * lpTokenSupply'
<1> DEFINE n      == request[q].shares
           nav    == NavPerShare(aum, lpTokenSupply)
           gross  == UsdcForShares(n, aum, lpTokenSupply)
           perf   == PerformanceFee(n, nav, highWaterMark, PerformanceBps)
           exit   == IF n = lpTokenSupply THEN 0 ELSE ExitFee(gross, ExitFeeBps)
           left   == gross - exit
<1>1. /\ n \in Nat /\ aum \in Nat /\ lpTokenSupply \in Nat \ {0} /\ highWaterMark \in Nat
      /\ Bps \in Nat \ {0} /\ ExitFeeBps \in Nat /\ PerformanceBps \in Nat
  BY LpAssumption, ScalesAssumption DEF VaultsTypeOK, LpTypeOK
<1>2. /\ aum' = aum - (gross - perf - exit) - perf
      /\ lpTokenSupply' = lpTokenSupply - n
  BY DEF RemoveLiquidity, ExitGross, ExitPerformance, ExitCharge, ExitPayout
<1> HIDE DEF n
<1>3. perf \in Nat
  <2>1. nav \in Nat
    BY <1>1, NavTyped
  <2> HIDE DEF nav
  <2> QED
    BY <1>1, <2>1, PerformanceFeeTyped
<1> HIDE DEF perf
<1>4. gross \in Nat /\ lpTokenSupply * gross <= n * aum
  <2>1. CASE n = 0
    <3>1. gross = 0
      BY <2>1 DEF UsdcForShares
    <3>2. lpTokenSupply * 0 = 0 /\ 0 * aum = 0
      BY <1>1
    <3> QED
      BY <2>1, <3>1, <3>2
  <2>2. CASE n # 0
    <3>1. gross = MulDivFloor(n, aum, lpTokenSupply)
      BY <1>1, <2>2 DEF UsdcForShares
    <3> QED
      BY <1>1, <3>1, FloorShare
  <2> QED
    BY <2>1, <2>2
<1> HIDE DEF gross
<1>5. exit \in Nat
  <2>1. MulDivCeil(gross, ExitFeeBps, Bps) \in Nat
    BY <1>1, <1>4, CeilNat
  <2> QED
    BY <2>1 DEF ExitFee
<1> HIDE DEF exit
<1>6. left \in Int /\ left <= gross
  BY <1>4, <1>5
<1>7. aum' = aum - left
  BY <1>1, <1>2, <1>3, <1>4, <1>5
<1> HIDE DEF left
<1>8. (aum - left) * lpTokenSupply >= aum * (lpTokenSupply - n)
  BY <1>1, <1>4, <1>6, ExitRatio
<1> QED
  BY <1>2, <1>7, <1>8

(* The NAV per share moves only with trading: a deposit and an exit leave  *)
(* those who stay with at least what they had.                             *)
THEOREM LpNeverDiluted == Spec => LpFlowsNeverDilute
<1>1. IInv /\ [Next]_vars =>
        [lpTokenSupply' # lpTokenSupply /\ lpTokenSupply > 0
           => aum' * lpTokenSupply >= aum * lpTokenSupply']_vars
  <2> SUFFICES ASSUME IInv, [Next]_vars, lpTokenSupply' # lpTokenSupply, lpTokenSupply > 0
               PROVE  aum' * lpTokenSupply >= aum * lpTokenSupply'
    OBVIOUS
  <2>1. VaultsTypeOK /\ LpTypeOK
    BY DEF IInv, TypeOK
  <2>2. LpNext
    BY DEF Next, vars, lpVars
  <2>3. PICK q \in Providers :
          (\E amount \in LpDeposits : AddLiquidity(q, amount)) \/ RemoveLiquidity(q)
    BY <2>2 DEF LpNext, RequestRemoveLiquidity, CooldownElapses, CancelRemoveLiquidity,
                TransferShares
  <2> QED
    BY <2>1, <2>3, DepositNeverDilutes, ExitNeverDilutes
<1> QED
  BY <1>1, InitIInv, StepIInv, PTL DEF Spec, LpFlowsNeverDilute

-----------------------------------------------------------------------------
(* A step that pays no liquidator and draws nothing from insurance. *)
PaysNone == totalLiquidatorPaid' = totalLiquidatorPaid
              /\ totalBadDebtCovered' = totalBadDebtCovered

LEMMA SettlePaysNone ==
  ASSUME VaultsTypeOK, NEW alloc, NEW pnl, NEW referred, Settle(alloc, pnl, referred)
  PROVE  PaysNone
<1>1. /\ totalLiquidatorPaid' = totalLiquidatorPaid + 0 + 0
      /\ totalBadDebtCovered' = totalBadDebtCovered + 0
  BY DEF Settle, SettleWith
<1> QED
  BY <1>1 DEF PaysNone, VaultsTypeOK

(* What a liquidation settles: every amount in it is one the trader, the   *)
(* insurance fund or nobody loses.                                         *)
LEMMA LiquidationFlows ==
  ASSUME VaultsTypeOK, TradingTypeOK, BookSound,
         NEW p \in Positions, NEW quote \in Quotes, LiquidatePosition(p, quote)
  PROVE  \E alloc \in Allocation, poolIn \in Nat, out \in Nat, reward \in Nat, draw \in Nat :
            SettleWith(alloc, -poolIn, Owner[p] \in Referred, out, reward, draw)
<1> DEFINE m      == MarketOf[p]
           c      == AfterCarry(pos[p], m)
           carry  == CarryPaid(pos[p], m)
           r      == AfterFunding(c, m)
           health == Assess(r, m, quote)
           l      == Liquidation(r, carry, health)
           alloc  == LiquidationAlloc(l)
<1>1. m \in Markets /\ carry \in Nat /\ r \in Position
  BY CostsSettle
<1>2. health.notional \in Nat /\ health.liquidationEquity \in Int
  <2>1. CanExecute(m, r.size, Resolve(r.direction, "Close"), quote)
    BY DEF LiquidatePosition
  <2> HIDE DEF r
  <2> QED
    BY <1>1, <2>1, AssessInt
<1>3. /\ l.givenUp >= 0
      /\ SettleWith(alloc, -l.poolIn, Owner[p] \in Referred, l.out, l.reward, l.draw)
  BY DEF LiquidatePosition
<1> HIDE DEF health, r, carry, c
<1>4. /\ l.out \in Nat /\ l.carryFee \in Nat /\ l.insuranceFee \in Nat
      /\ l.treasuryFee \in Nat /\ l.poolIn \in Nat /\ l.reward \in Nat /\ l.draw \in Nat
  BY <1>1, <1>2, <1>3, LiquidationTyped
<1> HIDE DEF l
<1>5. alloc \in Allocation
  BY <1>4, LiquidationAllocTyped
<1> QED
  BY <1>3, <1>4, <1>5

LEMMA LiquidationPaysPool ==
  ASSUME VaultsTypeOK, TradingTypeOK, BookSound,
         NEW p \in Positions, NEW quote \in Quotes, LiquidatePosition(p, quote)
  PROVE  aum' >= aum /\ totalUserCollateral' <= totalUserCollateral
<1>1. PICK alloc \in Allocation, poolIn \in Nat, out \in Nat, reward \in Nat, draw \in Nat :
        SettleWith(alloc, -poolIn, Owner[p] \in Referred, out, reward, draw)
  BY LiquidationFlows
<1> DEFINE lp == alloc.lp
           total == AllocTotal(alloc)
<1>2. lp \in Nat /\ total \in Nat
  BY DEF Allocation, AllocTotal
<1>3. /\ aum' = aum + (lp - (-poolIn)) + draw
      /\ totalUserCollateral' = totalUserCollateral + (-poolIn - total) - out
  BY <1>1 DEF SettleWith
<1>4. aum \in Nat /\ totalUserCollateral \in Nat
  BY DEF VaultsTypeOK
<1> HIDE DEF lp, total
<1> QED
  BY <1>2, <1>3, <1>4

(* No instruction but a liquidation pays liquidators or draws insurance. *)
LEMMA OnlyLiquidationPays ==
  ASSUME VaultsTypeOK, Next, ~ PaysNone
  PROVE  \E p \in Positions, q \in Quotes : LiquidatePosition(p, q)
<1>1. ASSUME VaultsNext PROVE PaysNone
  BY <1>1 DEF VaultsNext, DepositCollateral, WithdrawCollateral, DepositInsuranceFund,
              WithdrawTreasuryFees, PayReferral, EmergencyPause, Unpause, PaysNone, debtVars
<1>2. ASSUME LpNext PROVE PaysNone
  <2>1. UNCHANGED lpFrame \/ UNCHANGED vaultsVars
    BY <1>2 DEF LpNext, AddLiquidity, RequestRemoveLiquidity, CooldownElapses,
                CancelRemoveLiquidity, RemoveLiquidity, TransferShares
  <2> QED
    BY <2>1 DEF lpFrame, vaultsVars, debtVars, PaysNone
<1>3. ASSUME TraderNext PROVE PaysNone
  <2>1. PICK p \in Positions :
          \/ \E d \in Directions, size \in Sizes, c \in Margins, q \in Quotes, t \in TierRates :
                OpenPosition(p, d, size, c, q, t)
          \/ \E size \in Sizes, c \in Margins \cup {0}, q \in Quotes, t \in TierRates :
                IncreasePosition(p, size, c, q, t)
          \/ \E delta \in 1..pos[p].size, q \in Quotes, t \in TierRates :
                Reduce(p, delta, q, t)
          \/ \E a \in Margins : AddPositionCollateral(p, a)
          \/ \E a \in Margins, q \in Quotes : RemovePositionCollateral(p, a, q)
    BY <1>3 DEF TraderNext
  <2>2. CASE \E d \in Directions, size \in Sizes, c \in Margins, q \in Quotes,
                t \in TierRates : OpenPosition(p, d, size, c, q, t)
    BY <2>2, SettlePaysNone DEF OpenPosition
  <2>3. CASE \E size \in Sizes, c \in Margins \cup {0}, q \in Quotes, t \in TierRates :
                IncreasePosition(p, size, c, q, t)
    BY <2>3, SettlePaysNone DEF IncreasePosition
  <2>4. CASE \E delta \in 1..pos[p].size, q \in Quotes, t \in TierRates :
                Reduce(p, delta, q, t)
    BY <2>4, SettlePaysNone DEF Reduce
  <2>5. CASE \/ \E a \in Margins : AddPositionCollateral(p, a)
             \/ \E a \in Margins, q \in Quotes : RemovePositionCollateral(p, a, q)
    BY <2>5 DEF AddPositionCollateral, RemovePositionCollateral, PaysNone, debtVars
  <2> QED
    BY <2>1, <2>2, <2>3, <2>4, <2>5
<1>4. ASSUME NEW p \in Positions, NEW q \in Quotes, AutoDeleverage(p, q) PROVE PaysNone
  BY <1>4, SettlePaysNone DEF AutoDeleverage
<1>5. ASSUME \/ \E m \in Markets : CrankFunding(m) \/ HaltMarket(m)
             \/ \E m \in Markets, s \in MarketStatuses : SetMarketStatus(m, s)
      PROVE  PaysNone
  BY <1>5 DEF CrankFunding, HaltMarket, SetMarketStatus, vaultsVars, debtVars, PaysNone
<1> QED
  BY <1>1, <1>2, <1>3, <1>4, <1>5 DEF Next, KeeperNext

(* A liquidation takes nothing from the pool and gives the traders nothing *)
(* they did not hold, whatever the price, the costs and the fund.          *)
THEOREM LiquidationNeverCostsPool == Spec => LiquidationFavoursPool
<1>1. IInv /\ [Next]_vars =>
        [totalLiquidatorPaid' > totalLiquidatorPaid \/ totalBadDebtCovered' > totalBadDebtCovered
           => aum' >= aum /\ totalUserCollateral' <= totalUserCollateral]_vars
  <2> SUFFICES ASSUME IInv, Next,
                      \/ totalLiquidatorPaid' > totalLiquidatorPaid
                      \/ totalBadDebtCovered' > totalBadDebtCovered
               PROVE  aum' >= aum /\ totalUserCollateral' <= totalUserCollateral
    OBVIOUS
  <2>1. VaultsTypeOK /\ TradingTypeOK /\ BookSound
    BY DEF IInv, TypeOK
  <2>2. ~ PaysNone
    <3>1. totalLiquidatorPaid \in Nat /\ totalBadDebtCovered \in Nat
      BY <2>1 DEF VaultsTypeOK
    <3> QED
      BY <3>1 DEF PaysNone
  <2> QED
    BY <2>1, <2>2, OnlyLiquidationPays, LiquidationPaysPool
<1> QED
  BY <1>1, InitIInv, StepIInv, PTL DEF Spec, LiquidationFavoursPool

-----------------------------------------------------------------------------
(* A step that opens nothing on any side. *)
NoGrowth == \A m \in Markets, d \in Directions : baseOi'[m][d] <= baseOi[m][d]

LEMMA BookUntouched ==
  ASSUME TradingTypeOK, baseOi' = baseOi
  PROVE  NoGrowth
<1>1. \A m \in Markets, d \in Directions : baseOi[m][d] \in Nat
  BY DEF TradingTypeOK
<1> QED
  BY <1>1 DEF NoGrowth

LEMMA RemovalShrinks ==
  ASSUME TradingTypeOK, NEW m \in Markets, NEW d \in Directions, NEW notional,
         NEW size \in Nat, RemoveOpenInterest(m, d, notional, size)
  PROVE  NoGrowth
<1>1. baseOi' = [baseOi EXCEPT ![m][d] = baseOi[m][d] - size]
  BY DEF RemoveOpenInterest
<1>2. \A n \in Markets, e \in Directions : baseOi[n][e] \in Nat
  BY DEF TradingTypeOK
<1>3. baseOi \in [Markets -> [Directions -> Nat]]
  BY DEF TradingTypeOK
<1> SUFFICES ASSUME NEW n \in Markets, NEW e \in Directions
             PROVE  baseOi'[n][e] <= baseOi[n][e]
  BY DEF NoGrowth
<1>4. CASE n = m /\ e = d
  BY <1>1, <1>2, <1>3, <1>4
<1>5. CASE ~ (n = m /\ e = d)
  <2>1. baseOi'[n][e] = baseOi[n][e]
    BY <1>1, <1>3, <1>5
  <2> QED
    BY <1>2, <2>1
<1> QED
  BY <1>4, <1>5

LEMMA CloseOutShrinks ==
  ASSUME TradingTypeOK, BookSound, NEW p \in Positions,
         CloseOut(p, AfterFunding(AfterCarry(pos[p], MarketOf[p]), MarketOf[p]), MarketOf[p])
  PROVE  NoGrowth
<1> DEFINE m == MarketOf[p]
           r == AfterFunding(AfterCarry(pos[p], m), m)
<1>1. m \in Markets /\ r \in Position
  BY CostsSettle
<1>2. RemoveOpenInterest(m, r.direction, r.entryNotional, r.size)
  BY DEF CloseOut
<1> HIDE DEF m, r
<1>3. r.direction \in Directions /\ r.size \in Nat
  BY <1>1 DEF Position
<1> QED
  BY <1>1, <1>2, <1>3, RemovalShrinks

LEMMA ReduceShrinks ==
  ASSUME TradingTypeOK, BookSound, NEW p \in Positions, NEW delta, NEW q, NEW t,
         Reduce(p, delta, q, t)
  PROVE  NoGrowth
<1> DEFINE m == MarketOf[p]
           r == AfterCarry(pos[p], m)
           closed == IF delta = r.size THEN r.entryNotional
                     ELSE MulDivFloor(r.entryNotional, delta, r.size)
<1>1. m \in Markets /\ r \in Position
  BY CostsSettle
<1>2. RemoveOpenInterest(m, r.direction, closed, delta) /\ delta \in 1..r.size
  BY DEF Reduce
<1> HIDE DEF m, r
<1>3. r.direction \in Directions /\ delta \in Nat
  BY <1>1, <1>2 DEF Position
<1> HIDE DEF closed
<1> QED
  BY <1>1, <1>2, <1>3, RemovalShrinks

(* An open or a top-up grows one side of its own market and no other. *)
LEMMA AdditionGrows ==
  ASSUME TradingTypeOK, NEW m \in Markets, NEW d \in Directions, NEW notional, NEW size,
         AddOpenInterest(m, d, notional, size), OpensAllowed(m)
  PROVE  \A n \in Markets, e \in Directions :
            paused \/ ~ AllowsOpen(status[n]) => baseOi'[n][e] <= baseOi[n][e]
<1> SUFFICES ASSUME NEW n \in Markets, NEW e \in Directions,
                    paused \/ ~ AllowsOpen(status[n])
             PROVE  baseOi'[n][e] <= baseOi[n][e]
  OBVIOUS
<1>1. n # m
  BY DEF OpensAllowed
<1>2. baseOi' = [baseOi EXCEPT ![m][d] = baseOi[m][d] + size]
  BY DEF AddOpenInterest
<1>3. baseOi'[n][e] = baseOi[n][e] /\ baseOi[n][e] \in Nat
  BY <1>1, <1>2 DEF TradingTypeOK
<1> QED
  BY <1>3

(* While the protocol is paused or its market is closed to opens, no       *)
(* instruction grows a side of the book.                                   *)
THEOREM ClosedMarketTakesNoRisk == Spec => NoNewRiskWhenClosed
<1>1. IInv /\ [Next]_vars =>
        [\A m \in Markets, d \in Directions :
            paused \/ ~ AllowsOpen(status[m]) => baseOi'[m][d] <= baseOi[m][d]]_vars
  <2> SUFFICES ASSUME IInv, Next
               PROVE  \A m \in Markets, d \in Directions :
                         paused \/ ~ AllowsOpen(status[m]) => baseOi'[m][d] <= baseOi[m][d]
    OBVIOUS
  <2>1. TradingTypeOK /\ BookSound
    BY DEF IInv, TypeOK
  <2>2. CASE UNCHANGED tradingVars
    BY <2>1, <2>2, BookUntouched DEF tradingVars, bookVars, NoGrowth
  <2>3. CASE TraderNext
    <3>1. PICK p \in Positions :
            \/ \E d \in Directions, size \in Sizes, c \in Margins, q \in Quotes,
                  t \in TierRates : OpenPosition(p, d, size, c, q, t)
            \/ \E size \in Sizes, c \in Margins \cup {0}, q \in Quotes, t \in TierRates :
                  IncreasePosition(p, size, c, q, t)
            \/ \E delta \in 1..pos[p].size, q \in Quotes, t \in TierRates :
                  Reduce(p, delta, q, t)
            \/ \E a \in Margins : AddPositionCollateral(p, a)
            \/ \E a \in Margins, q \in Quotes : RemovePositionCollateral(p, a, q)
      BY <2>3 DEF TraderNext
    <3>2. MarketOf[p] \in Markets /\ pos[p].direction \in Directions
      BY <2>1, PositionTyped DEF Position
    <3>3. CASE \E d \in Directions, size \in Sizes, c \in Margins, q \in Quotes,
                  t \in TierRates : OpenPosition(p, d, size, c, q, t)
      BY <2>1, <3>2, <3>3, AdditionGrows DEF OpenPosition
    <3>4. CASE \E size \in Sizes, c \in Margins \cup {0}, q \in Quotes, t \in TierRates :
                  IncreasePosition(p, size, c, q, t)
      BY <2>1, <3>2, <3>4, AdditionGrows DEF IncreasePosition
    <3>5. CASE \E delta \in 1..pos[p].size, q \in Quotes, t \in TierRates :
                  Reduce(p, delta, q, t)
      BY <2>1, <3>5, ReduceShrinks DEF NoGrowth
    <3>6. CASE \/ \E a \in Margins : AddPositionCollateral(p, a)
               \/ \E a \in Margins, q \in Quotes : RemovePositionCollateral(p, a, q)
      <4>1. baseOi' = baseOi
        BY <3>6 DEF AddPositionCollateral, RemovePositionCollateral, bookVars
      <4> QED
        BY <2>1, <4>1, BookUntouched DEF NoGrowth
    <3> QED
      BY <3>1, <3>3, <3>4, <3>5, <3>6
  <2>4. CASE KeeperNext
    <3>1. CASE \E p \in Positions, q \in Quotes : LiquidatePosition(p, q) \/ AutoDeleverage(p, q)
      BY <2>1, <3>1, CloseOutShrinks DEF LiquidatePosition, AutoDeleverage, NoGrowth
    <3>2. CASE \/ \E m \in Markets : CrankFunding(m) \/ HaltMarket(m)
               \/ \E m \in Markets, s \in MarketStatuses : SetMarketStatus(m, s)
      <4>1. baseOi' = baseOi
        BY <3>2 DEF CrankFunding, HaltMarket, SetMarketStatus, bookVars
      <4> QED
        BY <2>1, <4>1, BookUntouched DEF NoGrowth
    <3> QED
      BY <2>4, <3>1, <3>2 DEF KeeperNext
  <2> QED
    BY <2>2, <2>3, <2>4 DEF Next
<1> QED
  BY <1>1, InitIInv, StepIInv, PTL DEF Spec, NoNewRiskWhenClosed

-----------------------------------------------------------------------------
(* Only ADL takes debt off the queue. *)
LEMMA OnlyAdlClears ==
  ASSUME VaultsTypeOK, TradingTypeOK, BookSound, Next, NEW m \in Markets,
         pendingAdl'[m] < pendingAdl[m]
  PROVE  \E p \in Positions, q \in Quotes : AutoDeleverage(p, q)
<1>1. pendingAdl \in [Markets -> Nat] /\ pendingAdl[m] \in Nat
  BY DEF TradingTypeOK
<1>2. pendingAdl' # pendingAdl
  BY <1>1
<1>3. ~ UNCHANGED tradingVars
  BY <1>2 DEF tradingVars
<1>4. ~ TraderNext
  <2>1. \A p, d, size, k, q, t : ~ OpenPosition(p, d, size, k, q, t)
    BY <1>2 DEF OpenPosition
  <2>2. \A p, size, k, q, t : ~ IncreasePosition(p, size, k, q, t)
    BY <1>2 DEF IncreasePosition
  <2>3. \A p, delta, q, t : ~ Reduce(p, delta, q, t)
    BY <1>2 DEF Reduce
  <2>4. \A p, a, q : ~ AddPositionCollateral(p, a) /\ ~ RemovePositionCollateral(p, a, q)
    BY <1>2 DEF AddPositionCollateral, RemovePositionCollateral
  <2> QED
    BY <2>1, <2>2, <2>3, <2>4 DEF TraderNext
<1>5. ~ (\/ \E n \in Markets : CrankFunding(n) \/ HaltMarket(n)
         \/ \E n \in Markets, s \in MarketStatuses : SetMarketStatus(n, s))
  BY <1>2 DEF CrankFunding, HaltMarket, SetMarketStatus
<1>6. ASSUME NEW p \in Positions, NEW q \in Quotes, LiquidatePosition(p, q) PROVE FALSE
  <2> DEFINE n      == MarketOf[p]
             c      == AfterCarry(pos[p], n)
             r      == AfterFunding(c, n)
             health == Assess(r, n, q)
             l      == Liquidation(r, CarryPaid(pos[p], n), health)
             queued == Uncovered(l)
  <2>1. n \in Markets /\ r \in Position /\ CarryPaid(pos[p], n) \in Nat
    BY CostsSettle
  <2>2. health.notional \in Nat /\ health.liquidationEquity \in Int
    <3>1. CanExecute(n, r.size, Resolve(r.direction, "Close"), q)
      BY <1>6 DEF LiquidatePosition
    <3> HIDE DEF r
    <3> QED
      BY <2>1, <3>1, AssessInt
  <2>3. l.givenUp >= 0 /\ pendingAdl' = [pendingAdl EXCEPT ![n] = @ + queued]
    BY <1>6 DEF LiquidatePosition
  <2> HIDE DEF health, r, c
  <2>4. l.badDebt \in Nat /\ l.draw \in Nat /\ l.draw <= l.badDebt
    BY <2>1, <2>2, <2>3, LiquidationTyped
  <2> HIDE DEF l
  <2>5. queued \in Nat
    BY <2>4 DEF Uncovered
  <2> HIDE DEF queued
  <2> QED
    BY <1>1, <2>1, <2>3, <2>5
<1> QED
  BY <1>3, <1>4, <1>5, <1>6 DEF Next, KeeperNext

(* The owner of a position that ADL closes keeps its settled margin. *)
LEMMA AdlKeepsMargin ==
  ASSUME VaultsTypeOK, TradingTypeOK, BookSound,
         NEW p \in Positions, NEW q \in Quotes, AutoDeleverage(p, q)
  PROVE  LET c == AfterCarry(pos[p], MarketOf[p])
         IN  free'[Owner[p]] >= free[Owner[p]] + AfterFunding(c, MarketOf[p]).collateral
<1> DEFINE u      == Owner[p]
           m      == MarketOf[p]
           c      == AfterCarry(pos[p], m)
           r      == AfterFunding(c, m)
           profit == Assess(r, m, q).upnl
           paid   == profit - Socialised(m, profit)
<1>1. m \in Markets /\ r \in Position /\ u \in Users /\ pendingAdl[m] \in Nat
  BY CostsSettle, PositionTyped DEF TradingTypeOK
<1>2. profit \in Int
  <2>1. CanExecute(m, r.size, Resolve(r.direction, "Close"), q)
    BY DEF AutoDeleverage
  <2> HIDE DEF r
  <2> QED
    BY <1>1, <2>1, AssessInt
<1>3. free' = [free EXCEPT ![u] = @ + r.collateral + paid]
  BY DEF AutoDeleverage
<1> HIDE DEF profit, r, c
<1>4. paid \in Nat
  BY <1>1, <1>2 DEF Socialised, Lesser
<1> HIDE DEF paid
<1>5. free \in [Users -> Nat] /\ r.collateral \in Nat
  BY <1>1 DEF VaultsTypeOK, Position
<1>6. free'[u] = free[u] + r.collateral + paid /\ free[u] \in Nat
  BY <1>1, <1>3, <1>5
<1>7. free'[u] >= free[u] + r.collateral
  BY <1>4, <1>5, <1>6
<1> QED
  BY <1>7 DEF r, c

(* ADL takes profit and never principal: whoever it closes is left with    *)
(* the margin net of the carry and the funding that was owed.              *)
THEOREM AdlNeverTakesMargin == Spec => AdlTakesOnlyProfit
<1> DEFINE Kept(p) ==
             LET m == MarketOf[p]
                 c == AfterCarry(pos[p], m)
             IN  pendingAdl'[m] < pendingAdl[m] /\ IsOpen(p) /\ ~ IsOpen(p)'
                   => free'[Owner[p]] >= free[Owner[p]] + AfterFunding(c, m).collateral
<1>1. IInv /\ [Next]_vars => [\A p \in Positions : Kept(p)]_vars
  <2> SUFFICES ASSUME IInv, Next, NEW p \in Positions,
                      pendingAdl'[MarketOf[p]] < pendingAdl[MarketOf[p]],
                      IsOpen(p), ~ IsOpen(p)'
               PROVE  free'[Owner[p]] >= free[Owner[p]]
                        + AfterFunding(AfterCarry(pos[p], MarketOf[p]), MarketOf[p]).collateral
    OBVIOUS
  <2>1. VaultsTypeOK /\ TradingTypeOK /\ BookSound /\ MarketOf[p] \in Markets
    BY PositionTyped DEF IInv, TypeOK
  <2>2. PICK x \in Positions, q \in Quotes : AutoDeleverage(x, q)
    BY <2>1, OnlyAdlClears
  <2>3. pos' = [pos EXCEPT ![x] = NoPosition] /\ pos \in [Positions -> Position]
    BY <2>1, <2>2 DEF AutoDeleverage, CloseOut, TradingTypeOK
  <2>4. x = p
    <3>1. x # p => pos'[p] = pos[p]
      BY <2>3
    <3> QED
      BY <3>1 DEF IsOpen
  <2>5. AutoDeleverage(p, q)
    BY <2>2, <2>4
  <2> QED
    BY <2>1, <2>5, AdlKeepsMargin
<1> QED
  BY <1>1, InitIInv, StepIInv, PTL DEF Spec, AdlTakesOnlyProfit
=============================================================================
