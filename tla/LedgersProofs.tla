--------------------------- MODULE LedgersProofs ---------------------------
(***************************************************************************)
(* Four books that only grow by small steps, for every scale, every set   *)
(* of amounts and any number of steps: a position's profit, a market's     *)
(* funding, the marketplace's escrows and the brokers' rebates.  Each      *)
(* invariant is inductive once the types are known; what there is to prove *)
(* is the arithmetic of one step.                                          *)
(***************************************************************************)
EXTENDS PositionLedger, FundingIndex, Marketplace, Referral, SolfxMathProofs

(***************************************************************************)
(* A position's profit: each trade moves the exact ledger and the rounded  *)
(* one by amounts that the two lemmas below compare.                       *)
(***************************************************************************)
IInv == TypeOK /\ RoundingNeverPays

(* What a close realises is at most the exact difference. *)
LEMMA ProfitRoundsDown ==
  ASSUME NEW delta \in Nat, NEW entry \in Nat, NEW exit \in Nat, NEW d \in Directions
  PROVE  /\ UpnlInQuote(delta, entry, exit, d) \in Int
         /\ NotionalDivisor * UpnlInQuote(delta, entry, exit, d)
              <= Sign(d) * delta * exit - Sign(d) * delta * entry
<1> DEFINE move == Sign(d) * (exit - entry)
<1>1. move \in Int /\ NotionalDivisor \in Nat \ {0}
  BY ScalesAssumption DEF Sign
<1>2. delta * move = Sign(d) * delta * exit - Sign(d) * delta * entry
  BY DEF Sign
<1>3. UpnlInQuote(delta, entry, exit, d) = MulDivFloor(delta, move, NotionalDivisor)
  BY DEF UpnlInQuote
<1> HIDE DEF move
<1>4. /\ MulDivFloor(delta, move, NotionalDivisor) \in Int
      /\ NotionalDivisor * MulDivFloor(delta, move, NotionalDivisor) <= delta * move
  BY <1>1, FloorInt
<1> QED
  BY <1>2, <1>3, <1>4

(* Valued at the average entry, a topped-up position is never worth less   *)
(* to the protocol than the two fills it is the average of.                *)
LEMMA EntryRoundsAgainst ==
  ASSUME NEW a \in Nat, NEW p \in Nat, NEW b \in Nat \ {0}, NEW q \in Nat,
         NEW d \in Directions
  PROVE  /\ WeightedEntryPrice(a, p, b, q, d) \in Nat
         /\ Sign(d) * a * p + Sign(d) * b * q
              <= Sign(d) * (a + b) * WeightedEntryPrice(a, p, b, q, d)
<1> DEFINE w == a * p + b * q
           n == a + b
<1>1. n \in Nat \ {0}
  OBVIOUS
<1>2. w \in Nat
  <2>1. a * p \in Nat /\ b * q \in Nat
    OBVIOUS
  <2> QED
    BY <2>1
<1>3. CASE d = "Long"
  <2> DEFINE e == MulDivCeil(w, 1, n)
  <2>1. e \in Nat
    <3> HIDE DEF w, n
    <3> QED
      BY <1>1, <1>2, CeilNat
  <2>2. w <= n * e
    <3> HIDE DEF w, n
    <3>1. /\ (-w) \div n \in Int
          /\ n * ((-w) \div n) <= -w
      BY <1>1, <1>2, DivFloors
    <3>2. -(w * 1) = -w
      BY <1>2
    <3>3. e = -((-w) \div n)
      BY <3>2 DEF MulDivCeil
    <3> DEFINE f == (-w) \div n
    <3> HIDE DEF f, e
    <3>4. n * e = -(n * f)
      BY <1>1, <3>1, <3>3 DEF f
    <3> QED
      BY <1>1, <1>2, <2>1, <3>1, <3>4 DEF f
  <2>3. WeightedEntryPrice(a, p, b, q, d) = e
    BY <1>3 DEF WeightedEntryPrice
  <2> HIDE DEF e
  <2>4. Sign(d) = 1
    BY <1>3 DEF Sign
  <2> QED
    BY <2>1, <2>2, <2>3, <2>4
<1>4. CASE d = "Short"
  <2> DEFINE e == MulDivFloor(w, 1, n)
  <2>1. e \in Nat
    <3> HIDE DEF w, n
    <3> QED
      BY <1>1, <1>2, FloorNat
  <2>2. n * e <= w
    <3> HIDE DEF w, n
    <3>1. n * MulDivFloor(w, 1, n) <= w * 1
      BY <1>1, <1>2, FloorInt
    <3> QED
      BY <3>1, <1>2
  <2>3. WeightedEntryPrice(a, p, b, q, d) = e
    BY <1>4 DEF WeightedEntryPrice
  <2> HIDE DEF e
  <2>4. Sign(d) = -1
    BY <1>4 DEF Sign
  <2>5. /\ Sign(d) * a * p = -(a * p)
        /\ Sign(d) * b * q = -(b * q)
        /\ Sign(d) * (a + b) * e = -(n * e)
    BY <2>1, <2>4
  <2>6. a * p \in Int /\ b * q \in Int /\ n * e \in Int
    BY <2>1
  <2> QED
    BY <2>1, <2>2, <2>3, <2>5, <2>6
<1>5. d = "Long" \/ d = "Short"
  BY DEF Directions
<1> QED
  BY <1>3, <1>4, <1>5, Zenon

-----------------------------------------------------------------------------
LEMMA LedgerInit == Init => IInv
  BY LedgerAssumption, ScalesAssumption
     DEF Init, IInv, TypeOK, RoundingNeverPays, Directions, Sign

LEMMA OpenStep ==
  ASSUME IInv, NEW d \in Directions, NEW s \in FillSizes, NEW price \in Prices,
         Open(d, s, price), trades' \in 0..MaxTrades
  PROVE  IInv'
<1>1. /\ s \in Nat /\ price \in Nat /\ NotionalDivisor \in Nat
      /\ realised \in Int /\ cash \in Int /\ entryPrice \in Nat
  BY LedgerAssumption, ScalesAssumption DEF IInv, TypeOK
<1>2. Sign(d) * s * price \in Int /\ Sign(direction) \in Int
  BY <1>1 DEF Sign
<1>3. NotionalDivisor * realised <= cash
  <2>1. Sign(direction) * size * entryPrice = 0
    BY <1>1, <1>2 DEF Open
  <2> QED
    BY <1>1, <2>1 DEF IInv, RoundingNeverPays
<1>4. TypeOK'
  BY <1>1, <1>2 DEF Open, IInv, TypeOK
<1>5. RoundingNeverPays'
  <2> DEFINE cost == Sign(d) * s * price
  <2>1. cash' = cash - cost /\ realised' = realised
        /\ Sign(direction') * size' * entryPrice' = cost
    BY DEF Open
  <2>2. cost \in Int
    BY <1>2
  <2> HIDE DEF cost
  <2>3. NotionalDivisor * realised' <= cash' + Sign(direction') * size' * entryPrice'
    BY <1>1, <1>3, <2>1, <2>2
  <2> QED
    BY <2>3 DEF RoundingNeverPays
<1> QED
  BY <1>4, <1>5 DEF IInv

LEMMA IncreaseStep ==
  ASSUME IInv, NEW s \in FillSizes, NEW price \in Prices,
         Increase(s, price), trades' \in 0..MaxTrades
  PROVE  IInv'
<1> DEFINE sg    == Sign(direction)
           held  == sg * size * entryPrice
           added == sg * s * price
           entry == WeightedEntryPrice(size, entryPrice, s, price, direction)
           now   == sg * (size + s) * entry
<1>1. /\ s \in Nat \ {0} /\ price \in Nat /\ NotionalDivisor \in Nat
      /\ realised \in Int /\ cash \in Int /\ entryPrice \in Nat /\ size \in Nat
      /\ direction \in Directions
  BY LedgerAssumption, ScalesAssumption DEF IInv, TypeOK
<1>2. entry \in Nat /\ held + added <= now
  BY <1>1, EntryRoundsAgainst
<1>3. sg \in Int
  BY DEF Sign
<1> HIDE DEF entry, sg
<1>4. held \in Int /\ added \in Int /\ now \in Int
  BY <1>1, <1>2, <1>3
<1>5. /\ cash' = cash - added /\ realised' = realised
      /\ Sign(direction') * size' * entryPrice' = now
      /\ direction' = direction /\ size' = size + s /\ entryPrice' = entry
  BY DEF Increase, entry, sg
<1>6. NotionalDivisor * realised <= cash + held
  BY DEF IInv, RoundingNeverPays, sg
<1> HIDE DEF held, added, now
<1>7. NotionalDivisor * realised' <= cash' + now
  <2>1. NotionalDivisor * realised \in Int
    BY <1>1
  <2> QED
    BY <1>1, <1>2, <1>4, <1>5, <1>6, <2>1
<1>8. RoundingNeverPays'
  BY <1>5, <1>7 DEF RoundingNeverPays
<1>9. TypeOK'
  BY <1>1, <1>2, <1>4, <1>5 DEF IInv, TypeOK
<1> QED
  BY <1>8, <1>9 DEF IInv

LEMMA CloseStep ==
  ASSUME IInv, NEW delta \in 1..size, NEW price \in Prices,
         Close(delta, price), trades' \in 0..MaxTrades
  PROVE  IInv'
<1> DEFINE sg     == Sign(direction)
           held   == sg * size * entryPrice
           cost   == sg * delta * entryPrice
           sale   == sg * delta * price
           left   == sg * (size - delta) * entryPrice
           profit == UpnlInQuote(delta, entryPrice, price, direction)
<1>1. /\ price \in Nat /\ NotionalDivisor \in Nat
      /\ realised \in Int /\ cash \in Int /\ entryPrice \in Nat /\ size \in Nat
      /\ direction \in Directions
  BY LedgerAssumption, ScalesAssumption DEF IInv, TypeOK
<1>2. delta \in Nat /\ delta <= size /\ size - delta \in Nat
  BY <1>1
<1>3. profit \in Int /\ NotionalDivisor * profit <= sale - cost
  BY <1>1, <1>2, ProfitRoundsDown
<1>4. sg \in Int
  BY DEF Sign
<1> HIDE DEF sg, profit
<1>5. held \in Int /\ cost \in Int /\ sale \in Int /\ left \in Int
  BY <1>1, <1>2, <1>4
<1>6. left = held - cost
  BY <1>1, <1>2, <1>4
<1>7. /\ cash' = cash + sale /\ realised' = realised + profit
      /\ direction' = direction /\ size' = size - delta
      /\ entryPrice' = IF delta = size THEN 0 ELSE entryPrice
  BY DEF Close, profit, sg
<1>8. Sign(direction') * size' * entryPrice' = left
  <2>1. CASE delta = size
    <3>1. left = 0 /\ size' = 0 /\ entryPrice' = 0
      BY <1>1, <1>4, <1>7, <2>1
    <3> QED
      BY <3>1, <1>4, <1>7 DEF sg
  <2>2. CASE delta # size
    BY <1>7, <2>2 DEF sg
  <2> QED
    BY <2>1, <2>2
<1>9. NotionalDivisor * realised <= cash + held
  BY DEF IInv, RoundingNeverPays, sg
<1> HIDE DEF held, cost, sale, left
<1>10. NotionalDivisor * realised' <= cash' + left
  <2>1. /\ NotionalDivisor * realised \in Int /\ NotionalDivisor * profit \in Int
        /\ NotionalDivisor * (realised + profit)
             = NotionalDivisor * realised + NotionalDivisor * profit
    BY <1>1, <1>3
  <2> QED
    BY <1>1, <1>3, <1>5, <1>6, <1>7, <1>9, <2>1
<1>11. RoundingNeverPays'
  BY <1>8, <1>10 DEF RoundingNeverPays
<1>12. TypeOK'
  BY <1>1, <1>2, <1>3, <1>5, <1>7 DEF IInv, TypeOK
<1> QED
  BY <1>11, <1>12 DEF IInv

LEMMA LedgerStep == IInv /\ [Next]_vars => IInv'
<1> SUFFICES ASSUME IInv, [Next]_vars PROVE IInv'
  OBVIOUS
<1>1. CASE Next
  <2>1. trades' \in 0..MaxTrades
    BY <1>1, LedgerAssumption DEF Next, IInv, TypeOK
  <2>2. CASE \E d \in Directions, s \in FillSizes, price \in Prices : Open(d, s, price)
    BY <2>1, <2>2, OpenStep
  <2>3. CASE \E s \in FillSizes, price \in Prices : Increase(s, price)
    BY <2>1, <2>3, IncreaseStep
  <2>4. CASE \E delta \in 1..size, price \in Prices : Close(delta, price)
    BY <2>1, <2>4, CloseStep
  <2> QED
    BY <1>1, <2>2, <2>3, <2>4 DEF Next
<1>2. CASE UNCHANGED vars
  BY <1>2 DEF IInv, TypeOK, RoundingNeverPays, vars
<1> QED
  BY <1>1, <1>2

(* No sequence of opens, top-ups and partial closes credits a trader more  *)
(* than the trades were worth, at any price and in any order.              *)
THEOREM RoundingFavoursProtocol == Spec => []RoundingNeverPays
<1>1. IInv => RoundingNeverPays
  BY DEF IInv
<1> QED
  BY LedgerInit, LedgerStep, <1>1, PTL DEF Spec

-----------------------------------------------------------------------------
(* Funding: a crank charges no less than it promises. *)

FundingInv == FundingTypeOK /\ FundingConserved

(* An index moves by a whole number. *)
LEMMA UpdateInt ==
  ASSUME NEW long \in Nat \ {0}, NEW short \in Nat \ {0}, NEW rate \in Int, rate # 0,
         NEW elapsed \in Nat \ {0}, NEW update,
         update = FundingIndexUpdate(long, short, rate, elapsed, Hour)
  PROVE  update["Long"] \in Int /\ update["Short"] \in Int
<1> DEFINE period == MulDivCeil(Abs(rate), elapsed, Hour)
           payer  == IF rate > 0 THEN "Long" ELSE "Short"
           sizes  == [d \in Directions |-> IF d = "Long" THEN long ELSE short]
           other  == CHOOSE d \in Directions : d # payer
           share  == MulDivFloor(period, sizes[payer], sizes[other])
<1>1. Abs(rate) \in Nat /\ Hour \in Nat \ {0}
  BY FundingAssumption DEF Abs
<1>2. period \in Nat
  BY <1>1, CeilNat
<1>3. update = [d \in Directions |-> IF d = payer THEN period ELSE -share]
  BY DEF FundingIndexUpdate
<1>4. sizes \in [Directions -> Nat \ {0}] /\ payer \in Directions /\ other \in Directions
  BY DEF Directions
<1> HIDE DEF period, sizes, payer, other
<1>5. share \in Int /\ -share \in Int
  <2> DEFINE paying == sizes[payer]
             receiving == sizes[other]
  <2>1. period \in Int /\ paying \in Int /\ receiving \in Nat \ {0}
    BY <1>2, <1>4
  <2> HIDE DEF paying, receiving
  <2>2. MulDivFloor(period, paying, receiving) \in Int
    BY <2>1, FloorTyped
  <2> QED
    BY <2>2 DEF paying, receiving
<1> HIDE DEF share
<1>6. \A d \in Directions : update[d] \in Int
  BY <1>2, <1>3, <1>5
<1> QED
  BY <1>6 DEF Directions

(* Which side pays is the sign of the rate; with a side empty or a rate of *)
(* zero nothing moves.                                                     *)
LEMMA CrankBalances ==
  ASSUME NEW long \in Nat, NEW short \in Nat, NEW rate \in Int, NEW elapsed \in Nat,
         NEW update, update = FundingIndexUpdate(long, short, rate, elapsed, Hour)
  PROVE  /\ update["Long"] \in Int /\ update["Short"] \in Int
         /\ \/ update["Long"] = 0 /\ update["Short"] = 0
            \/ Balances(update, "Long", "Short", long, short)
            \/ Balances(update, "Short", "Long", short, long)
<1>1. CASE elapsed <= 0 \/ rate = 0 \/ long <= 0 \/ short <= 0
  BY <1>1 DEF FundingIndexUpdate, Directions
<1>2. CASE ~ (elapsed <= 0 \/ rate = 0 \/ long <= 0 \/ short <= 0)
  <2>1. long \in Nat \ {0} /\ short \in Nat \ {0} /\ elapsed \in Nat \ {0} /\ rate # 0
    BY <1>2
  <2>2. Hour \in Nat \ {0}
    BY FundingAssumption
  <2> QED
    BY <2>1, <2>2, UpdateInt, FundingIndexBalances
<1> QED
  BY <1>1, <1>2

(* Of the two costs of a crank one is charged and the other promised, so   *)
(* each total has one term.                                                *)
LEMMA ChargedAndPromised ==
  ASSUME NEW payer, NEW other, NEW paying \in Nat, NEW receiving \in 0..MaxSide,
         NEW update, Balances(update, payer, other, paying, receiving),
         update[other] \in Int,
         NEW p, p = paying * update[payer], NEW r, r = receiving * update[other]
  PROVE  /\ p \in Nat /\ -r \in Nat /\ r \in Int
         /\ Greater(p, 0) = p /\ Greater(r, 0) = 0
         /\ Greater(-p, 0) = 0 /\ Greater(-r, 0) = -r
         /\ -r <= p /\ p + r <= MaxSide
<1> DEFINE up == update[payer]
           down == -update[other]
<1>1. up \in Nat /\ down \in Nat /\ update[other] = -down
  BY DEF Balances
<1>2. receiving \in Nat /\ receiving <= MaxSide /\ MaxSide \in Nat
  BY FundingAssumption
<1>3. receiving * down <= paying * up /\ paying * up < receiving * down + receiving
  BY DEF Balances
<1> HIDE DEF up, down
<1>4. p = paying * up /\ p \in Nat
  BY <1>1 DEF up
<1>5. r = -(receiving * down) /\ receiving * down \in Nat
  BY <1>1, <1>2
<1>6. r \in Int /\ -r = receiving * down
  BY <1>5
<1> QED
  BY <1>2, <1>3, <1>4, <1>5, <1>6 DEF Greater

LEMMA FundingStarts == FundingInit => FundingInv
  BY FundingAssumption DEF FundingInit, FundingInv, FundingTypeOK, FundingConserved, Directions

(* A change of open interest moves no total. *)
LEMMA OpenInterestStep ==
  ASSUME FundingInv, NEW d \in Directions, NEW s \in TradeSizes,
         AddOpenInterest(d, s) \/ RemoveOpenInterest(d, s)
  PROVE  FundingInv'
<1>1. s \in Nat /\ MaxSide \in Nat
  BY FundingAssumption
<1>2. base' \in [Directions -> 0..MaxSide]
  BY <1>1 DEF FundingInv, FundingTypeOK, AddOpenInterest, RemoveOpenInterest
<1> QED
  BY <1>2 DEF FundingInv, FundingTypeOK, FundingConserved, AddOpenInterest, RemoveOpenInterest

LEMMA CrankStep ==
  ASSUME FundingInv, NEW elapsed \in Elapsed, CrankFunding(elapsed)
  PROVE  FundingInv'
<1> DEFINE rate    == FundingRate(base["Long"], base["Short"], FundingK, FundingCap)
           update  == FundingIndexUpdate(base["Long"], base["Short"], rate, elapsed, Hour)
           long    == base["Long"] * update["Long"]
           short   == base["Short"] * update["Short"]
           charge  == Greater(long, 0) + Greater(short, 0)
           promise == Greater(-long, 0) + Greater(-short, 0)
<1>1. /\ base["Long"] \in 0..MaxSide /\ base["Short"] \in 0..MaxSide /\ MaxSide \in Nat
      /\ index["Long"] \in Int /\ index["Short"] \in Int
      /\ elapsed \in Nat /\ FundingK \in Nat /\ FundingCap \in Nat
  BY FundingAssumption DEF FundingInv, FundingTypeOK, Directions
<1>2. rate \in Int
  <2>1. base["Long"] \in Nat /\ base["Short"] \in Nat
    BY <1>1
  <2>2. FundingRate(base["Long"], base["Short"], FundingK, FundingCap) \in Int
    BY <1>1, <2>1, FundingRateSign
  <2> QED
    BY <2>2
<1>3. /\ cranks < MaxCranks /\ cranks' = cranks + 1
      /\ index' = [d \in Directions |-> index[d] + update[d]]
      /\ charged' = charged + Greater(long, 0) + Greater(short, 0)
      /\ promised' = promised + Greater(-long, 0) + Greater(-short, 0)
      /\ base' = base
  <2> DEFINE cost == [d \in Directions |-> base[d] * update[d]]
  <2>1. cost["Long"] = long /\ cost["Short"] = short
    BY DEF Directions
  <2> HIDE DEF update, rate, long, short
  <2>2. /\ charged' = charged + Greater(cost["Long"], 0) + Greater(cost["Short"], 0)
        /\ promised' = promised + Greater(-cost["Long"], 0) + Greater(-cost["Short"], 0)
        /\ cranks < MaxCranks /\ cranks' = cranks + 1 /\ base' = base
        /\ index' = [d \in Directions |-> index[d] + update[d]]
    BY DEF CrankFunding, update, rate
  <2> HIDE DEF cost
  <2> QED
    BY <2>1, <2>2
<1> HIDE DEF rate
<1>4. /\ update["Long"] \in Int /\ update["Short"] \in Int
      /\ \/ update["Long"] = 0 /\ update["Short"] = 0
         \/ Balances(update, "Long", "Short", base["Long"], base["Short"])
         \/ Balances(update, "Short", "Long", base["Short"], base["Long"])
  <2>1. update = FundingIndexUpdate(base["Long"], base["Short"], rate, elapsed, Hour)
    OBVIOUS
  <2>2. base["Long"] \in Nat /\ base["Short"] \in Nat
    BY <1>1
  <2> HIDE DEF update
  <2> QED
    BY <1>1, <1>2, <2>1, <2>2, CrankBalances
<1> HIDE DEF update
<1>5. /\ Greater(long, 0) \in Nat /\ Greater(short, 0) \in Nat
      /\ Greater(-long, 0) \in Nat /\ Greater(-short, 0) \in Nat
      /\ promise <= charge /\ charge - promise <= MaxSide
  <2>1. CASE update["Long"] = 0 /\ update["Short"] = 0
    <3>1. long = 0 /\ short = 0
      BY <1>1, <2>1
    <3>2. /\ Greater(long, 0) = 0 /\ Greater(short, 0) = 0
          /\ Greater(-long, 0) = 0 /\ Greater(-short, 0) = 0
      BY <3>1 DEF Greater
    <3> HIDE DEF long, short
    <3> QED
      BY <1>1, <3>2
  <2>2. CASE Balances(update, "Long", "Short", base["Long"], base["Short"])
    <3>1. /\ long \in Nat /\ -short \in Nat /\ short \in Int
          /\ Greater(long, 0) = long /\ Greater(short, 0) = 0
          /\ Greater(-long, 0) = 0 /\ Greater(-short, 0) = -short
          /\ -short <= long /\ long + short <= MaxSide
      BY <1>1, <1>4, <2>2, ChargedAndPromised
    <3> HIDE DEF long, short
    <3> QED
      BY <1>1, <3>1
  <2>3. CASE Balances(update, "Short", "Long", base["Short"], base["Long"])
    <3>1. /\ short \in Nat /\ -long \in Nat /\ long \in Int
          /\ Greater(short, 0) = short /\ Greater(long, 0) = 0
          /\ Greater(-short, 0) = 0 /\ Greater(-long, 0) = -long
          /\ -long <= short /\ short + long <= MaxSide
      BY <1>1, <1>4, <2>3, ChargedAndPromised
    <3> HIDE DEF long, short
    <3> QED
      BY <1>1, <3>1
  <2> QED
    BY <1>4, <2>1, <2>2, <2>3
<1>6. charge \in Nat /\ promise \in Nat
  BY <1>5
<1>7. /\ charged \in Nat /\ promised \in Nat /\ cranks \in Nat
      /\ promised <= charged /\ charged - promised <= cranks * MaxSide
  BY FundingAssumption DEF FundingInv, FundingTypeOK, FundingConserved
<1>8. charged' = charged + charge /\ promised' = promised + promise
  BY <1>3, <1>5, <1>7
<1> HIDE DEF charge, promise
<1>9. FundingConserved'
  <2>1. (cranks + 1) * MaxSide = cranks * MaxSide + MaxSide /\ cranks * MaxSide \in Int
    BY <1>1, <1>7
  <2>2. promised' <= charged' /\ charged' - promised' <= (cranks + 1) * MaxSide
    BY <1>1, <1>5, <1>6, <1>7, <1>8, <2>1
  <2> QED
    BY <1>3, <2>2 DEF FundingConserved
<1>10. FundingTypeOK'
  <2>1. index' \in [Directions -> Int]
    BY <1>1, <1>3, <1>4 DEF Directions
  <2>2. charged' \in Nat /\ promised' \in Nat
    BY <1>6, <1>7, <1>8
  <2>3. cranks' \in 0..MaxCranks /\ base' \in [Directions -> 0..MaxSide]
    BY <1>3, <1>7, FundingAssumption DEF FundingInv, FundingTypeOK
  <2> QED
    BY <2>1, <2>2, <2>3 DEF FundingTypeOK
<1> QED
  BY <1>9, <1>10 DEF FundingInv

LEMMA FundingStep == FundingInv /\ [FundingNext]_fundingVars => FundingInv'
<1> SUFFICES ASSUME FundingInv, [FundingNext]_fundingVars PROVE FundingInv'
  OBVIOUS
<1>1. CASE \E d \in Directions, s \in TradeSizes : AddOpenInterest(d, s) \/ RemoveOpenInterest(d, s)
  BY <1>1, OpenInterestStep
<1>2. CASE \E elapsed \in Elapsed : CrankFunding(elapsed)
  BY <1>2, CrankStep
<1>3. CASE UNCHANGED fundingVars
  BY <1>3 DEF FundingInv, FundingTypeOK, FundingConserved, fundingVars
<1> QED
  BY <1>1, <1>2, <1>3 DEF FundingNext

(* I3: over any sequence of trades and cranks the light side is promised   *)
(* no more than the heavy side was charged, and what rounding keeps is     *)
(* bounded by the number of cranks.                                        *)
THEOREM FundingAlwaysConserved == FundingSpec => []FundingConserved
<1>1. FundingInv => FundingConserved
  BY DEF FundingInv
<1> QED
  BY FundingStarts, FundingStep, <1>1, PTL DEF FundingSpec

-----------------------------------------------------------------------------
(* The marketplace.  An instruction changes one address; what the address's *)
(* investor has there and in the wallet changes by opposite amounts.        *)

MarketInv == MarketTypeOK /\ CapitalKept /\ MandatesAsOffered

(* What an investor holds at one address. *)
Held(k) == InEscrow(k) + mandate[k].arrived

LEMMA HeldNat ==
  ASSUME MarketTypeOK, NEW k \in Offers
  PROVE  InEscrow(k) \in Nat /\ mandate[k].arrived \in Nat /\ Held(k) \in Nat
  BY DEF MarketTypeOK, InEscrow, Held

(* When one address changes, every investor's holdings change by what      *)
(* changed there if it is theirs, and not at all if it is not.             *)
LEMMA HoldingsMove ==
  ASSUME MarketTypeOK, MarketTypeOK', NEW k \in Offers, NEW delta \in Int,
         \A j \in Offers \ {k} : offer'[j] = offer[j] /\ mandate'[j] = mandate[j],
         Held(k)' = Held(k) + delta, NEW i \in Investors
  PROVE  /\ SumTo(Holdings(i), NOffers) \in Int
         /\ SumTo(Holdings(i)', NOffers)
              = SumTo(Holdings(i), NOffers) + (IF InvestorOf[k] = i THEN delta ELSE 0)
<1> DEFINE f == Holdings(i)
           v == IF InvestorOf[k] = i THEN Held(k)' ELSE 0
<1>1. NOffers \in Nat /\ k \in 1..NOffers
  BY MarketplaceAssumption DEF Offers
<1>2. f \in [1..NOffers -> Int]
  BY HeldNat DEF Holdings, Held, Offers
<1>3. v \in Int /\ f[k] = (IF InvestorOf[k] = i THEN Held(k) ELSE 0) /\ Held(k) \in Int
  BY HeldNat DEF Holdings, Held
<1>4. Holdings(i)' = [f EXCEPT ![k] = v]
  <2>1. Holdings(i)' = [j \in Offers |-> IF InvestorOf[j] = i THEN Held(j)' ELSE 0]
    BY DEF Holdings, Held
  <2>2. \A j \in Offers \ {k} : Held(j)' = Held(j)
    BY DEF Held, InEscrow, Uncommitted
  <2>3. f = [j \in Offers |-> IF InvestorOf[j] = i THEN Held(j) ELSE 0]
    BY DEF Holdings, Held
  <2> QED
    BY <2>1, <2>2, <2>3
<1> HIDE DEF f, v
<1>5. SumTo([f EXCEPT ![k] = v], NOffers) = SumTo(f, NOffers) - f[k] + v
  BY <1>1, <1>2, <1>3, SumUpdate
<1>6. SumTo(f, NOffers) \in Int
  BY <1>1, <1>2, SumInt
<1>7. v - f[k] = (IF InvestorOf[k] = i THEN delta ELSE 0)
  BY <1>3 DEF v
<1> QED
  BY <1>3, <1>4, <1>5, <1>6, <1>7 DEF f

(* So capital is kept when the wallet pays for what the address gains and   *)
(* the escrow's balance follows the offer.                                  *)
LEMMA CapitalMoves ==
  ASSUME MarketInv, MarketTypeOK', NEW k \in Offers, NEW delta \in Int,
         \A j \in Offers \ {k} : offer'[j] = offer[j] /\ mandate'[j] = mandate[j],
         Held(k)' = Held(k) + delta,
         wallet' = [wallet EXCEPT ![InvestorOf[k]] = @ - delta],
         \A j \in Offers \ {k} : escrow'[j] = escrow[j] /\ dust'[j] = dust[j],
         escrow'[k] = InEscrow(k)' + dust'[k]
  PROVE  CapitalKept'
<1>1. ASSUME NEW j \in Offers
      PROVE  escrow'[j] = InEscrow(j)' + dust'[j]
  BY DEF MarketInv, CapitalKept, InEscrow, Uncommitted
<1>2. ASSUME NEW i \in Investors
      PROVE  wallet'[i] + SumTo(Holdings(i)', NOffers) = Wealth[i]
  <2>1. /\ SumTo(Holdings(i), NOffers) \in Int
        /\ SumTo(Holdings(i)', NOffers)
             = SumTo(Holdings(i), NOffers) + (IF InvestorOf[k] = i THEN delta ELSE 0)
    BY HoldingsMove DEF MarketInv
  <2>2. wallet[i] \in Int /\ wallet'[i] = wallet[i] - (IF InvestorOf[k] = i THEN delta ELSE 0)
    BY DEF MarketInv, MarketTypeOK
  <2>3. wallet[i] + SumTo(Holdings(i), NOffers) = Wealth[i]
    BY DEF MarketInv, CapitalKept
  <2> QED
    BY <2>1, <2>2, <2>3
<1> QED
  BY <1>1, <1>2 DEF CapitalKept

LEMMA MarketStarts == MarketInit => MarketInv
<1> SUFFICES ASSUME MarketInit PROVE MarketInv
  OBVIOUS
<1>1. MarketTypeOK
  BY MarketplaceAssumption DEF MarketInit, MarketTypeOK, NoOffer, NoMandate, OfferStates
<1>2. ASSUME NEW i \in Investors
      PROVE  wallet[i] + SumTo(Holdings(i), NOffers) = Wealth[i]
  <2>1. Holdings(i) \in [1..NOffers -> Int] /\ \A k \in 1..NOffers : Holdings(i)[k] = 0
    BY DEF MarketInit, Holdings, InEscrow, Uncommitted, NoOffer, NoMandate, Offers
  <2>2. SumTo(Holdings(i), NOffers) = 0
    BY <2>1, SumZero, MarketplaceAssumption
  <2> QED
    BY <2>2, MarketplaceAssumption DEF MarketInit
<1>3. \A k \in Offers : escrow[k] = InEscrow(k) + dust[k]
  BY DEF MarketInit, InEscrow, Uncommitted, NoOffer
<1>4. MandatesAsOffered
  BY DEF MarketInit, MandatesAsOffered, NoOffer
<1> QED
  BY <1>1, <1>2, <1>3, <1>4 DEF MarketInv, CapitalKept

LEMMA PostOfferStep ==
  ASSUME MarketInv, NEW k \in Offers, NEW principal \in Principals, NEW terms \in OfferTerms,
         PostOffer(k, principal, terms)
  PROVE  MarketInv'
<1>0. principal \in Nat /\ InvestorOf[k] \in Investors /\ wallet[InvestorOf[k]] \in Nat
  BY MarketplaceAssumption DEF Offers, MarketInv, MarketTypeOK
<1>1. MarketTypeOK'
  BY <1>0 DEF MarketInv, MarketTypeOK, PostOffer, OfferStates
<1>2. /\ InEscrow(k) = 0 /\ InEscrow(k)' = principal /\ mandate'[k] = mandate[k]
      /\ escrow[k] = dust[k] /\ escrow'[k] = escrow[k] + principal /\ dust'[k] = dust[k]
  BY <1>0 DEF MarketInv, MarketTypeOK, CapitalKept, PostOffer, InEscrow, Uncommitted, NoOffer
<1>3. Held(k)' = Held(k) + principal /\ escrow'[k] = InEscrow(k)' + dust'[k]
  BY <1>0, <1>2 DEF Held, MarketInv, MarketTypeOK
<1>4. CapitalKept'
  <2>1. /\ \A j \in Offers \ {k} : offer'[j] = offer[j] /\ mandate'[j] = mandate[j]
        /\ \A j \in Offers \ {k} : escrow'[j] = escrow[j] /\ dust'[j] = dust[j]
        /\ wallet' = [wallet EXCEPT ![InvestorOf[k]] = @ - principal]
    BY DEF PostOffer, MarketInv, MarketTypeOK
  <2>2. principal \in Int
    BY <1>0
  <2> QED
    BY <1>1, <1>3, <2>1, <2>2, CapitalMoves
<1>5. MandatesAsOffered'
  BY DEF MarketInv, MarketTypeOK, MandatesAsOffered, PostOffer
<1> QED
  BY <1>1, <1>4, <1>5 DEF MarketInv

LEMMA RevokeOfferStep ==
  ASSUME MarketInv, NEW k \in Offers, RevokeOffer(k)
  PROVE  MarketInv'
<1> DEFINE amount == offer[k].principal
<1>0. amount \in Nat /\ InvestorOf[k] \in Investors
  BY MarketplaceAssumption DEF Offers, MarketInv, MarketTypeOK
<1>1. MarketTypeOK'
  <2>1. escrow[k] \in Nat /\ escrow[k] - amount \in Nat /\ wallet[InvestorOf[k]] + amount \in Nat
    BY <1>0 DEF MarketInv, MarketTypeOK, RevokeOffer, Revocable
  <2>2. escrow' \in [Offers -> Nat]
    BY <2>1 DEF MarketInv, MarketTypeOK, RevokeOffer, Revocable
  <2>3. wallet' \in [Investors -> Nat]
    BY <2>1 DEF MarketInv, MarketTypeOK, RevokeOffer, Revocable
  <2>4. offer' \in [Offers -> [state : OfferStates, principal : Nat,
                              terms : SUBSET OfferTerms, expired : BOOLEAN]]
    <3>1. offer' = [offer EXCEPT ![k].state = "Revoked"]
      BY DEF RevokeOffer
    <3> QED
      BY <3>1 DEF MarketInv, MarketTypeOK, OfferStates
  <2> QED
    BY <2>2, <2>3, <2>4 DEF MarketInv, MarketTypeOK, RevokeOffer, Revocable
<1>2. /\ InEscrow(k) = amount /\ InEscrow(k)' = 0 /\ mandate'[k] = mandate[k]
      /\ escrow[k] = amount + dust[k] /\ escrow'[k] = escrow[k] - amount /\ dust'[k] = dust[k]
  BY <1>0 DEF MarketInv, MarketTypeOK, CapitalKept, RevokeOffer, Revocable, InEscrow, Uncommitted
<1> HIDE DEF amount
<1>3. Held(k)' = Held(k) + (-amount) /\ escrow'[k] = InEscrow(k)' + dust'[k]
  BY <1>0, <1>2 DEF Held, MarketInv, MarketTypeOK
<1>4. wallet' = [wallet EXCEPT ![InvestorOf[k]] = @ - (-amount)]
  <2>1. wallet' = [wallet EXCEPT ![InvestorOf[k]] = wallet[InvestorOf[k]] + amount]
    BY DEF RevokeOffer, amount
  <2>2. wallet[InvestorOf[k]] + amount = wallet[InvestorOf[k]] - (-amount)
    BY <1>0 DEF MarketInv, MarketTypeOK
  <2> QED
    BY <2>1, <2>2
<1>5. CapitalKept'
  <2>1. /\ \A j \in Offers \ {k} : offer'[j] = offer[j] /\ mandate'[j] = mandate[j]
        /\ \A j \in Offers \ {k} : escrow'[j] = escrow[j] /\ dust'[j] = dust[j]
    BY DEF RevokeOffer, MarketInv, MarketTypeOK
  <2>2. -amount \in Int
    BY <1>0
  <2> QED
    BY <1>1, <1>3, <1>4, <2>1, <2>2, CapitalMoves
<1>6. MandatesAsOffered'
  BY DEF MarketInv, MarketTypeOK, MandatesAsOffered, RevokeOffer
<1> QED
  BY <1>1, <1>5, <1>6 DEF MarketInv

LEMMA AcceptOfferStep ==
  ASSUME MarketInv, NEW k \in Offers, AcceptOffer(k)
  PROVE  MarketInv'
<1> DEFINE principal == offer[k].principal
<1>0. principal \in Nat /\ InvestorOf[k] \in Investors /\ TraderOf[k] \in Traders
  BY MarketplaceAssumption DEF Offers, MarketInv, MarketTypeOK
<1>1. MarketTypeOK'
  <2>1. escrow[k] - principal \in Nat /\ active[TraderOf[k]] + 1 \in Nat
    BY <1>0 DEF MarketInv, MarketTypeOK, AcceptOffer
  <2>2. escrow' \in [Offers -> Nat] /\ active' \in [Traders -> Nat]
    BY <2>1 DEF MarketInv, MarketTypeOK, AcceptOffer
  <2>3. offer' \in [Offers -> [state : OfferStates, principal : Nat,
                              terms : SUBSET OfferTerms, expired : BOOLEAN]]
    BY DEF MarketInv, MarketTypeOK, AcceptOffer, OfferStates
  <2>4. NewMandate(principal, offer[k].terms) \in
           [state : {"none", "Active", "Settled"}, principal : Nat,
            terms : SUBSET (OfferTerms \cup DirectTerms), arrived : Nat]
    BY <1>0 DEF MarketInv, MarketTypeOK, NewMandate
  <2>5. mandate' \in [Offers -> [state : {"none", "Active", "Settled"}, principal : Nat,
                                terms : SUBSET (OfferTerms \cup DirectTerms), arrived : Nat]]
    BY <2>4 DEF MarketInv, MarketTypeOK, AcceptOffer
  <2> QED
    BY <2>2, <2>3, <2>5 DEF MarketInv, MarketTypeOK, AcceptOffer
<1>2. /\ InEscrow(k) = principal /\ InEscrow(k)' = 0
      /\ mandate[k].arrived = 0 /\ mandate'[k] = NewMandate(principal, offer[k].terms)
      /\ mandate'[k].arrived = principal
      /\ escrow[k] = principal + dust[k] /\ escrow'[k] = escrow[k] - principal
      /\ dust'[k] = dust[k]
  BY <1>0 DEF MarketInv, MarketTypeOK, CapitalKept, AcceptOffer, InEscrow, Uncommitted,
              NoMandate, NewMandate
<1> HIDE DEF principal
<1>3. Held(k)' = Held(k) + 0 /\ escrow'[k] = InEscrow(k)' + dust'[k]
  BY <1>0, <1>2 DEF Held, MarketInv, MarketTypeOK
<1>4. wallet' = [wallet EXCEPT ![InvestorOf[k]] = @ - 0]
  BY <1>0 DEF AcceptOffer, MarketInv, MarketTypeOK
<1>5. CapitalKept'
  <2>1. /\ \A j \in Offers \ {k} : offer'[j] = offer[j] /\ mandate'[j] = mandate[j]
        /\ \A j \in Offers \ {k} : escrow'[j] = escrow[j] /\ dust'[j] = dust[j]
    BY DEF AcceptOffer, MarketInv, MarketTypeOK
  <2>2. 0 \in Int
    OBVIOUS
  <2> QED
    BY <1>1, <1>3, <1>4, <2>1, <2>2, CapitalMoves
<1>6. MandatesAsOffered'
  <2>1. offer'[k].terms = offer[k].terms /\ offer'[k].principal = offer[k].principal
    BY DEF AcceptOffer, MarketInv, MarketTypeOK
  <2>2. mandate'[k] # NoMandate /\ mandate'[k].terms = offer'[k].terms
        /\ mandate'[k].principal = offer'[k].principal
        /\ mandate'[k].arrived = offer'[k].principal
    BY <1>2, <2>1 DEF NewMandate, NoMandate, principal
  <2>3. \A j \in Offers \ {k} : offer'[j] = offer[j] /\ mandate'[j] = mandate[j]
    BY DEF AcceptOffer, MarketInv, MarketTypeOK
  <2> QED
    BY <2>2, <2>3 DEF MarketInv, MandatesAsOffered
<1> QED
  BY <1>1, <1>5, <1>6 DEF MarketInv

LEMMA FundMandateStep ==
  ASSUME MarketInv, NEW k \in Offers, NEW principal \in Principals, NEW terms \in DirectTerms,
         FundMandate(k, principal, terms)
  PROVE  MarketInv'
<1>0. /\ principal \in Nat /\ InvestorOf[k] \in Investors /\ TraderOf[k] \in Traders
      /\ wallet[InvestorOf[k]] \in Nat
  BY MarketplaceAssumption DEF Offers, MarketInv, MarketTypeOK
<1>1. MarketTypeOK'
  BY <1>0 DEF MarketInv, MarketTypeOK, FundMandate, NewMandate
<1>2. /\ InEscrow(k)' = InEscrow(k) /\ mandate[k].arrived = 0 /\ mandate'[k].arrived = principal
      /\ escrow[k] = InEscrow(k) + dust[k] /\ escrow' = escrow /\ dust' = dust
  BY <1>0 DEF MarketInv, MarketTypeOK, CapitalKept, FundMandate, InEscrow, Uncommitted,
              NoMandate, NewMandate
<1>3. Held(k)' = Held(k) + principal /\ escrow'[k] = InEscrow(k)' + dust'[k]
  BY <1>0, <1>2, HeldNat DEF Held, MarketInv
<1>4. CapitalKept'
  <2>1. /\ \A j \in Offers \ {k} : offer'[j] = offer[j] /\ mandate'[j] = mandate[j]
        /\ \A j \in Offers \ {k} : escrow'[j] = escrow[j] /\ dust'[j] = dust[j]
        /\ wallet' = [wallet EXCEPT ![InvestorOf[k]] = @ - principal]
    BY DEF FundMandate, MarketInv, MarketTypeOK
  <2>2. principal \in Int
    BY <1>0
  <2> QED
    BY <1>1, <1>3, <2>1, <2>2, CapitalMoves
<1>5. MandatesAsOffered'
  <2>1. offer[k].state # "Accepted"
    BY DEF FundMandate, MarketInv, MandatesAsOffered
  <2>2. offer' = offer /\ \A j \in Offers \ {k} : mandate'[j] = mandate[j]
    BY DEF FundMandate, MarketInv, MarketTypeOK
  <2> QED
    BY <2>1, <2>2 DEF MarketInv, MandatesAsOffered
<1> QED
  BY <1>1, <1>4, <1>5 DEF MarketInv

(* The steps that move no investor's capital. *)
LEMMA NoCapitalStep ==
  ASSUME MarketInv, NEW k \in Offers,
         DeclineOffer(k) \/ EndMandate(k) \/ Expire(k) \/ SendDust(k)
  PROVE  MarketInv'
<1>0. InvestorOf[k] \in Investors /\ TraderOf[k] \in Traders
  BY MarketplaceAssumption DEF Offers
<1>1. MarketTypeOK'
  <2>1. CASE DeclineOffer(k) \/ Expire(k)
    <3>1. \/ offer' = [offer EXCEPT ![k].state = "Declined"]
          \/ offer' = [offer EXCEPT ![k].expired = TRUE]
      BY <2>1 DEF DeclineOffer, Expire
    <3>2. offer' \in [Offers -> [state : OfferStates, principal : Nat,
                                terms : SUBSET OfferTerms, expired : BOOLEAN]]
      <4>1. CASE offer' = [offer EXCEPT ![k].state = "Declined"]
        BY <4>1 DEF MarketInv, MarketTypeOK, OfferStates
      <4>2. CASE offer' = [offer EXCEPT ![k].expired = TRUE]
        BY <4>2 DEF MarketInv, MarketTypeOK
      <4> QED
        BY <3>1, <4>1, <4>2
    <3> QED
      BY <2>1, <3>2 DEF MarketInv, MarketTypeOK, DeclineOffer, Expire
  <2>2. CASE EndMandate(k)
    <3>1. (IF active[TraderOf[k]] > 0 THEN active[TraderOf[k]] - 1 ELSE 0) \in Nat
      BY <1>0 DEF MarketInv, MarketTypeOK
    <3>2. active' \in [Traders -> Nat]
      BY <2>2, <3>1 DEF MarketInv, MarketTypeOK, EndMandate
    <3>3. mandate' \in [Offers -> [state : {"none", "Active", "Settled"}, principal : Nat,
                                  terms : SUBSET (OfferTerms \cup DirectTerms), arrived : Nat]]
      BY <2>2 DEF MarketInv, MarketTypeOK, EndMandate
    <3> QED
      BY <2>2, <3>2, <3>3 DEF MarketInv, MarketTypeOK, EndMandate
  <2>3. CASE SendDust(k)
    BY <2>3 DEF MarketInv, MarketTypeOK, SendDust
  <2> QED
    BY <2>1, <2>2, <2>3
<1>2. /\ InEscrow(k)' = InEscrow(k) /\ mandate'[k].arrived = mandate[k].arrived
      /\ \A j \in Offers \ {k} : offer'[j] = offer[j] /\ mandate'[j] = mandate[j]
      /\ wallet' = wallet
  BY DEF MarketInv, MarketTypeOK, DeclineOffer, EndMandate, Expire, SendDust, InEscrow,
         Uncommitted
<1>3. /\ escrow[k] = InEscrow(k) + dust[k]
      /\ \A j \in Offers \ {k} : escrow'[j] = escrow[j] /\ dust'[j] = dust[j]
      /\ \/ escrow'[k] = escrow[k] /\ dust'[k] = dust[k]
         \/ escrow'[k] = escrow[k] + 1 /\ dust'[k] = dust[k] + 1
  BY DEF MarketInv, MarketTypeOK, CapitalKept, DeclineOffer, EndMandate, Expire, SendDust
<1>4. InEscrow(k) \in Nat /\ dust[k] \in Nat
  BY HeldNat DEF MarketInv, MarketTypeOK
<1>5. Held(k)' = Held(k) + 0 /\ escrow'[k] = InEscrow(k)' + dust'[k]
  BY <1>2, <1>3, <1>4, HeldNat DEF Held, MarketInv
<1>6. wallet' = [wallet EXCEPT ![InvestorOf[k]] = @ - 0]
  BY <1>0, <1>2 DEF MarketInv, MarketTypeOK
<1>7. CapitalKept'
  <2>1. 0 \in Int
    OBVIOUS
  <2> QED
    BY <1>1, <1>2, <1>3, <1>5, <1>6, <2>1, CapitalMoves
<1>8. MandatesAsOffered'
  <2>1. ASSUME NEW j \in Offers, offer'[j].state = "Accepted"
        PROVE  /\ offer[j].state = "Accepted"
               /\ offer'[j].terms = offer[j].terms /\ offer'[j].principal = offer[j].principal
    BY <2>1 DEF MarketInv, MarketTypeOK, DeclineOffer, EndMandate, Expire, SendDust
  <2>2. ASSUME NEW j \in Offers, mandate[j] # NoMandate
        PROVE  /\ mandate'[j].terms = mandate[j].terms
               /\ mandate'[j].principal = mandate[j].principal
               /\ mandate'[j].arrived = mandate[j].arrived
               /\ mandate'[j] # NoMandate
    <3>1. CASE EndMandate(k)
      BY <3>1, <2>2 DEF MarketInv, MarketTypeOK, EndMandate, NoMandate
    <3>2. CASE ~ EndMandate(k)
      BY <3>2, <2>2 DEF DeclineOffer, Expire, SendDust
    <3> QED
      BY <3>1, <3>2
  <2> QED
    BY <2>1, <2>2 DEF MarketInv, MandatesAsOffered
<1> QED
  BY <1>1, <1>7, <1>8 DEF MarketInv

LEMMA MarketStep == MarketInv /\ [MarketNext]_marketVars => MarketInv'
<1> SUFFICES ASSUME MarketInv, [MarketNext]_marketVars PROVE MarketInv'
  OBVIOUS
<1>1. CASE \E k \in Offers, p \in Principals, r \in OfferTerms : PostOffer(k, p, r)
  BY <1>1, PostOfferStep
<1>2. CASE \E k \in Offers : RevokeOffer(k) \/ AcceptOffer(k)
  BY <1>2, RevokeOfferStep, AcceptOfferStep
<1>3. CASE \E k \in Offers : DeclineOffer(k) \/ EndMandate(k) \/ Expire(k) \/ SendDust(k)
  BY <1>3, NoCapitalStep
<1>4. CASE \E k \in Offers, p \in Principals, r \in DirectTerms : FundMandate(k, p, r)
  BY <1>4, FundMandateStep
<1>5. CASE \/ \E t \in Traders, earned \in Tiers : RecomputeTier(t, earned)
           \/ SetPaused
           \/ UNCHANGED marketVars
  <2>1. UNCHANGED <<active, offer, escrow, mandate, wallet, dust>>
    BY <1>5 DEF RecomputeTier, SetPaused, marketVars
  <2>2. MarketTypeOK'
    BY <1>5, <2>1 DEF MarketInv, MarketTypeOK, RecomputeTier, SetPaused, marketVars
  <2> QED
    BY <2>1, <2>2 DEF MarketInv, CapitalKept, MandatesAsOffered, Holdings, InEscrow, Uncommitted
<1> QED
  BY <1>1, <1>2, <1>3, <1>4, <1>5 DEF MarketNext

(* Whatever the two doors, the pauses, the tiers and the strangers do in    *)
(* between, every unit of an investor's capital is in the wallet, in an     *)
(* escrow nobody has signed for, or in a mandate of theirs; a mandate that  *)
(* came from an offer is the one that was offered; and what nobody has      *)
(* signed for can be taken back.                                            *)
THEOREM OfferedCapitalAlwaysSafe == MarketSpec => []OfferedCapitalIsSafe
<1>1. MarketInv => NothingStranded
  <2> SUFFICES ASSUME MarketInv, NEW k \in Offers, Uncommitted(k)
               PROVE  escrow[k] >= offer[k].principal
    BY DEF NothingStranded, Revocable, Uncommitted
  <2>1. escrow[k] = offer[k].principal + dust[k]
    BY DEF MarketInv, CapitalKept, InEscrow
  <2>2. offer[k].principal \in Nat /\ dust[k] \in Nat
    BY DEF MarketInv, MarketTypeOK
  <2> QED
    BY <2>1, <2>2
<1>2. MarketInv => OfferedCapitalIsSafe
  BY <1>1 DEF MarketInv, OfferedCapitalIsSafe
<1> QED
  BY MarketStarts, MarketStep, <1>2, PTL DEF MarketSpec

-----------------------------------------------------------------------------
(* The brokers' rebates.  A sync turns a trader's share into no more than   *)
(* itself, so what waits and what is still to be synced grow together only  *)
(* when the core earmarks.                                                  *)

RebateInv ==
    /\ ReferralTypeOK
    /\ \A c \in Clients : creditedShare[c] <= generated[c]
    /\ RebatesCovered

LEMMA TierShareNat ==
  ASSUME NEW volume \in Nat
  PROVE  TierShare(volume) \in Nat
<1> DEFINE above == {t \in ShareTiers : volume < t.bound}
<1>1. CASE above = {}
  BY <1>1, ReferralAssumption DEF TierShare, TierValue
<1>2. CASE above # {}
  <2>1. \A t \in ShareTiers : t.bound \in Nat /\ t.value \in Nat
    BY ReferralAssumption
  <2> DEFINE bounds == {n \in Nat : \E t \in above : t.bound = n}
  <2>2. PICK n \in bounds : \A m \in bounds : n <= m
    <3>1. bounds # {} /\ bounds \subseteq Nat
      BY <1>2, <2>1
    <3> HIDE DEF bounds
    <3> QED
      BY <3>1, LeastNatural
  <2>3. PICK t \in above : \A o \in above : t.bound <= o.bound
    BY <2>1, <2>2
  <2>4. (CHOOSE u \in above : \A o \in above : u.bound <= o.bound) \in above
    BY <2>3
  <2> QED
    BY <1>2, <2>1, <2>4 DEF TierShare, TierValue
<1> QED
  BY <1>1, <1>2

(* entitlement and parent_override share out no more than the share. *)
LEMMA SharedWithin ==
  ASSUME NEW share \in Nat, NEW split \in Nat, NEW rate \in Nat
  PROVE  LET earned == Entitlement(share, split, rate)
         IN  /\ earned \in Nat
             /\ Override(earned, share) \in Nat
             /\ earned + Override(earned, share) <= share
<1> DEFINE earned == Entitlement(share, split, rate)
<1>0. Bps \in Nat \ {0} /\ OverrideBps \in Nat
  BY ScalesAssumption, ReferralAssumption
<1>1. earned \in Nat /\ earned <= share
  <2>1. CASE share = 0 \/ split = 0
    BY <2>1 DEF Entitlement
  <2>2. CASE ~ (share = 0 \/ split = 0)
    <3> DEFINE fees == MulDivFloor(share, Bps, split)
    <3>1. fees \in Nat
      BY <1>0, <2>2, FloorNat
    <3> HIDE DEF fees
    <3>2. MulDivFloor(fees, rate, Bps) \in Nat
      BY <1>0, <3>1, FloorNat
    <3>3. earned = Lesser(MulDivFloor(fees, rate, Bps), share)
      BY <2>2 DEF Entitlement, fees
    <3> QED
      BY <3>2, <3>3 DEF Lesser
  <2> QED
    BY <2>1, <2>2
<1> HIDE DEF earned
<1>2. MulDivFloor(earned, OverrideBps, Bps) \in Nat
  BY <1>0, <1>1, FloorNat
<1>3. Override(earned, share) \in Nat /\ earned + Override(earned, share) <= share
  BY <1>1, <1>2 DEF Override, Lesser
<1> QED
  BY <1>1, <1>3 DEF earned

LEMMA RebateStarts == ReferralInit => RebateInv
<1> SUFFICES ASSUME ReferralInit PROVE RebateInv
  OBVIOUS
<1>1. ReferralTypeOK
  BY ReferralAssumption DEF ReferralInit, ReferralTypeOK
<1>2. SumTo(unclaimed, NIbs) = 0
  BY SumZero, ReferralAssumption DEF ReferralInit, Ibs
<1>3. SumTo(Unsynced, NClients) = 0
  <2>1. Unsynced \in [1..NClients -> Int] /\ \A c \in 1..NClients : Unsynced[c] = 0
    BY DEF ReferralInit, Unsynced, Clients
  <2> QED
    BY <2>1, SumZero, ReferralAssumption
<1> QED
  BY <1>1, <1>2, <1>3 DEF ReferralInit, RebateInv, RebatesCovered

LEMMA EarmarkNat ==
  ASSUME ReferralTypeOK, NEW c \in Clients, NEW fee \in ReferredFees
  PROVE  Earmark(c, fee) \in Nat
<1>1. fee \in Nat /\ feeSplitReferral \in Nat /\ Bps \in Nat \ {0}
  BY ReferralAssumption, ScalesAssumption DEF ReferralTypeOK
<1> QED
  BY <1>1, FloorNat DEF Earmark

(* What is still to be synced moves with the one trader concerned. *)
LEMMA UnsyncedMoves ==
  ASSUME RebateInv, NEW c \in Clients, NEW v \in Int,
         generated'[c] - creditedShare'[c] = v,
         \A d \in Clients \ {c} :
             generated'[d] = generated[d] /\ creditedShare'[d] = creditedShare[d]
  PROVE  SumTo(Unsynced, NClients)'
           = SumTo(Unsynced, NClients) - (generated[c] - creditedShare[c]) + v
<1>1. Unsynced \in [1..NClients -> Int] /\ c \in 1..NClients /\ NClients \in Nat
  BY ReferralAssumption DEF RebateInv, ReferralTypeOK, Unsynced, Clients
<1>2. Unsynced' = [Unsynced EXCEPT ![c] = v]
  <2>1. Unsynced' = [d \in Clients |-> generated'[d] - creditedShare'[d]]
    BY DEF Unsynced
  <2>2. Unsynced = [d \in Clients |-> generated[d] - creditedShare[d]]
    BY DEF Unsynced
  <2> QED
    BY <2>1, <2>2
<1>3. SumTo([Unsynced EXCEPT ![c] = v], NClients) = SumTo(Unsynced, NClients) - Unsynced[c] + v
  BY <1>1, SumUpdate
<1>4. Unsynced[c] = generated[c] - creditedShare[c]
  BY DEF Unsynced
<1> QED
  BY <1>2, <1>3, <1>4

LEMMA SumsTyped ==
  ASSUME RebateInv
  PROVE  SumTo(unclaimed, NIbs) \in Int /\ SumTo(Unsynced, NClients) \in Int
<1>1. unclaimed \in [1..NIbs -> Int] /\ Unsynced \in [1..NClients -> Int]
  BY DEF RebateInv, ReferralTypeOK, Unsynced, Clients, Ibs
<1> QED
  BY <1>1, SumInt, ReferralAssumption

(* Trades, liquidations and deleveragings earmark at least what they count. *)
LEMMA TradeEarmarks ==
  ASSUME RebateInv, NEW c \in Clients, NEW fee \in ReferredFees, NEW n \in ReferredNotionals,
         ReferredTrade(c, fee, n)
  PROVE  RebateInv'
<1> DEFINE e == Earmark(c, fee)
<1>1. e \in Nat /\ n \in Nat
  BY EarmarkNat, ReferralAssumption DEF RebateInv
<1>2. /\ earmarked' = earmarked + e
      /\ generated' = [generated EXCEPT ![c] = @ + e]
      /\ tradedVolume' = [tradedVolume EXCEPT ![c] = @ + n]
      /\ UNCHANGED <<feeSplitReferral, claimed, payoutsOn, poolSplit, ibVars, linkVars>>
  BY DEF ReferredTrade
<1> HIDE DEF e
<1>3. ReferralTypeOK' /\ \A d \in Clients : creditedShare'[d] <= generated'[d]
  BY <1>1, <1>2 DEF RebateInv, ReferralTypeOK, ibVars, linkVars
<1>4. /\ generated[c] \in Nat /\ creditedShare[c] \in Nat
      /\ generated'[c] - creditedShare'[c] = generated[c] - creditedShare[c] + e
      /\ \A d \in Clients \ {c} :
             generated'[d] = generated[d] /\ creditedShare'[d] = creditedShare[d]
  BY <1>1, <1>2 DEF RebateInv, ReferralTypeOK, linkVars
<1>5. SumTo(Unsynced, NClients)' = SumTo(Unsynced, NClients) + e
  <2> DEFINE v == generated[c] - creditedShare[c] + e
  <2>1. v \in Int /\ generated'[c] - creditedShare'[c] = v
    BY <1>1, <1>4
  <2> HIDE DEF v
  <2>2. SumTo(Unsynced, NClients)'
          = SumTo(Unsynced, NClients) - (generated[c] - creditedShare[c]) + v
    BY <1>4, <2>1, UnsyncedMoves
  <2> QED
    BY <1>1, <1>4, <2>2, SumsTyped DEF v
<1>6. unclaimed' = unclaimed
  BY <1>2 DEF ibVars
<1>7. RebatesCovered'
  BY <1>1, <1>2, <1>4, <1>5, <1>6, SumsTyped DEF RebateInv, RebatesCovered, ReferralTypeOK
<1> QED
  BY <1>3, <1>7 DEF RebateInv

LEMMA KeeperEarmarks ==
  ASSUME RebateInv, NEW c \in Clients, NEW fee \in ReferredFees, KeeperClose(c, fee)
  PROVE  RebateInv'
<1> DEFINE e == Earmark(c, fee)
<1>1. e \in Nat
  BY EarmarkNat DEF RebateInv
<1>2. /\ earmarked' = earmarked + e
      /\ UNCHANGED <<feeSplitReferral, claimed, payoutsOn, generated, tradedVolume,
                     poolSplit, ibVars, linkVars>>
  BY DEF KeeperClose
<1> HIDE DEF e
<1>3. ReferralTypeOK' /\ \A d \in Clients : creditedShare'[d] <= generated'[d]
  BY <1>1, <1>2 DEF RebateInv, ReferralTypeOK, ibVars, linkVars
<1>4. unclaimed' = unclaimed /\ Unsynced' = Unsynced
  BY <1>2 DEF ibVars, linkVars, Unsynced
<1>5. RebatesCovered'
  BY <1>1, <1>2, <1>4, SumsTyped DEF RebateInv, RebatesCovered, ReferralTypeOK
<1> QED
  BY <1>3, <1>5 DEF RebateInv

LEMMA SyncTraderStep ==
  ASSUME RebateInv, NEW c \in Clients, NEW withParent \in BOOLEAN, SyncTrader(c, withParent)
  PROVE  RebateInv'
<1> DEFINE i        == ReferrerOf[c]
           share    == SatSub(generated[c], creditedShare[c])
           traded   == SatSub(tradedVolume[c], creditedVolume[c])
           volume   == referredVolume[i] + traded
           earned   == Entitlement(share, poolSplit, TierShare(volume))
           override == Override(earned, share)
           rebated  == [unclaimed EXCEPT ![i] = @ + earned]
           paid     == IF withParent /\ override > 0 THEN override ELSE 0
<1>1. i \in Ibs /\ (withParent => parent[i] \in Ibs)
  BY DEF SyncTrader, RebateInv, ReferralTypeOK
<1>2. share = generated[c] - creditedShare[c] /\ share \in Nat /\ traded \in Nat /\ volume \in Nat
  BY <1>1 DEF RebateInv, ReferralTypeOK, SatSub, Greater
<1>3. earned \in Nat /\ override \in Nat /\ earned + override <= share
  <2>1. poolSplit \in Nat
    BY ReferralAssumption DEF RebateInv, ReferralTypeOK
  <2>2. TierShare(volume) \in Nat
    BY <1>2, TierShareNat
  <2> HIDE DEF share, volume
  <2> QED
    BY <1>2, <2>1, <2>2, SharedWithin
<1>4. /\ referredVolume' = [referredVolume EXCEPT ![i] = volume]
      /\ unclaimed' = IF withParent /\ override > 0
                      THEN [rebated EXCEPT ![parent[i]] = @ + override] ELSE rebated
      /\ creditedShare' = [creditedShare EXCEPT ![c] = generated[c]]
      /\ creditedVolume' = [creditedVolume EXCEPT ![c] = tradedVolume[c]]
      /\ UNCHANGED <<coreVars, poolSplit, registered, parent>>
  BY DEF SyncTrader
<1> HIDE DEF i, share, traded, volume, earned, override
<1>5. rebated \in [Ibs -> Nat]
  BY <1>1, <1>3 DEF RebateInv, ReferralTypeOK
<1>6. unclaimed' \in [Ibs -> Nat]
  BY <1>1, <1>3, <1>4, <1>5
<1>7. ReferralTypeOK' /\ \A d \in Clients : creditedShare'[d] <= generated'[d]
  BY <1>1, <1>2, <1>4, <1>6 DEF RebateInv, ReferralTypeOK, coreVars
<1>8. SumTo(Unsynced, NClients)' = SumTo(Unsynced, NClients) - share
  <2>1. /\ generated'[c] - creditedShare'[c] = 0
        /\ \A d \in Clients \ {c} :
               generated'[d] = generated[d] /\ creditedShare'[d] = creditedShare[d]
    BY <1>4 DEF RebateInv, ReferralTypeOK, coreVars
  <2>2. 0 \in Int
    OBVIOUS
  <2>3. SumTo(Unsynced, NClients)'
          = SumTo(Unsynced, NClients) - (generated[c] - creditedShare[c]) + 0
    BY <2>1, <2>2, UnsyncedMoves
  <2> QED
    BY <1>2, <2>3, SumsTyped
<1>9. SumTo(unclaimed, NIbs)' = SumTo(unclaimed, NIbs) + earned + paid
  <2>0. NIbs \in Nat /\ unclaimed \in [1..NIbs -> Int] /\ rebated \in [1..NIbs -> Int] /\ i \in 1..NIbs
    BY <1>1, <1>5, ReferralAssumption DEF RebateInv, ReferralTypeOK, Ibs
  <2>1. SumTo(rebated, NIbs) = SumTo(unclaimed, NIbs) + earned
    <3> DEFINE v == unclaimed[i] + earned
    <3>1. v \in Int /\ unclaimed[i] \in Int
      BY <2>0, <1>3
    <3>2. SumTo([unclaimed EXCEPT ![i] = v], NIbs) = SumTo(unclaimed, NIbs) - unclaimed[i] + v
      BY <2>0, <3>1, SumUpdate
    <3>3. rebated = [unclaimed EXCEPT ![i] = v]
      OBVIOUS
    <3> QED
      BY <1>3, <3>1, <3>2, <3>3, SumsTyped
  <2>2. CASE ~ (withParent /\ override > 0)
    BY <1>3, <1>4, <2>1, <2>2, SumsTyped
  <2>3. CASE withParent /\ override > 0
    <3> DEFINE p == parent[i]
               v == rebated[p] + override
    <3>1. p \in 1..NIbs
      BY <1>1, <2>3 DEF Ibs
    <3>2. v \in Int /\ rebated[p] \in Int
      BY <2>0, <3>1, <1>3
    <3>3. unclaimed' = [rebated EXCEPT ![p] = v]
      BY <1>4, <2>3
    <3> HIDE DEF rebated, p, v
    <3>4. SumTo([rebated EXCEPT ![p] = v], NIbs) = SumTo(rebated, NIbs) - rebated[p] + v
      BY <2>0, <3>1, <3>2, SumUpdate
    <3>5. SumTo(unclaimed, NIbs)' = SumTo(rebated, NIbs) - rebated[p] + v
      BY <3>3, <3>4
    <3> QED
      BY <1>3, <2>1, <2>3, <3>2, <3>5, SumsTyped DEF v
  <2> QED
    BY <2>2, <2>3
<1>10. claimed' = claimed /\ earmarked' = earmarked
  BY <1>4 DEF coreVars
<1>11. earned + paid <= share /\ paid \in Nat
  <2>1. CASE withParent /\ override > 0
    BY <1>2, <1>3, <2>1
  <2>2. CASE ~ (withParent /\ override > 0)
    BY <1>2, <1>3, <2>2
  <2> QED
    BY <2>1, <2>2
<1> HIDE DEF paid
<1>12. RebatesCovered'
  BY <1>2, <1>3, <1>8, <1>9, <1>10, <1>11, SumsTyped DEF RebateInv, RebatesCovered, ReferralTypeOK
<1> QED
  BY <1>7, <1>12 DEF RebateInv

LEMMA ClaimRebateStep ==
  ASSUME RebateInv, NEW i \in Ibs, ClaimRebate(i)
  PROVE  RebateInv'
<1>1. unclaimed[i] \in Nat /\ claimed \in Nat
  BY DEF RebateInv, ReferralTypeOK
<1>2. ReferralTypeOK' /\ \A d \in Clients : creditedShare'[d] <= generated'[d]
  BY <1>1 DEF RebateInv, ReferralTypeOK, ClaimRebate, PayReferral, linkVars
<1>3. SumTo([unclaimed EXCEPT ![i] = 0], NIbs) = SumTo(unclaimed, NIbs) - unclaimed[i] + 0
  <2>1. /\ NIbs \in Nat /\ i \in 1..NIbs
        /\ unclaimed \in [1..NIbs -> Int]
    BY ReferralAssumption DEF RebateInv, ReferralTypeOK, Ibs
  <2>2. 0 \in Int
    OBVIOUS
  <2> QED
    BY <2>1, <2>2, SumUpdate
<1>4. SumTo(unclaimed, NIbs)' = SumTo(unclaimed, NIbs) - unclaimed[i] + 0
  BY <1>3 DEF ClaimRebate
<1>5. Unsynced' = Unsynced /\ claimed' = claimed + unclaimed[i] /\ earmarked' = earmarked
  BY DEF ClaimRebate, PayReferral, Unsynced, linkVars
<1>6. RebatesCovered'
  BY <1>1, <1>4, <1>5, SumsTyped DEF RebateInv, RebatesCovered, ReferralTypeOK
<1> QED
  BY <1>2, <1>6 DEF RebateInv

LEMMA RebateStep == RebateInv /\ [ReferralNext]_referralVars => RebateInv'
<1> SUFFICES ASSUME RebateInv, [ReferralNext]_referralVars PROVE RebateInv'
  OBVIOUS
<1>1. CASE \E c \in Clients, fee \in ReferredFees : KeeperClose(c, fee)
  BY <1>1, KeeperEarmarks
<1>2. CASE \E c \in Clients, fee \in ReferredFees, n \in ReferredNotionals : ReferredTrade(c, fee, n)
  BY <1>2, TradeEarmarks
<1>3. CASE \E c \in Clients, withParent \in BOOLEAN : SyncTrader(c, withParent)
  BY <1>3, SyncTraderStep
<1>4. CASE \E i \in Ibs : ClaimRebate(i)
  BY <1>4, ClaimRebateStep
<1>5. CASE \/ \E split \in ReferralSplits : UpdateFeeSplits(split)
           \/ SetReferralAuthority \/ SyncSplit
           \/ \E i \in Ibs, p \in Ibs \cup {NoIb} : RegisterIb(i, p)
           \/ UNCHANGED referralVars
  <2>1. UNCHANGED <<earmarked, claimed, generated, unclaimed, creditedShare>>
    BY <1>5 DEF UpdateFeeSplits, SetReferralAuthority, SyncSplit, RegisterIb,
                referralVars, coreVars, ibVars, linkVars
  <2>2. ReferralTypeOK'
    BY <1>5 DEF RebateInv, ReferralTypeOK, UpdateFeeSplits, SetReferralAuthority, SyncSplit,
                RegisterIb, referralVars, coreVars, ibVars, linkVars
  <2> QED
    BY <2>1, <2>2 DEF RebateInv, RebatesCovered, Unsynced
<1> QED
  BY <1>1, <1>2, <1>3, <1>4, <1>5 DEF ReferralNext

(* "An IB can never be paid more than was earmarked for referrals", in the  *)
(* form a claim needs: for any brokers, parents, tiers, splits and fees, in *)
(* any order of syncs and claims, pay_referral's check refuses no claim.    *)
THEOREM RebatesAlwaysCovered == ReferralSpec => []RebatesCovered
<1>1. RebateInv => RebatesCovered
  BY DEF RebateInv
<1> QED
  BY RebateStarts, RebateStep, <1>1, PTL DEF ReferralSpec
=============================================================================
