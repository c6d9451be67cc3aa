-------------------------- MODULE EvaluationProofs --------------------------
(***************************************************************************)
(* The evaluations, for any number of them, of positions and of orders,    *)
(* and for every price, size, spread, fee and limit: the record is the     *)
(* money, the stakes are all accounted for, a flat account that runs is    *)
(* within both loss limits, an order stays in its stage, and a position    *)
(* that ends before the minimum hold ends at a loss.                       *)
(*                                                                         *)
(* What an instruction does to the record of one evaluation is a function  *)
(* of that record, so that most of this is about a record e, the positions *)
(* ps and the orders os of one evaluation as values (Coherent).            *)
(***************************************************************************)
EXTENDS Evaluation, SolfxMathProofs, FiniteSetTheorems

States == {"None", "Active", "Passed", "Failed"}
Rules  == {"None", "Drawdown", "DailyLoss", "Abandoned"}

Record ==
    [state : States, rule : Rules, stage : 0..2, size : Nat, balance : Int,
     peak : Int, day : Int, dayStart : Int, dayPnl : Int, bestDay : Int,
     trades : Nat, wins : Nat, losses : Nat, grossProfit : Int, grossLoss : Int,
     voluntary : Nat, held : Int, tradingDays : Int, lastTradeDay : Int,
     open : Nat, pending : Nat]
Virtual ==
    [size : Nat, dir : Directions, entry : Int, notional : Int, stop : Int,
     target : Int, fee : Int, borrow : Int, openedAt : Int]
Order ==
    [size : Nat, dir : Directions, kind : {"Limit", "Stop"}, trigger : Int,
     stop : Int, target : Int, expires : Int, place : 0..Slots, stage : 0..2]

Fees(ps) == SumTo([k \in Places |-> ps[k].fee], Slots)
Used(S, f) == {i \in S : f[i].size > 0}
Held(ps) == Used(Places, ps)
Resting(os) == Used(OrderIds, os)

Within(e) ==
    /\ DrawdownBps(e, FloorEquity(e.balance)) <= MaxDrawdown
    /\ DailyLossBps(e, FloorEquity(e.balance)) <= MaxDailyLoss

(* What is true of a record beside its positions, *)
Ledger(e, ps) ==
    /\ e.balance = e.size + e.grossProfit - e.grossLoss - Fees(ps)
    /\ e.wins + e.losses = e.trades
    /\ e.open = Cardinality(Held(ps))
    /\ \A k \in Places : ps[k].size = 0 => ps[k].fee = 0

(* ... beside its orders, *)
Listed(e, os) ==
    /\ e.pending = Cardinality(Resting(os))
    /\ \A o \in OrderIds : os[o].size > 0 => os[o].stage = e.stage /\ os[o].place \in Places

(* ... and by itself. *)
Standing(e) ==
    /\ e.state = "None" => e.open = 0 /\ e.pending = 0
    /\ e.state # "None" => e.size > 0
    /\ e.state = "Active" /\ e.open = 0 => Within(e)

Coherent(e, ps, os) == Ledger(e, ps) /\ Listed(e, os) /\ Standing(e)

-----------------------------------------------------------------------------
(* The fees and the counts move with the one position or order replaced. *)

LEMMA FeesTyped ==
  ASSUME NEW ps \in [Places -> Virtual]
  PROVE  Fees(ps) \in Int
<1>1. [k \in Places |-> ps[k].fee] \in [1..Slots -> Int]
  BY DEF Places, Virtual
<1> QED
  BY <1>1, SumInt, EvaluationAssumption DEF Fees

LEMMA FeesMove ==
  ASSUME NEW ps \in [Places -> Virtual], NEW k \in Places, NEW p \in Virtual
  PROVE  Fees([ps EXCEPT ![k] = p]) = Fees(ps) - ps[k].fee + p.fee
<1> DEFINE f == [i \in Places |-> ps[i].fee]
           g == [i \in Places |-> [ps EXCEPT ![k] = p][i].fee]
<1>1. f \in [1..Slots -> Int] /\ p.fee \in Int /\ k \in 1..Slots /\ f[k] = ps[k].fee
  BY DEF Places, Virtual
<1>2. g = [f EXCEPT ![k] = p.fee]
  OBVIOUS
<1> HIDE DEF f, g
<1>s. Slots \in Nat
  BY EvaluationAssumption
<1>3. SumTo(g, Slots) = SumTo(f, Slots) - f[k] + p.fee
  <2>1. SumTo([f EXCEPT ![k] = p.fee], Slots) = SumTo(f, Slots) - f[k] + p.fee
    BY <1>1, <1>s, SumUpdate
  <2> QED
    BY <1>2, <2>1
<1> QED
  BY <1>1, <1>3 DEF Fees, f, g

LEMMA NoFees ==
  ASSUME NEW ps \in [Places -> Virtual], \A k \in Places : ps[k].fee = 0
  PROVE  Fees(ps) = 0
<1>1. [k \in Places |-> ps[k].fee] \in [1..Slots -> Int]
  BY DEF Places, Virtual
<1> QED
  BY <1>1, SumZero, EvaluationAssumption DEF Fees, Places

(* Counting the members of a table that are in use. *)
LEMMA CountFinite ==
  ASSUME NEW S, IsFiniteSet(S), NEW f
  PROVE  /\ IsFiniteSet(Used(S, f)) /\ Cardinality(Used(S, f)) \in Nat
         /\ Cardinality(Used(S, f)) = 0 <=> Used(S, f) = {}
<1>1. Used(S, f) \in SUBSET S
  BY DEF Used
<1>2. IsFiniteSet(Used(S, f))
  BY <1>1, FS_Subset
<1> QED
  BY <1>2, FS_CardinalityType, FS_EmptySet

LEMMA CountAdds ==
  ASSUME NEW S, IsFiniteSet(S), NEW f, NEW g, NEW k \in S,
         f[k].size = 0, g[k].size > 0, \A i \in S \ {k} : g[i] = f[i]
  PROVE  Cardinality(Used(S, g)) = Cardinality(Used(S, f)) + 1
<1>1. Used(S, g) = Used(S, f) \cup {k} /\ k \notin Used(S, f)
  BY DEF Used
<1> QED
  BY <1>1, CountFinite, FS_AddElement

LEMMA CountTakes ==
  ASSUME NEW S, IsFiniteSet(S), NEW f, NEW g, NEW k \in S,
         f[k].size > 0, g[k].size = 0, \A i \in S \ {k} : g[i] = f[i]
  PROVE  /\ Cardinality(Used(S, g)) = Cardinality(Used(S, f)) - 1
         /\ Cardinality(Used(S, f)) > 0
<1>1. Used(S, g) = Used(S, f) \ {k} /\ k \in Used(S, f)
  BY DEF Used
<1>2. Cardinality(Used(S, g)) = Cardinality(Used(S, f)) - 1
  BY <1>1, CountFinite, FS_RemoveElement
<1>3. Cardinality(Used(S, f)) # 0 /\ Cardinality(Used(S, f)) \in Nat
  BY <1>1, CountFinite
<1> QED
  BY <1>2, <1>3

LEMMA Finite == IsFiniteSet(Places) /\ IsFiniteSet(OrderIds)
  BY EvaluationAssumption, FS_Interval DEF Places

-----------------------------------------------------------------------------
(* Losses in basis points, and prices. *)

LEMMA LossTyped ==
  ASSUME NEW from \in Int, NEW equity \in Int
  PROVE  LossBps(from, equity) \in Int
<1>1. Greater(from, 1) \in Nat \ {0} /\ SatSub(Greater(from, 1), equity) \in Int /\ Bps \in Int
  BY ScalesAssumption DEF Greater, SatSub
<1> QED
  BY <1>1, CeilInt DEF LossBps

LEMMA NoLoss ==
  ASSUME NEW size \in Nat \ {0}
  PROVE  LossBps(size, FloorEquity(size)) = 0
<1>1. Greater(size, 1) = size /\ FloorEquity(size) = size /\ SatSub(size, size) = 0
  BY DEF Greater, FloorEquity, SatSub
<1>2. LossBps(size, FloorEquity(size)) = MulDivCeil(0, Bps, size)
  BY <1>1 DEF LossBps
<1>3. MulDivCeil(0, Bps, size) = 0
  <2>1. -(0 * Bps) = 0
    BY ScalesAssumption
  <2>2. 0 \div size = 0
    OBVIOUS
  <2> QED
    BY <2>1, <2>2 DEF MulDivCeil
<1> QED
  BY <1>2, <1>3
-----------------------------------------------------------------------------
(* What each function of the record leaves alone. *)

SameBook(e, f) ==
    /\ f.stage = e.stage /\ f.size = e.size /\ f.balance = e.balance
    /\ f.trades = e.trades /\ f.wins = e.wins /\ f.losses = e.losses
    /\ f.grossProfit = e.grossProfit /\ f.grossLoss = e.grossLoss
    /\ f.open = e.open /\ f.pending = e.pending

(* A state changes once, from Active to Failed; a pass is apart. *)
Turns(e, f) == f.state = e.state \/ (e.state = "Active" /\ f.state = "Failed")

LEMMA FloorTypedEquity ==
  ASSUME NEW v \in Int
  PROVE  FloorEquity(v) \in Nat
BY DEF FloorEquity, Greater

LEMMA RollDayKeeps ==
  ASSUME now \in Nat, NEW e \in Record, NEW equity \in Int
  PROVE  /\ RollDay(e, equity) \in Record
         /\ SameBook(e, RollDay(e, equity))
         /\ RollDay(e, equity).state = e.state
<1>1. Today \in Int
  BY DivFloors, EvaluationAssumption DEF Today
<1> HIDE DEF Today
<1> DEFINE a == [e EXCEPT !.day = Today]
           b == [a EXCEPT !.dayStart = equity]
           c == [b EXCEPT !.dayPnl = 0]
<1>2. c \in Record /\ SameBook(e, c) /\ c.state = e.state
  <2>1. a \in Record /\ SameBook(e, a) /\ a.state = e.state
    BY <1>1 DEF Record, SameBook
  <2> HIDE DEF a
  <2>2. b \in Record /\ SameBook(a, b) /\ b.state = a.state
    BY <2>1 DEF Record, SameBook
  <2> HIDE DEF b
  <2>3. c \in Record /\ SameBook(b, c) /\ c.state = b.state
    BY <2>2 DEF Record, SameBook
  <2> HIDE DEF c
  <2> QED
    BY <2>1, <2>2, <2>3 DEF SameBook
<1>3. SameBook(e, e)
  BY DEF SameBook
<1>4. RollDay(e, equity) = IF Today = e.day THEN e ELSE c
  BY DEF RollDay
<1> HIDE DEF c
<1> QED
  BY <1>2, <1>3, <1>4

LEMMA FailedKeeps ==
  ASSUME NEW e \in Record, NEW rule \in Rules
  PROVE  /\ Failed(e, rule) \in Record
         /\ SameBook(e, Failed(e, rule))
         /\ Turns(e, Failed(e, rule))
         /\ Failed(e, rule).state # "Active"
<1> DEFINE a == [e EXCEPT !.state = "Failed"]
           b == [a EXCEPT !.rule = rule]
<1>1. b \in Record /\ SameBook(e, b) /\ b.state = "Failed"
  <2>1. a \in Record /\ SameBook(e, a) /\ a.state = "Failed"
    BY DEF Record, SameBook, States
  <2> HIDE DEF a
  <2>2. b \in Record /\ SameBook(a, b) /\ b.state = a.state
    BY <2>1 DEF Record, SameBook
  <2> HIDE DEF b
  <2> QED
    BY <2>1, <2>2 DEF SameBook
<1>2. SameBook(e, e)
  BY DEF SameBook
<1>3. Failed(e, rule) = IF e.state # "Active" THEN e ELSE b
  BY DEF Failed
<1> HIDE DEF b
<1> QED
  BY <1>1, <1>2, <1>3 DEF Turns

(* judge: an account it leaves running is within both limits. *)
LEMMA JudgeKeeps ==
  ASSUME NEW e \in Record, NEW equity \in Int
  PROVE  /\ Judge(e, equity) \in Record
         /\ SameBook(e, Judge(e, equity))
         /\ Turns(e, Judge(e, equity))
         /\ Judge(e, equity).state = "Active" /\ equity = FloorEquity(e.balance) =>
                Within(Judge(e, equity))
<1> DEFINE p == [e EXCEPT !.peak = Greater(@, equity)]
<1>1. p \in Record /\ SameBook(e, p) /\ p.state = e.state
  BY DEF Record, SameBook, Greater
<1>2. Judge(e, equity) =
        IF DrawdownBps(p, equity) > MaxDrawdown THEN Failed(p, "Drawdown")
        ELSE IF DailyLossBps(p, equity) > MaxDailyLoss THEN Failed(p, "DailyLoss")
        ELSE p
  BY DEF Judge
<1> HIDE DEF p
<1>3. CASE DrawdownBps(p, equity) > MaxDrawdown
  BY <1>1, <1>2, <1>3, FailedKeeps DEF SameBook, Turns, Rules
<1>4. CASE ~(DrawdownBps(p, equity) > MaxDrawdown) /\ DailyLossBps(p, equity) > MaxDailyLoss
  BY <1>1, <1>2, <1>4, FailedKeeps DEF SameBook, Turns, Rules
<1>5. CASE ~(DrawdownBps(p, equity) > MaxDrawdown) /\ ~(DailyLossBps(p, equity) > MaxDailyLoss)
  <2>1. Judge(e, equity) = p
    BY <1>2, <1>5
  <2>2. ASSUME equity = FloorEquity(e.balance) PROVE Within(p)
    <3>1. p.balance = e.balance
      BY <1>1 DEF SameBook
    <3>2. DrawdownBps(p, equity) \in Int /\ DailyLossBps(p, equity) \in Int
      BY <1>1, LossTyped DEF DrawdownBps, DailyLossBps, Record
    <3> QED
      BY <1>5, <2>2, <3>1, <3>2, EvaluationAssumption DEF Within
  <2>3. Turns(e, p)
    BY <1>1 DEF Turns
  <2> QED
    BY <1>1, <2>1, <2>2, <2>3
<1> QED
  BY <1>3, <1>4, <1>5

LEMMA RecordedBooks ==
  ASSUME now \in Nat, NEW e \in Record, NEW p \in Virtual, NEW net \in Int, NEW result \in Int,
         NEW stopOut \in BOOLEAN
  PROVE  LET f == Recorded(e, p, net, result, stopOut)
         IN  /\ f \in Record
             /\ f.state = e.state /\ f.stage = e.stage /\ f.size = e.size
             /\ f.balance = e.balance + net
             /\ f.trades = e.trades + 1 /\ f.wins + f.losses = e.wins + e.losses + 1
             /\ f.open = SatSub(e.open, 1) /\ f.pending = e.pending
             /\ f.grossProfit - f.grossLoss = e.grossProfit - e.grossLoss + result
             /\ result < 0 => f.grossLoss > e.grossLoss
<1> DEFINE f == Recorded(e, p, net, result, stopOut)
<1>1. f \in Record
  <2> DEFINE e1  == [e EXCEPT !.balance = @ + net]
             e2  == [e1 EXCEPT !.trades = @ + 1]
             e3  == [e2 EXCEPT !.open = SatSub(@, 1)]
             e4  == [e3 EXCEPT !.dayPnl = @ + result]
             e5  == [e4 EXCEPT !.bestDay = Greater(@, e.dayPnl + result)]
             e6  == [e5 EXCEPT !.wins = IF result > 0 THEN @ + 1 ELSE @]
             e7  == [e6 EXCEPT !.losses = IF result > 0 THEN @ ELSE @ + 1]
             e8  == [e7 EXCEPT !.grossProfit = @ + Greater(result, 0)]
             e9  == [e8 EXCEPT !.grossLoss = @ + Greater(-result, 0)]
             e10 == [e9 EXCEPT !.voluntary = IF stopOut THEN @ ELSE @ + 1]
             e11 == [e10 EXCEPT !.held = IF stopOut THEN @ ELSE @ + (now - p.openedAt)]
  <2>0. f = e11 /\ e.dayPnl \in Int /\ p.openedAt \in Int
    BY DEF Recorded, Record, Virtual
  <2>1. e1 \in Record
    BY DEF Record
  <2> HIDE DEF e1
  <2>2. e2 \in Record
    BY <2>1 DEF Record
  <2> HIDE DEF e2
  <2>3. e3 \in Record
    BY <2>2 DEF Record, SatSub, Greater
  <2> HIDE DEF e3
  <2>4. e4 \in Record
    BY <2>3 DEF Record
  <2> HIDE DEF e4
  <2>5. e5 \in Record
    BY <2>4, <2>0 DEF Record, Greater
  <2> HIDE DEF e5
  <2>6. e6 \in Record
    BY <2>5 DEF Record
  <2> HIDE DEF e6
  <2>7. e7 \in Record
    BY <2>6 DEF Record
  <2> HIDE DEF e7
  <2>8. e8 \in Record
    BY <2>7 DEF Record, Greater
  <2> HIDE DEF e8
  <2>9. e9 \in Record
    BY <2>8 DEF Record, Greater
  <2> HIDE DEF e9
  <2>10. e10 \in Record
    BY <2>9 DEF Record
  <2> HIDE DEF e10
  <2>11. e11 \in Record
    BY <2>10, <2>0 DEF Record
  <2> HIDE DEF e11
  <2> QED
    BY <2>0, <2>11
<1>2. /\ f.state = e.state /\ f.stage = e.stage /\ f.size = e.size
      /\ f.balance = e.balance + net /\ f.trades = e.trades + 1
      /\ f.open = SatSub(e.open, 1) /\ f.pending = e.pending
      /\ f.wins = IF result > 0 THEN e.wins + 1 ELSE e.wins
      /\ f.losses = IF result > 0 THEN e.losses ELSE e.losses + 1
      /\ f.grossProfit = e.grossProfit + Greater(result, 0)
      /\ f.grossLoss = e.grossLoss + Greater(-result, 0)
  BY DEF Recorded, Record
<1> HIDE DEF f
<1>3. /\ e.wins \in Nat /\ e.losses \in Nat
      /\ e.grossProfit \in Int /\ e.grossLoss \in Int
  BY DEF Record
<1>4. /\ f.wins + f.losses = e.wins + e.losses + 1
      /\ f.grossProfit - f.grossLoss = e.grossProfit - e.grossLoss + result
      /\ result < 0 => f.grossLoss > e.grossLoss
  BY <1>2, <1>3 DEF Greater
<1> QED
  BY <1>1, <1>2, <1>4 DEF f

(* book_close *)
LEMMA BookedBooks ==
  ASSUME now \in Nat, NEW e \in Record, NEW p \in Virtual, NEW net \in Int,
         NEW stopOut \in BOOLEAN
  PROVE  LET f == Booked(e, p, net, stopOut)
         IN  /\ f \in Record /\ Turns(e, f)
             /\ f.stage = e.stage /\ f.size = e.size
             /\ f.balance = e.balance + net
             /\ f.trades = e.trades + 1 /\ f.wins + f.losses = e.wins + e.losses + 1
             /\ f.open = SatSub(e.open, 1) /\ f.pending = e.pending
             /\ f.grossProfit - f.grossLoss = e.grossProfit - e.grossLoss + (net - p.fee)
             /\ net - p.fee < 0 => f.grossLoss > e.grossLoss
             /\ f.state = "Active" /\ f.open = 0 => Within(f)
<1> DEFINE day == RollDay(e, FloorEquity(e.balance))
           sum == Recorded(day, p, net, net - p.fee, stopOut)
           f   == Booked(e, p, net, stopOut)
<1>1. e.balance \in Int /\ FloorEquity(e.balance) \in Nat /\ net - p.fee \in Int
  BY FloorTypedEquity DEF Record, Virtual
<1>2. day \in Record /\ SameBook(e, day) /\ day.state = e.state
  <2>1. FloorEquity(e.balance) \in Int
    BY <1>1
  <2> QED
    BY <2>1, RollDayKeeps
<1>3. f = IF sum.open = 0 THEN Judge(sum, FloorEquity(sum.balance)) ELSE sum
  BY DEF Booked
<1> HIDE DEF day
<1>4. /\ sum \in Record
      /\ sum.state = day.state /\ sum.stage = day.stage /\ sum.size = day.size
      /\ sum.balance = day.balance + net
      /\ sum.trades = day.trades + 1 /\ sum.wins + sum.losses = day.wins + day.losses + 1
      /\ sum.open = SatSub(day.open, 1) /\ sum.pending = day.pending
      /\ sum.grossProfit - sum.grossLoss = day.grossProfit - day.grossLoss + (net - p.fee)
      /\ net - p.fee < 0 => sum.grossLoss > day.grossLoss
  BY <1>1, <1>2, RecordedBooks
<1> HIDE DEF sum, f
<1>5. /\ sum.state = e.state /\ sum.stage = e.stage /\ sum.size = e.size
      /\ sum.balance = e.balance + net
      /\ sum.trades = e.trades + 1 /\ sum.wins + sum.losses = e.wins + e.losses + 1
      /\ sum.open = SatSub(e.open, 1) /\ sum.pending = e.pending
      /\ sum.grossProfit - sum.grossLoss = e.grossProfit - e.grossLoss + (net - p.fee)
      /\ net - p.fee < 0 => sum.grossLoss > e.grossLoss
  BY <1>2, <1>4 DEF SameBook
<1>6. /\ f \in Record /\ SameBook(sum, f) /\ Turns(sum, f)
      /\ f.state = "Active" /\ f.open = 0 => Within(f)
  <2>1. FloorEquity(sum.balance) \in Int
    BY <1>4, FloorTypedEquity DEF Record
  <2>2. CASE sum.open = 0
    BY <1>3, <1>4, <2>1, <2>2, JudgeKeeps
  <2>3. CASE sum.open # 0
    <3>1. f = sum /\ SameBook(sum, sum) /\ Turns(sum, sum)
      BY <1>3, <2>3 DEF SameBook, Turns
    <3> QED
      BY <3>1, <1>4, <2>3
  <2> QED
    BY <2>2, <2>3
<1>7. Turns(e, f)
  BY <1>5, <1>6 DEF Turns
<1>8. /\ f.stage = sum.stage /\ f.size = sum.size /\ f.balance = sum.balance
      /\ f.trades = sum.trades /\ f.wins = sum.wins /\ f.losses = sum.losses
      /\ f.grossProfit = sum.grossProfit /\ f.grossLoss = sum.grossLoss
      /\ f.open = sum.open /\ f.pending = sum.pending
  BY <1>6 DEF SameBook
<1> QED
  BY <1>5, <1>6, <1>7, <1>8 DEF f

-----------------------------------------------------------------------------
(* Prices.  A spread moves a price against the trader, and never by more   *)
(* than the price.                                                         *)

LEMMA CeilAtMost ==
  ASSUME NEW a \in Nat, NEW b \in Nat, NEW d \in Nat \ {0}, b <= d
  PROVE  MulDivCeil(a, b, d) <= a
<1> DEFINE n == -(a * b)
           f == n \div d
<1>1. n \in Int /\ a * b <= a * d
  OBVIOUS
<1>2. f \in Int /\ n < d * f + d
  <2> HIDE DEF n
  <2> QED
    BY <1>1, DivFloors
<1>3. f >= -a
  <2> SUFFICES ASSUME f + 1 <= -a PROVE FALSE
    BY <1>2
  <2>1. n >= -(a * d)
    BY <1>1
  <2> HIDE DEF f, n
  <2>2. d * (f + 1) <= d * (-a)
    BY <1>2
  <2>3. d * (f + 1) = d * f + d /\ d * (-a) = -(a * d) /\ d * f \in Int /\ a * d \in Int
    BY <1>2
  <2> QED
    BY <1>1, <1>2, <2>1, <2>2, <2>3
<1>4. MulDivCeil(a, b, d) = -f
  BY DEF MulDivCeil
<1> HIDE DEF f
<1> QED
  BY <1>2, <1>3, <1>4

LEMMA ExecutionAdverse ==
  ASSUME NEW price \in Nat, NEW spread \in Spreads
  PROVE  /\ ExecutionPrice(price, spread, "Buy") \in Nat
         /\ ExecutionPrice(price, spread, "Buy") >= price
         /\ ExecutionPrice(price, spread, "Sell") \in Nat
         /\ ExecutionPrice(price, spread, "Sell") <= price
<1>1. spread \in Nat /\ spread <= Bps /\ Bps \in Nat \ {0}
  BY EvaluationAssumption, ScalesAssumption
<1>2. MulDivCeil(price, spread, Bps) \in Nat /\ MulDivCeil(price, spread, Bps) <= price
  BY <1>1, CeilNat, CeilAtMost
<1> QED
  BY <1>2 DEF ExecutionPrice

LEMMA ExecutionTyped ==
  ASSUME NEW price \in Nat, NEW spread \in Spreads, NEW d, NEW action
  PROVE  ExecutionPrice(price, spread, Resolve(d, action)) \in Nat
BY ExecutionAdverse DEF Resolve

LEMMA NotionalNat ==
  ASSUME NEW size \in Nat, NEW price \in Nat
  PROVE  NotionalInQuote(size, price) \in Nat
BY CeilNat, ScalesAssumption DEF NotionalInQuote

LEMMA SignedMove ==
  ASSUME NEW d \in Directions, NEW entry \in Int, NEW exit \in Int
  PROVE  Sign(d) * (exit - entry) \in Int
BY DEF Directions, Sign

LEMMA ScalesNat == NotionalDivisor \in Nat \ {0} /\ RatePrecision \in Nat \ {0}
  BY ScalesAssumption

LEMMA UpnlTyped ==
  ASSUME NEW d \in Directions, NEW size \in Nat, NEW entry \in Int, NEW exit \in Int
  PROVE  UpnlInQuote(size, entry, exit, d) \in Int
<1> DEFINE move == Sign(d) * (exit - entry)
<1>1. move \in Int /\ size \in Int
  BY SignedMove
<1>2. UpnlInQuote(size, entry, exit, d) = MulDivFloor(size, move, NotionalDivisor)
  BY DEF UpnlInQuote
<1> HIDE DEF move
<1> QED
  BY <1>1, <1>2, FloorTyped, ScalesNat

LEMMA CarryTyped ==
  ASSUME NEW notional \in Int, NEW index \in Int, NEW snapshot \in Int
  PROVE  /\ AccruedCarry(notional, index, snapshot) \in Int
         /\ notional >= 0 /\ snapshot <= index => AccruedCarry(notional, index, snapshot) \in Nat
<1> DEFINE growth == index - snapshot
<1>1. growth \in Int /\ (snapshot <= index => growth \in Nat)
  OBVIOUS
<1>2. AccruedCarry(notional, index, snapshot) = MulDivCeil(notional, growth, RatePrecision)
  BY DEF AccruedCarry
<1> HIDE DEF growth
<1>3. MulDivCeil(notional, growth, RatePrecision) \in Int
  BY <1>1, CeilInt, ScalesNat
<1>4. ASSUME notional >= 0, snapshot <= index
      PROVE  MulDivCeil(notional, growth, RatePrecision) \in Nat
  <2>1. notional \in Nat /\ growth \in Nat
    BY <1>1, <1>4
  <2> QED
    BY <2>1, CeilNat, ScalesNat
<1> QED
  BY <1>2, <1>3, <1>4

LEMMA RealisedTyped ==
  ASSUME spot \in Nat, borrow \in Nat, NEW p \in Virtual, NEW spread \in Spreads
  PROVE  Realised(p, spread) \in Int
<1> DEFINE exit == ExecutionPrice(spot, spread, Resolve(p.dir, "Close"))
<1>1. /\ p.size \in Nat /\ p.entry \in Int /\ p.dir \in Directions
      /\ p.notional \in Int /\ p.borrow \in Int
  BY DEF Virtual
<1>2. exit \in Nat /\ borrow \in Int
  BY ExecutionTyped
<1> HIDE DEF exit
<1>3. UpnlInQuote(p.size, p.entry, exit, p.dir) \in Int
  BY <1>1, <1>2, UpnlTyped
<1>4. FeeAmount(NotionalInQuote(p.size, exit), CloseFeeRate) \in Nat
  BY <1>1, <1>2, NotionalNat, FeeNat, EvaluationAssumption
<1>5. AccruedCarry(p.notional, borrow, p.borrow) \in Int
  BY <1>1, <1>2, CarryTyped
<1> QED
  BY <1>3, <1>4, <1>5 DEF Realised, exit

(* A floor of a negative quotient is negative. *)
LEMMA FloorNegative ==
  ASSUME NEW a \in Nat \ {0}, NEW b \in Int, b < 0, NEW d \in Nat \ {0}
  PROVE  MulDivFloor(a, b, d) < 0
<1> DEFINE f == MulDivFloor(a, b, d)
<1>1. f \in Int /\ d * f <= a * b
  BY FloorInt
<1>2. a * b < 0 /\ a * b \in Int
  <2>1. a * (-b) >= 1 * (-b)
    OBVIOUS
  <2> QED
    BY <2>1
<1> HIDE DEF f
<1>3. ASSUME f >= 0 PROVE FALSE
  <2>1. d * f >= 0 /\ d * f \in Int
    BY <1>1, <1>3
  <2> QED
    BY <1>1, <1>2, <2>1
<1> QED
  BY <1>1, <1>3 DEF f

(* The stop lies on the losing side of the entry. *)
Adverse(p) == IF p.dir = "Long" THEN p.stop < p.entry ELSE p.stop > p.entry

(* What a position keeps to until it is closed. *)
Costly(p) ==
    /\ p.notional >= 0 /\ p.fee >= 0 /\ p.borrow <= borrow
    /\ ~HeldLongEnough(p) => Adverse(p)

(* A stop that is met while it lies on the losing side ends at a loss. *)
LEMMA LossAtStop ==
  ASSUME spot \in Nat, borrow \in Nat, NEW p \in Virtual, NEW spread \in Spreads,
         p.size > 0, StopMet(p.dir, p.stop, spot), Costly(p), Adverse(p)
  PROVE  Realised(p, spread) - p.fee < 0
<1> DEFINE exit == ExecutionPrice(spot, spread, Resolve(p.dir, "Close"))
<1>1. /\ p.size \in Nat \ {0} /\ p.entry \in Int /\ p.dir \in Directions /\ p.stop \in Int
      /\ p.notional \in Nat /\ p.borrow \in Int /\ p.fee \in Nat /\ borrow - p.borrow \in Nat
  BY DEF Virtual, Costly
<1>2. exit \in Nat
  BY ExecutionTyped
<1>3. Sign(p.dir) * (exit - p.entry) < 0 /\ Sign(p.dir) * (exit - p.entry) \in Int
  <2>1. CASE p.dir = "Long"
    <3>1. exit <= spot /\ spot <= p.stop /\ p.stop < p.entry
      BY <2>1, ExecutionAdverse DEF Resolve, StopMet, Adverse
    <3> HIDE DEF exit
    <3> QED
      BY <1>1, <1>2, <2>1, <3>1 DEF Sign
  <2>2. CASE p.dir = "Short"
    <3>1. exit >= spot /\ spot >= p.stop /\ p.stop > p.entry
      BY <2>2, ExecutionAdverse DEF Resolve, StopMet, Adverse
    <3> HIDE DEF exit
    <3> QED
      BY <1>1, <1>2, <2>2, <3>1 DEF Sign
  <2> QED
    BY <1>1, <2>1, <2>2 DEF Directions
<1> HIDE DEF exit
<1>4. /\ UpnlInQuote(p.size, p.entry, exit, p.dir) \in Int
      /\ UpnlInQuote(p.size, p.entry, exit, p.dir) < 0
  <2> DEFINE move == Sign(p.dir) * (exit - p.entry)
  <2>1. UpnlInQuote(p.size, p.entry, exit, p.dir) = MulDivFloor(p.size, move, NotionalDivisor)
    BY DEF UpnlInQuote
  <2>2. move \in Int /\ move < 0 /\ p.size \in Int
    BY <1>1, <1>3
  <2> HIDE DEF move
  <2> QED
    BY <1>1, <2>1, <2>2, FloorNegative, FloorTyped, ScalesNat
<1>5. FeeAmount(NotionalInQuote(p.size, exit), CloseFeeRate) \in Nat
  BY <1>1, <1>2, NotionalNat, FeeNat, EvaluationAssumption
<1>6. AccruedCarry(p.notional, borrow, p.borrow) \in Nat
  <2>1. p.notional \in Int /\ p.notional >= 0 /\ p.borrow <= borrow /\ borrow \in Int
    BY <1>1
  <2> QED
    BY <1>1, <2>1, CarryTyped
<1> QED
  BY <1>1, <1>4, <1>5, <1>6 DEF Realised, exit

-----------------------------------------------------------------------------
(* The record beside what it counts, when one thing changes. *)

(* The record is untouched but for what the ledger does not read. *)
LEMMA LedgerKeeps ==
  ASSUME NEW e, NEW f, NEW ps, Ledger(e, ps), SameBook(e, f)
  PROVE  Ledger(f, ps)
BY DEF Ledger, SameBook

LEMMA LedgerOpens ==
  ASSUME NEW e \in Record, NEW f, NEW ps \in [Places -> Virtual], NEW k \in Places,
         NEW p \in Virtual, Ledger(e, ps), ps[k].size = 0, p.size > 0,
         f.balance = e.balance - p.fee, f.open = e.open + 1, f.size = e.size,
         f.wins = e.wins, f.losses = e.losses, f.trades = e.trades,
         f.grossProfit = e.grossProfit, f.grossLoss = e.grossLoss
  PROVE  Ledger(f, [ps EXCEPT ![k] = p]) /\ f.open > 0
<1> DEFINE qs == [ps EXCEPT ![k] = p]
<1>1. Fees(qs) = Fees(ps) - ps[k].fee + p.fee /\ Fees(ps) \in Int
  BY FeesMove, FeesTyped
<1>2. ps[k].fee = 0 /\ p.fee \in Int
  BY DEF Ledger, Virtual
<1>3. Cardinality(Held(qs)) = Cardinality(Held(ps)) + 1 /\ Cardinality(Held(ps)) \in Nat
  <2>1. qs[k].size > 0 /\ \A i \in Places \ {k} : qs[i] = ps[i]
    OBVIOUS
  <2> HIDE DEF qs
  <2> QED
    BY <2>1, Finite, CountAdds, CountFinite DEF Held
<1>4. \A i \in Places : qs[i].size = 0 => qs[i].fee = 0
  BY DEF Ledger
<1> HIDE DEF qs
<1>5. /\ e.balance \in Int /\ e.size \in Int /\ e.grossProfit \in Int /\ e.grossLoss \in Int
      /\ e.open \in Nat
  BY DEF Record
<1> QED
  BY <1>1, <1>2, <1>3, <1>4, <1>5 DEF Ledger, qs

LEMMA LedgerCloses ==
  ASSUME NEW e \in Record, NEW f \in Record, NEW ps \in [Places -> Virtual], NEW k \in Places,
         NEW net \in Int, Ledger(e, ps), ps[k].size > 0,
         f.balance = e.balance + net, f.open = SatSub(e.open, 1), f.size = e.size,
         f.trades = e.trades + 1, f.wins + f.losses = e.wins + e.losses + 1,
         f.grossProfit - f.grossLoss = e.grossProfit - e.grossLoss + (net - ps[k].fee)
  PROVE  Ledger(f, [ps EXCEPT ![k] = NoVirtual])
<1> DEFINE qs == [ps EXCEPT ![k] = NoVirtual]
<1>0. NoVirtual \in Virtual /\ NoVirtual.size = 0 /\ NoVirtual.fee = 0
  BY DEF NoVirtual, Virtual, Directions
<1>1. Fees(qs) = Fees(ps) - ps[k].fee + 0 /\ Fees(ps) \in Int /\ ps[k].fee \in Int
  BY <1>0, FeesMove, FeesTyped DEF Virtual
<1>2. /\ Cardinality(Held(qs)) = Cardinality(Held(ps)) - 1
      /\ Cardinality(Held(ps)) > 0 /\ Cardinality(Held(ps)) \in Nat
  <2>1. qs[k].size = 0 /\ \A i \in Places \ {k} : qs[i] = ps[i]
    BY <1>0
  <2> HIDE DEF qs
  <2> QED
    BY <2>1, Finite, CountTakes, CountFinite DEF Held
<1>3. \A i \in Places : qs[i].size = 0 => qs[i].fee = 0
  BY <1>0 DEF Ledger
<1> HIDE DEF qs
<1>4. /\ e.balance \in Int /\ e.size \in Int /\ e.grossProfit \in Int /\ e.grossLoss \in Int
      /\ f.grossProfit \in Int /\ f.grossLoss \in Int /\ e.open \in Nat
  BY DEF Record
<1>5. f.open = Cardinality(Held(qs))
  BY <1>2, <1>4 DEF Ledger, SatSub, Greater
<1>6. f.balance = f.size + f.grossProfit - f.grossLoss - Fees(qs)
  BY <1>1, <1>4 DEF Ledger
<1> QED
  BY <1>3, <1>5, <1>6 DEF Ledger, qs

(* A stop or a target moves. *)
LEMMA LedgerAdjusts ==
  ASSUME NEW e, NEW ps \in [Places -> Virtual], NEW k \in Places, NEW p \in Virtual,
         Ledger(e, ps), p.size = ps[k].size, p.fee = ps[k].fee
  PROVE  Ledger(e, [ps EXCEPT ![k] = p])
<1> DEFINE qs == [ps EXCEPT ![k] = p]
<1>1. Fees(qs) = Fees(ps)
  <2>1. Fees(qs) = Fees(ps) - ps[k].fee + p.fee /\ Fees(ps) \in Int
    BY FeesMove, FeesTyped
  <2>2. ps[k].fee \in Int
    BY DEF Virtual
  <2> HIDE DEF qs
  <2> QED
    BY <2>1, <2>2
<1>2. Held(qs) = Held(ps)
  BY DEF Held, Used
<1>3. \A i \in Places : qs[i].size = 0 => qs[i].fee = 0
  BY DEF Ledger
<1> QED
  BY <1>1, <1>2, <1>3 DEF Ledger

LEMMA ListedKeeps ==
  ASSUME NEW e, NEW f, NEW os, Listed(e, os), f.pending = e.pending, f.stage = e.stage
  PROVE  Listed(f, os)
BY DEF Listed

LEMMA ListedPlaced ==
  ASSUME NEW e, NEW f, NEW os \in [OrderIds -> Order], NEW o \in OrderIds, NEW order \in Order,
         Listed(e, os), os[o].size = 0, order.size > 0,
         order.stage = e.stage, order.place \in Places,
         f.pending = e.pending + 1, f.stage = e.stage
  PROVE  Listed(f, [os EXCEPT ![o] = order])
<1> DEFINE qs == [os EXCEPT ![o] = order]
<1>1. Cardinality(Resting(qs)) = Cardinality(Resting(os)) + 1
  <2>1. qs[o].size > 0 /\ \A i \in OrderIds \ {o} : qs[i] = os[i]
    OBVIOUS
  <2> HIDE DEF qs
  <2> QED
    BY <2>1, Finite, CountAdds DEF Resting
<1> QED
  BY <1>1 DEF Listed

LEMMA ListedTaken ==
  ASSUME NEW e, NEW f, NEW os \in [OrderIds -> Order], NEW o \in OrderIds,
         Listed(e, os), os[o].size > 0,
         f.pending = SatSub(e.pending, 1), f.stage = e.stage
  PROVE  Listed(f, [os EXCEPT ![o] = NoOrder])
<1> DEFINE qs == [os EXCEPT ![o] = NoOrder]
<1>0. NoOrder.size = 0
  BY DEF NoOrder
<1>1. /\ Cardinality(Resting(qs)) = Cardinality(Resting(os)) - 1
      /\ Cardinality(Resting(os)) > 0 /\ Cardinality(Resting(os)) \in Nat
  <2>1. qs[o].size = 0 /\ \A i \in OrderIds \ {o} : qs[i] = os[i]
    BY <1>0
  <2> HIDE DEF qs
  <2> QED
    BY <2>1, Finite, CountTakes, CountFinite DEF Resting
<1>2. f.pending = Cardinality(Resting(qs))
  <2> HIDE DEF qs
  <2> QED
    BY <1>1 DEF Listed, SatSub, Greater
<1> QED
  BY <1>0, <1>2 DEF Listed

-----------------------------------------------------------------------------
(* The invariant *)

Funded ==
    /\ vault \in [Runs -> Nat] /\ wallet \in Nat /\ treasury \in Nat
    /\ paidIn \in [Runs -> Nat] /\ evalsPassed \in Nat

(* Nothing has left the escrow of an evaluation that is not over.          *)
Escrowed ==
    \A s \in Runs : evals[s].state \in {"None", "Active"} => vault[s] = paidIn[s]

Typed ==
    /\ evals \in [Runs -> Record]
    /\ pos \in [Runs -> [Places -> Virtual]]
    /\ orders \in [Runs -> [OrderIds -> Order]]
    /\ spot \in Nat /\ spot \in Spots /\ borrow \in Nat /\ now \in Nat

Consistent == \A s \in Runs : Coherent(evals[s], pos[s], orders[s])

AllCostly == \A s \in Runs, k \in Places : pos[s][k].size > 0 => Costly(pos[s][k])

Accounts == Typed /\ Consistent /\ AllCostly

IInv == Accounts /\ Funded /\ Escrowed /\ StakesAccounted

Forfeits == [s \in Runs |-> Forfeited(s)]

(* What EarlyExitLoses asks of a step. *)
EarlyExits ==
    \A s \in Runs, k \in Places :
        pos[s][k].size > 0 /\ pos'[s][k].size = 0 /\ ~HeldLongEnough(pos[s][k]) =>
            evals'[s].grossLoss > evals[s].grossLoss

LEMMA At ==
  ASSUME Accounts, NEW s \in Runs
  PROVE  /\ evals[s] \in Record /\ pos[s] \in [Places -> Virtual]
         /\ orders[s] \in [OrderIds -> Order]
         /\ Ledger(evals[s], pos[s]) /\ Listed(evals[s], orders[s]) /\ Standing(evals[s])
         /\ \A k \in Places : pos[s][k] \in Virtual /\ (pos[s][k].size > 0 => Costly(pos[s][k]))
         /\ \A o \in OrderIds : orders[s][o] \in Order
BY DEF Accounts, Typed, Consistent, Coherent, AllCostly

(* An instruction replaces the record, positions and orders of one run. *)
LEMMA AccountsStep ==
  ASSUME Accounts, NEW s \in Runs, NEW e \in Record, NEW ps \in [Places -> Virtual],
         NEW os \in [OrderIds -> Order],
         evals' = [evals EXCEPT ![s] = e], pos' = [pos EXCEPT ![s] = ps],
         orders' = [orders EXCEPT ![s] = os], UNCHANGED world,
         Ledger(e, ps), Listed(e, os), Standing(e),
         \A k \in Places : ps[k].size > 0 => Costly(ps[k])
  PROVE  Accounts'
<1>1. Typed'
  BY DEF Accounts, Typed, world
<1>2. Consistent'
  <2> SUFFICES ASSUME NEW r \in Runs PROVE Coherent(evals'[r], pos'[r], orders'[r])
    BY DEF Consistent
  <2>1. CASE r = s
    <3>1. evals'[r] = e /\ pos'[r] = ps /\ orders'[r] = os
      BY <2>1 DEF Accounts, Typed
    <3> QED
      BY <3>1 DEF Coherent
  <2>2. CASE r # s
    <3>1. evals'[r] = evals[r] /\ pos'[r] = pos[r] /\ orders'[r] = orders[r]
      BY <2>2 DEF Accounts, Typed
    <3> QED
      BY <3>1 DEF Accounts, Consistent
  <2> QED
    BY <2>1, <2>2
<1>3. AllCostly'
  <2>1. now' = now /\ borrow' = borrow
    BY DEF world
  <2> SUFFICES ASSUME NEW r \in Runs, NEW k \in Places, pos'[r][k].size > 0
               PROVE  Costly(pos'[r][k])
    BY <2>1 DEF AllCostly, Costly, HeldLongEnough, Adverse
  <2>2. CASE r = s
    <3>1. pos'[r] = ps
      BY <2>2 DEF Accounts, Typed
    <3> QED
      BY <3>1
  <2>3. CASE r # s
    <3>1. pos'[r] = pos[r]
      BY <2>3 DEF Accounts, Typed
    <3> QED
      BY <3>1 DEF Accounts, AllCostly
  <2> QED
    BY <2>2, <2>3
<1> QED
  BY <1>1, <1>2, <1>3 DEF Accounts

LEMMA ForfeitsTyped ==
  ASSUME Funded
  PROVE  Forfeits \in [1..Sequels -> Int]
BY DEF Funded, Forfeits, Forfeited, Runs

(* No stake moves, and no run but may fail: one that fails has paid out    *)
(* nothing.                                                                *)
LEMMA StakesKeep ==
  ASSUME Typed, Funded, Escrowed, StakesAccounted, UNCHANGED money,
         \A r \in Runs : Turns(evals[r], evals'[r])
  PROVE  Funded' /\ Escrowed' /\ StakesAccounted'
<1>1. /\ vault' = vault /\ wallet' = wallet /\ treasury' = treasury
      /\ paidIn' = paidIn /\ evalsPassed' = evalsPassed
  BY DEF money
<1>2. {s \in Runs : evals'[s].state = "Passed"} = {s \in Runs : evals[s].state = "Passed"}
  BY DEF Turns
<1>3. \A s \in Runs : evals'[s].state = "Active" => evals[s].state = "Active"
  BY DEF Turns
<1>4. Escrowed'
  BY <1>1 DEF Turns, Escrowed
<1>5. [s \in Runs |-> Forfeited(s)'] = [s \in Runs |-> Forfeited(s)]
  <2> SUFFICES ASSUME NEW s \in Runs PROVE Forfeited(s)' = Forfeited(s)
    OBVIOUS
  <2>1. CASE evals'[s].state = evals[s].state
    BY <1>1, <2>1 DEF Forfeited
  <2>2. CASE evals[s].state = "Active" /\ evals'[s].state = "Failed"
    BY <1>1, <2>2 DEF Forfeited, Escrowed, Funded
  <2> QED
    BY <2>1, <2>2 DEF Turns
<1> QED
  BY <1>1, <1>2, <1>3, <1>4, <1>5 DEF Funded, StakesAccounted

LEMMA RunStep ==
  ASSUME IInv, NEW s \in Runs, NEW e \in Record, NEW ps \in [Places -> Virtual],
         NEW os \in [OrderIds -> Order],
         evals' = [evals EXCEPT ![s] = e], pos' = [pos EXCEPT ![s] = ps],
         orders' = [orders EXCEPT ![s] = os], UNCHANGED <<money, world>>,
         Ledger(e, ps), Listed(e, os), Standing(e), Turns(evals[s], e),
         \A k \in Places : ps[k].size > 0 => Costly(ps[k]),
         \A k \in Places : pos[s][k].size > 0 /\ ps[k].size = 0 /\ ~HeldLongEnough(pos[s][k])
                              => e.grossLoss > evals[s].grossLoss
  PROVE  IInv' /\ EarlyExits
<1>1. Accounts'
  BY AccountsStep DEF IInv
<1>2. evals \in [Runs -> Record] /\ pos \in [Runs -> [Places -> Virtual]]
  BY DEF IInv, Accounts, Typed
<1>3. \A r \in Runs : Turns(evals[r], evals'[r])
  BY <1>2 DEF Turns
<1>4. Funded' /\ Escrowed' /\ StakesAccounted'
  BY <1>3, StakesKeep DEF IInv, Accounts
<1>5. EarlyExits
  <2> SUFFICES ASSUME NEW r \in Runs, NEW k \in Places, pos[r][k].size > 0,
                      pos'[r][k].size = 0, ~HeldLongEnough(pos[r][k])
               PROVE  evals'[r].grossLoss > evals[r].grossLoss
    BY DEF EarlyExits
  <2>1. r = s
    BY <1>2
  <2> QED
    BY <1>2, <2>1
<1> QED
  BY <1>1, <1>4, <1>5 DEF IInv

-----------------------------------------------------------------------------
(* Opening and closing *)

LEMMA OpenStep ==
  ASSUME IInv, NEW s \in Runs, NEW k \in Places, NEW o \in Order, NEW spread \in Spreads,
         o.size > 0, OpenVirtual(s, k, o, spread),
         NEW os \in [OrderIds -> Order], orders' = [orders EXCEPT ![s] = os],
         \A f : /\ f.stage = evals[s].stage
                /\ f.pending = IF o.place = 0 THEN evals[s].pending
                                              ELSE SatSub(evals[s].pending, 1)
                => Listed(f, os)
  PROVE  IInv' /\ EarlyExits
<1> DEFINE e        == evals[s]
           entry    == ExecutionPrice(spot, spread, Resolve(o.dir, "Open"))
           notional == NotionalInQuote(o.size, entry)
           balance  == FloorEquity(e.balance)
           day      == RollDay(e, balance)
           fee      == FeeAmount(notional, OpenFeeRate)
           f1       == [day EXCEPT !.balance = @ - fee]
           f2       == [f1 EXCEPT !.open = @ + 1]
           f3       == [f2 EXCEPT !.tradingDays = IF e.lastTradeDay = Today THEN @ ELSE @ + 1]
           f4       == [f3 EXCEPT !.lastTradeDay = Today]
           f        == [f4 EXCEPT !.pending = IF o.place = 0 THEN @ ELSE SatSub(@, 1)]
           p        == [size |-> o.size, dir |-> o.dir, entry |-> entry,
                        notional |-> notional, stop |-> o.stop, target |-> o.target,
                        fee |-> fee, borrow |-> borrow, openedAt |-> now]
           ps       == [pos[s] EXCEPT ![k] = p]
<1>0. Accounts /\ spot \in Nat /\ borrow \in Nat /\ now \in Nat
  BY DEF IInv, Accounts, Typed
<1>1. /\ e \in Record /\ pos[s] \in [Places -> Virtual]
      /\ Ledger(e, pos[s]) /\ Standing(e) /\ pos[s][k] \in Virtual
      /\ \A i \in Places : pos[s][i].size > 0 => Costly(pos[s][i])
  BY <1>0, At
<1>2. /\ e.state = "Active" /\ pos[s][k].size = 0 /\ ~StopMet(o.dir, o.stop, spot)
  BY <1>1 DEF OpenVirtual, Open, Virtual
<1>3. evals' = [evals EXCEPT ![s] = f] /\ UNCHANGED <<money, world>>
  BY DEF OpenVirtual
<1>4. pos' = [pos EXCEPT ![s] = ps]
  BY DEF OpenVirtual
<1>5. /\ entry \in Nat
      /\ IF o.dir = "Long" THEN entry >= spot ELSE entry <= spot
  BY <1>0, ExecutionAdverse, ExecutionTyped DEF Resolve
<1>6. o.size \in Nat /\ o.dir \in Directions /\ o.stop \in Int /\ o.target \in Int
  BY DEF Order
<1> HIDE DEF entry
<1>7. notional \in Nat
  BY <1>5, <1>6, NotionalNat
<1> HIDE DEF notional
<1>8. fee \in Nat
  BY <1>7, FeeNat, EvaluationAssumption
<1> HIDE DEF fee
<1>9. p \in Virtual /\ p.size > 0 /\ p.fee = fee
  BY <1>0, <1>5, <1>6, <1>7, <1>8 DEF Virtual
<1>10. Costly(p)
  <2>1. Adverse(p)
    BY <1>0, <1>2, <1>5, <1>6 DEF Adverse, StopMet
  <2> QED
    BY <1>0, <1>7, <1>8, <2>1 DEF Costly
<1> HIDE DEF p
<1>11. day \in Record /\ SameBook(e, day) /\ day.state = e.state
  <2>1. e.balance \in Int
    BY <1>1 DEF Record
  <2>2. balance \in Int
    BY <2>1, FloorTypedEquity
  <2> HIDE DEF balance
  <2> QED
    BY <1>0, <1>1, <2>2, RollDayKeeps
<1> HIDE DEF day
<1>12. /\ f \in Record /\ f.balance = e.balance - fee /\ f.open = e.open + 1
       /\ f.pending = IF o.place = 0 THEN e.pending ELSE SatSub(e.pending, 1)
       /\ f.state = "Active" /\ f.stage = e.stage /\ f.size = e.size
       /\ f.wins = e.wins /\ f.losses = e.losses /\ f.trades = e.trades
       /\ f.grossProfit = e.grossProfit /\ f.grossLoss = e.grossLoss
  <2>0. Today \in Int
    BY <1>0, DivFloors, EvaluationAssumption DEF Today
  <2> HIDE DEF e
  <2>1. f1 \in Record /\ f1.balance = e.balance - fee
    BY <1>8, <1>11 DEF Record, SameBook
  <2>2. f2 \in Record
    <3> HIDE DEF f1
    <3> QED
      BY <2>1 DEF Record
  <2>3. f3 \in Record
    <3> HIDE DEF f2
    <3> QED
      BY <2>2 DEF Record
  <2>4. f4 \in Record
    <3> HIDE DEF f3
    <3> QED
      BY <2>0, <2>3 DEF Record
  <2>5. f \in Record
    <3> HIDE DEF f4
    <3> QED
      BY <2>4 DEF Record, SatSub, Greater
  <2>6. /\ f.balance = day.balance - fee /\ f.open = day.open + 1
        /\ f.pending = IF o.place = 0 THEN day.pending ELSE SatSub(day.pending, 1)
        /\ f.state = day.state /\ f.stage = day.stage /\ f.size = day.size
        /\ f.wins = day.wins /\ f.losses = day.losses /\ f.trades = day.trades
        /\ f.grossProfit = day.grossProfit /\ f.grossLoss = day.grossLoss
    BY <1>11 DEF Record
  <2> HIDE DEF f
  <2> QED
    BY <1>2, <1>11, <2>5, <2>6 DEF SameBook, e
<1> HIDE DEF f
<1>13. Ledger(f, ps) /\ f.open > 0
  BY <1>1, <1>2, <1>9, <1>12, LedgerOpens
<1>14. Listed(f, os)
  BY <1>12
<1>15. Standing(f) /\ Turns(e, f)
  BY <1>1, <1>2, <1>12, <1>13 DEF Standing, Turns
<1>16. ps \in [Places -> Virtual]
  BY <1>1, <1>9
<1>17. \A i \in Places : ps[i].size > 0 => Costly(ps[i])
  BY <1>1, <1>10
<1>18. \A i \in Places : pos[s][i].size > 0 => ps[i].size # 0
  BY <1>1, <1>9
<1> HIDE DEF ps, e
<1>19. e = evals[s]
  BY DEF e
<1> QED
  BY <1>3, <1>4, <1>12, <1>13, <1>14, <1>15, <1>16, <1>17, <1>18, <1>19, RunStep

LEMMA CloseStep ==
  ASSUME IInv, NEW s \in Runs, NEW k \in Places, NEW spread \in Spreads,
         NEW stopOut \in BOOLEAN, Close(s, k, spread, stopOut),
         \/ HeldLongEnough(pos[s][k])
         \/ StopMet(pos[s][k].dir, pos[s][k].stop, spot)
  PROVE  IInv' /\ EarlyExits
<1> DEFINE e   == evals[s]
           p   == pos[s][k]
           net == Realised(p, spread)
           f   == Booked(e, p, net, stopOut)
           ps  == [pos[s] EXCEPT ![k] = NoVirtual]
<1>0. Accounts /\ spot \in Nat /\ borrow \in Nat /\ now \in Nat
  BY DEF IInv, Accounts, Typed
<1>1. /\ e \in Record /\ pos[s] \in [Places -> Virtual] /\ orders[s] \in [OrderIds -> Order]
      /\ Ledger(e, pos[s]) /\ Listed(e, orders[s]) /\ Standing(e) /\ p \in Virtual
      /\ \A i \in Places : pos[s][i].size > 0 => Costly(pos[s][i])
  BY <1>0, At
<1>2. /\ p.size > 0 /\ evals' = [evals EXCEPT ![s] = f] /\ pos' = [pos EXCEPT ![s] = ps]
      /\ UNCHANGED <<orders, money, world>>
  BY DEF Close, Open
<1>3. net \in Int
  BY <1>0, <1>1, RealisedTyped
<1>4. ~HeldLongEnough(p) => net - p.fee < 0
  BY <1>0, <1>1, <1>2, LossAtStop DEF Costly
<1> HIDE DEF net
<1>5. /\ f \in Record /\ Turns(e, f)
      /\ f.stage = e.stage /\ f.size = e.size /\ f.balance = e.balance + net
      /\ f.trades = e.trades + 1 /\ f.wins + f.losses = e.wins + e.losses + 1
      /\ f.open = SatSub(e.open, 1) /\ f.pending = e.pending
      /\ f.grossProfit - f.grossLoss = e.grossProfit - e.grossLoss + (net - p.fee)
      /\ net - p.fee < 0 => f.grossLoss > e.grossLoss
      /\ f.state = "Active" /\ f.open = 0 => Within(f)
  <2> HIDE DEF e, p
  <2> QED
    BY <1>0, <1>1, <1>3, BookedBooks
<1> HIDE DEF f
<1>6. Ledger(f, ps)
  BY <1>1, <1>2, <1>3, <1>5, LedgerCloses
<1>7. Listed(f, orders[s])
  BY <1>1, <1>5, ListedKeeps
<1>8. Standing(f)
  <2>1. e.open > 0
    <3>1. e.open = Cardinality(Held(pos[s])) /\ k \in Held(pos[s])
      BY <1>1, <1>2 DEF Ledger, Held, Used
    <3> QED
      BY <3>1, Finite, CountFinite DEF Held
  <2>2. e.state # "None" /\ e.size > 0
    BY <1>1, <2>1 DEF Standing
  <2> QED
    BY <1>5, <2>2 DEF Standing, Turns
<1>9. NoVirtual \in Virtual /\ NoVirtual.size = 0
  BY DEF NoVirtual, Virtual, Directions
<1>10. ps \in [Places -> Virtual]
  BY <1>1, <1>9
<1>11. \A i \in Places : ps[i].size > 0 => Costly(ps[i])
  BY <1>1, <1>9
<1>12. \A i \in Places : pos[s][i].size > 0 /\ ps[i].size = 0 /\ ~HeldLongEnough(pos[s][i])
                           => f.grossLoss > e.grossLoss
  <2> SUFFICES ASSUME NEW i \in Places, pos[s][i].size > 0, ps[i].size = 0,
                      ~HeldLongEnough(pos[s][i])
               PROVE  f.grossLoss > e.grossLoss
    OBVIOUS
  <2>1. i = k
    BY <1>1
  <2> QED
    BY <1>4, <1>5, <2>1
<1>13. orders' = [orders EXCEPT ![s] = orders[s]] /\ UNCHANGED <<money, world>>
  BY <1>2 DEF IInv, Accounts, Typed
<1> HIDE DEF ps
<1> QED
  BY <1>1, <1>2, <1>5, <1>6, <1>7, <1>8, <1>10, <1>11, <1>12, <1>13, RunStep

LEMMA NoOrderTyped == NoOrder \in Order /\ NoOrder.size = 0 /\ NoOrder.place = 0
<1>1. Slots \in Nat
  BY EvaluationAssumption
<1> QED
  BY <1>1 DEF NoOrder, Order, Directions

(* The trader opens at market, or an order fills. *)
LEMMA EvalOpenPositionStep ==
  ASSUME IInv, NEW s \in Runs, NEW k \in Places, NEW d \in Sides, NEW size \in Sizes,
         NEW stop \in Levels, NEW spread \in Spreads,
         EvalOpenPosition(s, k, d, size, stop, spread)
  PROVE  IInv' /\ EarlyExits
<1> DEFINE o == [NoOrder EXCEPT !.dir = d, !.size = size, !.stop = stop]
<1>1. o \in Order /\ o.size > 0 /\ o.place = 0
  <2> DEFINE o1 == [NoOrder EXCEPT !.dir = d]
             o2 == [o1 EXCEPT !.size = size]
  <2>0. size \in Nat \ {0} /\ d \in Directions /\ stop \in Int
    BY EvaluationAssumption
  <2>1. o1 \in Order /\ o1.place = 0
    BY <2>0, NoOrderTyped DEF Order
  <2>2. o = [o2 EXCEPT !.stop = stop]
    OBVIOUS
  <2> HIDE DEF o1
  <2>3. o2 \in Order /\ o2.place = 0 /\ o2.size > 0
    BY <2>0, <2>1 DEF Order
  <2> HIDE DEF o2, o
  <2> QED
    BY <2>0, <2>2, <2>3 DEF Order
<1>2. OpenVirtual(s, k, o, spread) /\ UNCHANGED orders
  BY DEF EvalOpenPosition
<1> HIDE DEF o
<1>3. orders[s] \in [OrderIds -> Order] /\ Listed(evals[s], orders[s])
  BY At DEF IInv
<1>4. orders' = [orders EXCEPT ![s] = orders[s]]
  BY <1>2 DEF IInv, Accounts, Typed
<1>5. \A f : f.stage = evals[s].stage /\ f.pending = evals[s].pending => Listed(f, orders[s])
  BY <1>3, ListedKeeps
<1> QED
  BY <1>1, <1>2, <1>3, <1>4, <1>5, OpenStep

LEMMA EvalFillEntryOrderStep ==
  ASSUME IInv, NEW s \in Runs, NEW o \in OrderIds, NEW spread \in Spreads,
         EvalFillEntryOrder(s, o, spread)
  PROVE  IInv' /\ EarlyExits
<1> DEFINE order == orders[s][o]
           os    == [orders[s] EXCEPT ![o] = NoOrder]
<1>1. /\ orders[s] \in [OrderIds -> Order] /\ Listed(evals[s], orders[s]) /\ order \in Order
  BY At DEF IInv
<1>2. order.size > 0 /\ order.place \in Places /\ order.place # 0
  BY <1>1 DEF EvalFillEntryOrder, Rests, Listed, Places
<1>3. OpenVirtual(s, order.place, order, spread) /\ orders' = [orders EXCEPT ![s] = os]
  BY DEF EvalFillEntryOrder
<1>4. os \in [OrderIds -> Order]
  BY <1>1, NoOrderTyped
<1>5. \A f : f.stage = evals[s].stage /\ f.pending = SatSub(evals[s].pending, 1) => Listed(f, os)
  BY <1>1, <1>2, ListedTaken
<1> HIDE DEF os, order
<1> QED
  BY <1>1, <1>2, <1>3, <1>4, <1>5, OpenStep

LEMMA ExitStep ==
  ASSUME IInv, NEW s \in Runs, NEW k \in Places, NEW spread \in Spreads,
         \/ EvalClosePosition(s, k, spread)
         \/ EvalTriggerStop(s, k, spread)
         \/ EvalTriggerTakeProfit(s, k, spread)
  PROVE  IInv' /\ EarlyExits
<1>1. \E stopOut \in BOOLEAN :
        /\ Close(s, k, spread, stopOut)
        /\ \/ HeldLongEnough(pos[s][k])
           \/ StopMet(pos[s][k].dir, pos[s][k].stop, spot)
  BY DEF EvalClosePosition, EvalTriggerStop, EvalTriggerTakeProfit
<1> QED
  BY <1>1, CloseStep

(* A target is set, or a stop is moved by a trader who held long enough. *)
LEMMA AdjustStep ==
  ASSUME IInv, NEW s \in Runs, NEW k \in Places, NEW p \in Virtual,
         UNCHANGED <<evals, orders, money, world>>,
         pos' = [pos EXCEPT ![s] = [@ EXCEPT ![k] = p]],
         p.size = pos[s][k].size, p.fee = pos[s][k].fee,
         pos[s][k].size > 0 => Costly(p)
  PROVE  IInv' /\ EarlyExits
<1> DEFINE ps == [pos[s] EXCEPT ![k] = p]
<1>1. /\ evals[s] \in Record /\ pos[s] \in [Places -> Virtual]
      /\ orders[s] \in [OrderIds -> Order] /\ Ledger(evals[s], pos[s])
      /\ Listed(evals[s], orders[s]) /\ Standing(evals[s])
      /\ \A i \in Places : pos[s][i].size > 0 => Costly(pos[s][i])
  BY At DEF IInv
<1>2. Ledger(evals[s], ps)
  BY <1>1, LedgerAdjusts
<1>3. ps \in [Places -> Virtual] /\ \A i \in Places : ps[i].size > 0 => Costly(ps[i])
  BY <1>1
<1>4. \A i \in Places : ps[i].size = pos[s][i].size
  BY <1>1
<1>5. \A i \in Places : ~(pos[s][i].size > 0 /\ ps[i].size = 0)
  BY <1>1, <1>4 DEF Virtual
<1>6. /\ evals' = [evals EXCEPT ![s] = evals[s]] /\ pos' = [pos EXCEPT ![s] = ps]
      /\ orders' = [orders EXCEPT ![s] = orders[s]] /\ UNCHANGED <<money, world>>
  BY DEF IInv, Accounts, Typed
<1>7. Turns(evals[s], evals[s])
  BY DEF Turns
<1>8. \A i \in Places : pos[s][i].size > 0 /\ ps[i].size = 0 /\ ~HeldLongEnough(pos[s][i])
                          => evals[s].grossLoss > evals[s].grossLoss
  BY <1>5
<1> DEFINE e == evals[s]
<1>9. e = evals[s]
  OBVIOUS
<1> HIDE DEF ps, e
<1> QED
  BY <1>1, <1>2, <1>3, <1>6, <1>7, <1>8, <1>9, RunStep

LEMMA EvalSetTakeProfitStep ==
  ASSUME IInv, NEW s \in Runs, NEW k \in Places, NEW level \in Levels \cup {0},
         EvalSetTakeProfit(s, k, level)
  PROVE  IInv' /\ EarlyExits
<1> DEFINE p == [pos[s][k] EXCEPT !.target = level]
<1>1. pos[s][k] \in Virtual /\ (pos[s][k].size > 0 => Costly(pos[s][k]))
  BY At DEF IInv
<1>2. level \in Int
  BY EvaluationAssumption
<1>3. p \in Virtual /\ p.size = pos[s][k].size /\ p.fee = pos[s][k].fee
  BY <1>1, <1>2 DEF Virtual
<1>4. pos[s][k].size > 0 => Costly(p)
  BY <1>1 DEF Costly, HeldLongEnough, Adverse, Virtual
<1>5. UNCHANGED <<evals, orders, money, world>> /\ pos' = [pos EXCEPT ![s] = [@ EXCEPT ![k] = p]]
  BY DEF EvalSetTakeProfit
<1> HIDE DEF p
<1> QED
  BY <1>3, <1>4, <1>5, AdjustStep

LEMMA EvalMoveStopStep ==
  ASSUME IInv, NEW s \in Runs, NEW k \in Places, NEW level \in Levels, EvalMoveStop(s, k, level)
  PROVE  IInv' /\ EarlyExits
<1> DEFINE p == [pos[s][k] EXCEPT !.stop = level]
<1>1. pos[s][k] \in Virtual /\ (pos[s][k].size > 0 => Costly(pos[s][k]))
  BY At DEF IInv
<1>2. level \in Int
  BY EvaluationAssumption
<1>3. p \in Virtual /\ p.size = pos[s][k].size /\ p.fee = pos[s][k].fee
  BY <1>1, <1>2 DEF Virtual
<1>4. pos[s][k].size > 0 => Costly(p)
  <2>1. HeldLongEnough(pos[s][k])
    BY DEF EvalMoveStop
  <2> QED
    BY <1>1, <2>1 DEF Costly, HeldLongEnough, Virtual
<1>5. UNCHANGED <<evals, orders, money, world>> /\ pos' = [pos EXCEPT ![s] = [@ EXCEPT ![k] = p]]
  BY DEF EvalMoveStop
<1> HIDE DEF p
<1> QED
  BY <1>3, <1>4, <1>5, AdjustStep

-----------------------------------------------------------------------------
(* What moves the record and the orders only *)

LEMMA RecordStep ==
  ASSUME IInv, NEW s \in Runs, NEW e \in Record, NEW os \in [OrderIds -> Order],
         evals' = [evals EXCEPT ![s] = e], orders' = [orders EXCEPT ![s] = os],
         UNCHANGED <<pos, money, world>>,
         Ledger(e, pos[s]), Listed(e, os), Standing(e), Turns(evals[s], e)
  PROVE  IInv' /\ EarlyExits
<1>1. /\ pos[s] \in [Places -> Virtual]
      /\ \A k \in Places : pos[s][k].size > 0 => Costly(pos[s][k])
  BY At DEF IInv
<1>2. pos' = [pos EXCEPT ![s] = pos[s]] /\ UNCHANGED <<money, world>>
  BY DEF IInv, Accounts, Typed
<1>3. \A k \in Places : ~(pos[s][k].size > 0 /\ pos[s][k].size = 0)
  BY <1>1 DEF Virtual
<1> QED
  BY <1>1, <1>2, <1>3, RunStep

LEMMA EvalPlaceEntryOrderStep ==
  ASSUME IInv, NEW s \in Runs, NEW o \in OrderIds, NEW order \in EntryOrders,
         EvalPlaceEntryOrder(s, o, order)
  PROVE  IInv' /\ EarlyExits
<1> DEFINE e     == evals[s]
           f     == [e EXCEPT !.pending = @ + 1]
           given == [order EXCEPT !.stage = e.stage]
           os    == [orders[s] EXCEPT ![o] = given]
<1>1. /\ e \in Record /\ orders[s] \in [OrderIds -> Order] /\ orders[s][o] \in Order
      /\ Ledger(e, pos[s]) /\ Listed(e, orders[s]) /\ Standing(e)
  BY At DEF IInv
<1>2. /\ e.state = "Active" /\ ~(orders[s][o].size > 0)
      /\ evals' = [evals EXCEPT ![s] = f] /\ orders' = [orders EXCEPT ![s] = os]
      /\ UNCHANGED <<pos, money, world>>
  BY DEF EvalPlaceEntryOrder, Rests
<1>3. given \in Order /\ given.size > 0 /\ given.stage = e.stage /\ given.place \in Places
  <2>1. /\ order.size \in Nat \ {0} /\ order.dir \in Directions
        /\ order.kind \in {"Limit", "Stop"} /\ order.trigger \in Int /\ order.stop \in Int
        /\ order.target \in Int /\ order.expires \in Int /\ order.place \in Places
    <3>1. /\ Sizes \subseteq Nat \ {0} /\ Sides \subseteq Directions
          /\ EntryKinds \subseteq {"Limit", "Stop"}
          /\ Levels \cup {0} \subseteq Int /\ Expiries \subseteq Int
      BY EvaluationAssumption
    <3>2. /\ order.size \in Sizes /\ order.dir \in Sides /\ order.kind \in EntryKinds
          /\ order.trigger \in Levels /\ order.stop \in Levels
          /\ order.target \in Levels \cup {0} /\ order.expires \in Expiries
          /\ order.place \in Places
      BY DEF EntryOrders
    <3> QED
      BY <3>1, <3>2
  <2>2. Places \subseteq 0..Slots /\ e.stage \in 0..2
    BY <1>1, EvaluationAssumption DEF Places, Record
  <2>3. given = [size |-> order.size, dir |-> order.dir, kind |-> order.kind,
                 trigger |-> order.trigger, stop |-> order.stop, target |-> order.target,
                 expires |-> order.expires, place |-> order.place, stage |-> e.stage]
    BY DEF EntryOrders
  <2> HIDE DEF given, e
  <2>4. given.size > 0 /\ given.stage = e.stage /\ given.place \in Places
    BY <2>1, <2>3
  <2>5. given \in Order
    BY <2>1, <2>2, <2>3 DEF Order
  <2> QED
    BY <2>4, <2>5
<1>4. f \in Record /\ SameBook([e EXCEPT !.pending = @ + 1], f) /\ f.state = e.state
  BY <1>1 DEF Record, SameBook
<1>5. /\ f.stage = e.stage /\ f.size = e.size /\ f.balance = e.balance
      /\ f.trades = e.trades /\ f.wins = e.wins /\ f.losses = e.losses
      /\ f.grossProfit = e.grossProfit /\ f.grossLoss = e.grossLoss
      /\ f.open = e.open /\ f.pending = e.pending + 1
      /\ f.peak = e.peak /\ f.dayStart = e.dayStart
  BY <1>1 DEF Record
<1> HIDE DEF f, given
<1>6. Ledger(f, pos[s])
  BY <1>1, <1>5 DEF Ledger
<1>7. os \in [OrderIds -> Order] /\ Listed(f, os)
  <2>1. orders[s][o].size = 0
    BY <1>1, <1>2 DEF Order
  <2> QED
    BY <1>1, <1>3, <1>5, <2>1, ListedPlaced
<1>8. Standing(f) /\ Turns(e, f)
  BY <1>1, <1>2, <1>4, <1>5 DEF Standing, Turns, Within, DrawdownBps, DailyLossBps
<1> HIDE DEF os
<1> QED
  BY <1>2, <1>4, <1>6, <1>7, <1>8, RecordStep

LEMMA CancelByStep ==
  ASSUME IInv, NEW s \in Runs, NEW o \in OrderIds, NEW isTrader, CancelBy(s, o, isTrader)
  PROVE  IInv' /\ EarlyExits
<1> DEFINE e  == evals[s]
           f  == [e EXCEPT !.pending = SatSub(@, 1)]
           os == [orders[s] EXCEPT ![o] = NoOrder]
<1>1. /\ e \in Record /\ orders[s] \in [OrderIds -> Order]
      /\ Ledger(e, pos[s]) /\ Listed(e, orders[s]) /\ Standing(e)
  BY At DEF IInv
<1>2. /\ orders[s][o].size > 0
      /\ evals' = [evals EXCEPT ![s] = f] /\ orders' = [orders EXCEPT ![s] = os]
      /\ UNCHANGED <<pos, money, world>>
  BY DEF CancelBy, Rests
<1>3. f \in Record /\ f.state = e.state
  BY <1>1 DEF Record, SatSub, Greater
<1>4. /\ f.stage = e.stage /\ f.size = e.size /\ f.balance = e.balance
      /\ f.trades = e.trades /\ f.wins = e.wins /\ f.losses = e.losses
      /\ f.grossProfit = e.grossProfit /\ f.grossLoss = e.grossLoss
      /\ f.open = e.open /\ f.pending = SatSub(e.pending, 1)
      /\ f.peak = e.peak /\ f.dayStart = e.dayStart
  BY <1>1 DEF Record
<1> HIDE DEF f
<1>5. Ledger(f, pos[s])
  BY <1>1, <1>4 DEF Ledger
<1>6. os \in [OrderIds -> Order] /\ Listed(f, os)
  BY <1>1, <1>2, <1>4, NoOrderTyped, ListedTaken
<1>7. Standing(f) /\ Turns(e, f)
  <2>1. e.pending = 0 => f.pending = 0
    BY <1>4 DEF SatSub, Greater
  <2> QED
    BY <1>1, <1>3, <1>4, <2>1 DEF Standing, Turns, Within, DrawdownBps, DailyLossBps
<1> HIDE DEF os
<1> QED
  BY <1>2, <1>3, <1>5, <1>6, <1>7, RecordStep

(* A mark: of a flat account it is the balance. *)
LEMMA EvalObserveEquityStep ==
  ASSUME IInv, NEW s \in Runs, NEW spread \in Spreads, EvalObserveEquity(s, spread)
  PROVE  IInv' /\ EarlyExits
<1> PICK marked \in SUBSET Live(s) :
      /\ evals[s].state # "None"
      /\ Cardinality(marked) = evals[s].open
      /\ \E equity \in {FloorEquity(MarkedEquity(s, marked, spread))} :
             evals' = [evals EXCEPT ![s] = Judge(RollDay(@, equity), equity)]
      /\ UNCHANGED <<pos, orders, money, world>>
  BY DEF EvalObserveEquity
<1> DEFINE e      == evals[s]
           worth  == [k \in Places |-> IF k \in marked THEN Realised(pos[s][k], spread) ELSE 0]
           equity == FloorEquity(MarkedEquity(s, marked, spread))
           day    == RollDay(e, equity)
           f      == Judge(day, equity)
<1>0. Accounts /\ spot \in Nat /\ borrow \in Nat /\ now \in Nat
  BY DEF IInv, Accounts, Typed
<1>1. /\ e \in Record /\ orders[s] \in [OrderIds -> Order]
      /\ Ledger(e, pos[s]) /\ Listed(e, orders[s]) /\ Standing(e)
      /\ \A k \in Places : pos[s][k] \in Virtual
  BY <1>0, At
<1>2. /\ e.state # "None" /\ Cardinality(marked) = e.open
      /\ evals' = [evals EXCEPT ![s] = f] /\ UNCHANGED <<pos, orders, money, world>>
  BY DEF IInv, Accounts, Typed
<1>3. worth \in [1..Slots -> Int]
  BY <1>0, <1>1, RealisedTyped DEF Places
<1>4. MarkedEquity(s, marked, spread) = e.balance + SumTo(worth, Slots)
  BY DEF MarkedEquity
<1>5. e.open = 0 => SumTo(worth, Slots) = 0
  <2> SUFFICES ASSUME e.open = 0 PROVE SumTo(worth, Slots) = 0
    OBVIOUS
  <2>1. IsFiniteSet(marked)
    <3>1. marked \in SUBSET Places
      BY DEF Live
    <3> QED
      BY <3>1, Finite, FS_Subset
  <2>2. marked = {}
    BY <1>2, <2>1, FS_EmptySet
  <2>3. \A k \in 1..Slots : worth[k] = 0
    BY <2>2 DEF Places
  <2> HIDE DEF worth
  <2> QED
    BY <1>3, <2>3, SumZero, EvaluationAssumption
<1>6. MarkedEquity(s, marked, spread) \in Int
  <2>1. SumTo(worth, Slots) \in Int /\ e.balance \in Int
    BY <1>1, <1>3, SumInt, EvaluationAssumption DEF Record
  <2> HIDE DEF worth
  <2> QED
    BY <1>4, <2>1
<1>7. equity \in Int /\ (e.open = 0 => equity = FloorEquity(e.balance))
  <2>1. equity \in Int
    BY <1>6, FloorTypedEquity
  <2>2. e.open = 0 => MarkedEquity(s, marked, spread) = e.balance
    BY <1>1, <1>4, <1>5 DEF Record
  <2> QED
    BY <2>1, <2>2
<1> HIDE DEF equity, worth
<1>8. day \in Record /\ SameBook(e, day) /\ day.state = e.state
  BY <1>0, <1>1, <1>7, RollDayKeeps
<1> HIDE DEF day
<1>9. /\ f \in Record /\ SameBook(day, f) /\ Turns(day, f)
      /\ f.state = "Active" /\ equity = FloorEquity(day.balance) => Within(f)
  BY <1>7, <1>8, JudgeKeeps
<1> HIDE DEF f
<1>10. SameBook(e, f) /\ Turns(e, f)
  BY <1>8, <1>9 DEF SameBook, Turns
<1>11. Ledger(f, pos[s]) /\ Listed(f, orders[s])
  BY <1>1, <1>10, LedgerKeeps, ListedKeeps DEF SameBook
<1>12. Standing(f)
  <2>1. f.open = e.open /\ f.size = e.size /\ day.balance = e.balance
    BY <1>8, <1>10 DEF SameBook
  <2> QED
    BY <1>1, <1>2, <1>7, <1>9, <1>10, <2>1 DEF Standing, Turns
<1>13. orders' = [orders EXCEPT ![s] = orders[s]] /\ UNCHANGED <<pos, money, world>>
  BY <1>2 DEF IInv, Accounts, Typed
<1> QED
  BY <1>1, <1>2, <1>9, <1>10, <1>11, <1>12, <1>13, RecordStep

LEMMA AbandonEvaluationStep ==
  ASSUME IInv, NEW s \in Runs, AbandonEvaluation(s)
  PROVE  IInv' /\ EarlyExits
<1> DEFINE e == evals[s]
           f == Failed(e, "Abandoned")
<1>1. /\ e \in Record /\ orders[s] \in [OrderIds -> Order]
      /\ Ledger(e, pos[s]) /\ Listed(e, orders[s]) /\ Standing(e)
  BY At DEF IInv
<1>2. /\ e.state = "Active" /\ evals' = [evals EXCEPT ![s] = f]
      /\ UNCHANGED <<pos, orders, money, world>>
  BY DEF AbandonEvaluation, IInv, Accounts, Typed
<1>3. f \in Record /\ SameBook(e, f) /\ Turns(e, f) /\ f.state # "Active"
  BY <1>1, FailedKeeps DEF Rules
<1> HIDE DEF f
<1>4. Ledger(f, pos[s]) /\ Listed(f, orders[s])
  BY <1>1, <1>3, LedgerKeeps, ListedKeeps DEF SameBook
<1>5. Standing(f)
  BY <1>1, <1>2, <1>3 DEF Standing, SameBook, Turns
<1>6. orders' = [orders EXCEPT ![s] = orders[s]] /\ UNCHANGED <<pos, money, world>>
  BY <1>2 DEF IInv, Accounts, Typed
<1> QED
  BY <1>1, <1>2, <1>3, <1>4, <1>5, <1>6, RecordStep

-----------------------------------------------------------------------------
(* A stage begins, a stage is passed, and the stake. *)

(* reset_stage: with nothing open and nothing resting, a fresh record is   *)
(* right about it, and within the limits.                                  *)
LEMMA ResetCoherent ==
  ASSUME now \in Nat, NEW e \in Record, NEW g, NEW ps \in [Places -> Virtual],
         NEW os \in [OrderIds -> Order], Ledger(e, ps), Listed(e, os),
         e.open = 0, e.pending = 0, g.pending = 0,
         NEW stage \in 1..2, NEW size \in Nat \ {0}
  PROVE  LET f == ResetStage(g, stage, size)
         IN  /\ f \in Record /\ f.state = "Active" /\ f.stage = stage
             /\ Ledger(f, ps) /\ Listed(f, os) /\ Standing(f)
<1> DEFINE f1 == [NoEvaluation EXCEPT !.state = "Active"]
           f2 == [f1 EXCEPT !.stage = stage]
           f3 == [f2 EXCEPT !.size = size]
           f4 == [f3 EXCEPT !.balance = size]
           f5 == [f4 EXCEPT !.peak = size]
           f6 == [f5 EXCEPT !.day = Today]
           f7 == [f6 EXCEPT !.dayStart = size]
           f  == [f7 EXCEPT !.pending = g.pending]
<1>1. Today \in Int
  BY DivFloors, EvaluationAssumption DEF Today
<1> HIDE DEF Today
<1>2. NoEvaluation \in Record
  BY DEF NoEvaluation, Record, States, Rules
<1>3. /\ NoEvaluation.trades = 0 /\ NoEvaluation.wins = 0 /\ NoEvaluation.losses = 0
      /\ NoEvaluation.grossProfit = 0 /\ NoEvaluation.grossLoss = 0 /\ NoEvaluation.open = 0
  BY DEF NoEvaluation
<1>4. f1 \in Record
  BY <1>2 DEF Record, States
<1>5. f2 \in Record
  <2> HIDE DEF f1
  <2> QED
    BY <1>4 DEF Record
<1>6. f3 \in Record
  <2> HIDE DEF f2
  <2> QED
    BY <1>5 DEF Record
<1>7. f4 \in Record
  <2> HIDE DEF f3
  <2> QED
    BY <1>6 DEF Record
<1>8. f5 \in Record
  <2> HIDE DEF f4
  <2> QED
    BY <1>7 DEF Record
<1>9. f6 \in Record
  <2> HIDE DEF f5
  <2> QED
    BY <1>1, <1>8 DEF Record
<1>10. f7 \in Record
  <2> HIDE DEF f6
  <2> QED
    BY <1>9 DEF Record
<1>11. f \in Record
  <2> HIDE DEF f7
  <2> QED
    BY <1>10 DEF Record
<1>12. /\ f.state = "Active" /\ f.stage = stage /\ f.size = size /\ f.balance = size
       /\ f.peak = size /\ f.dayStart = size /\ f.pending = 0
       /\ f.trades = 0 /\ f.wins = 0 /\ f.losses = 0
       /\ f.grossProfit = 0 /\ f.grossLoss = 0 /\ f.open = 0
  BY <1>2, <1>3 DEF Record
<1>13. f = ResetStage(g, stage, size)
  BY DEF ResetStage
<1> HIDE DEF f
<1>14. Held(ps) = {} /\ Cardinality(Held(ps)) = 0
  BY Finite, CountFinite DEF Ledger, Held
<1>15. Fees(ps) = 0
  <2>1. \A k \in Places : ps[k].fee = 0
    BY <1>14 DEF Held, Used, Ledger, Virtual
  <2> QED
    BY <2>1, NoFees
<1>16. Ledger(f, ps)
  BY <1>12, <1>14, <1>15 DEF Ledger
<1>17. Resting(os) = {} /\ Cardinality(Resting(os)) = 0
  BY Finite, CountFinite DEF Listed, Resting
<1>18. Listed(f, os)
  BY <1>12, <1>17 DEF Listed, Resting, Used
<1>19. Within(f)
  BY <1>12, NoLoss, EvaluationAssumption DEF Within, DrawdownBps, DailyLossBps
<1> QED
  BY <1>11, <1>12, <1>13, <1>16, <1>18, <1>19 DEF Standing

(* What a stake's escrow changes by, the wallet and the treasury change by *)
(* in the other direction.                                                 *)
LEMMA MoneyMoves ==
  ASSUME Funded, NEW s \in Runs, NEW v \in Nat, vault' = [vault EXCEPT ![s] = v],
         wallet' \in Nat, treasury' \in Nat,
         wallet' + treasury' + v = wallet + treasury + vault[s]
  PROVE  /\ vault' \in [Runs -> Nat] /\ vault'[s] = v
         /\ \A r \in Runs : r # s => vault'[r] = vault[r]
         /\ wallet' + treasury' + SumTo(vault', Sequels)
              = wallet + treasury + SumTo(vault, Sequels)
<1>1. /\ vault \in [1..Sequels -> Int] /\ s \in 1..Sequels /\ Sequels \in Nat /\ v \in Int
      /\ vault \in [Runs -> Nat] /\ wallet \in Nat /\ treasury \in Nat
  <2>1. vault \in [Runs -> Nat] /\ wallet \in Nat /\ treasury \in Nat
    BY DEF Funded
  <2>2. Sequels \in Nat /\ Runs = 1..Sequels
    BY EvaluationAssumption DEF Runs
  <2>3. vault \in [1..Sequels -> Int]
    BY <2>1, <2>2
  <2> QED
    BY <2>1, <2>2, <2>3
<1>2. SumTo([vault EXCEPT ![s] = v], Sequels) = SumTo(vault, Sequels) - vault[s] + v
  BY <1>1, SumUpdate
<1>3. SumTo(vault, Sequels) \in Int /\ vault[s] \in Int
  BY <1>1, SumInt
<1>4. SumTo(vault', Sequels) = SumTo(vault, Sequels) - vault[s] + v
  BY <1>2, Zenon
(* For all numbers first, as the solver takes primed variables for none.   *)
<1> DEFINE Kept(w1, t1, w, t) ==
             w1 + t1 + v = w + t + vault[s] =>
               w1 + t1 + SumTo(vault', Sequels) = w + t + SumTo(vault, Sequels)
<1>5. \A w1, t1, w, t \in Int : Kept(w1, t1, w, t)
  <2> DEFINE before == SumTo(vault, Sequels)
             after  == SumTo(vault', Sequels)
             held   == vault[s]
  <2>1. before \in Int /\ held \in Int /\ after = before - held + v /\ v \in Int
    BY <1>1, <1>3, <1>4
  <2> HIDE DEF before, after, held
  <2>2. \A w1, t1, w, t \in Int : w1 + t1 + v = w + t + held => w1 + t1 + after = w + t + before
    BY <2>1
  <2> QED
    BY <2>2 DEF before, after, held
<1>6. wallet \in Int /\ treasury \in Int /\ wallet' \in Int /\ treasury' \in Int
  BY <1>1
<1> HIDE DEF Kept
<1>7. Kept(wallet', treasury', wallet, treasury)
  BY <1>5, <1>6, Zenon
<1>8. wallet' + treasury' + SumTo(vault', Sequels) = wallet + treasury + SumTo(vault, Sequels)
  BY <1>7, Zenon DEF Kept
<1> QED
  BY <1>1, <1>8

(* The stake, or a gift, of one run moves: into its escrow while it is not *)
(* over, out of it when it is.                                             *)
LEMMA StakeMoves ==
  ASSUME Funded, Escrowed, StakesAccounted, NEW s \in Runs, NEW v \in Nat, NEW q \in Nat,
         vault' = [vault EXCEPT ![s] = v], paidIn' = [paidIn EXCEPT ![s] = q],
         wallet' \in Nat, treasury' \in Nat, evalsPassed' \in Nat,
         wallet' + treasury' + v = wallet + treasury + vault[s],
         treasury' - Forfeited(s)' = treasury - Forfeited(s),
         \A r \in Runs : r # s => evals'[r].state = evals[r].state,
         evals'[s].state \in {"None", "Active"} => v = q,
         evals'[s].state = "Active" => v >= EvalStake,
         evalsPassed' = Cardinality({r \in Runs : evals'[r].state = "Passed"})
  PROVE  Funded' /\ Escrowed' /\ StakesAccounted'
<1>1. /\ vault' \in [Runs -> Nat] /\ vault'[s] = v
      /\ \A r \in Runs : r # s => vault'[r] = vault[r]
      /\ wallet' + treasury' + SumTo(vault', Sequels) = wallet + treasury + SumTo(vault, Sequels)
  BY MoneyMoves
<1>2. /\ paidIn' \in [Runs -> Nat] /\ paidIn'[s] = q
      /\ \A r \in Runs : r # s => paidIn'[r] = paidIn[r]
  BY DEF Funded
<1>3. Funded'
  BY <1>1, <1>2 DEF Funded
<1>4. Escrowed'
  BY <1>1, <1>2 DEF Escrowed
<1>5. treasury' = SumTo([r \in Runs |-> Forfeited(r)'], Sequels)
  <2> DEFINE later == Forfeited(s)'
             after == [r \in Runs |-> Forfeited(r)']
  <2>1. Forfeits \in [1..Sequels -> Int] /\ Sequels \in Nat /\ s \in 1..Sequels
    BY ForfeitsTyped, EvaluationAssumption DEF Runs
  <2>2. later \in Int
    BY <1>1, <1>2 DEF Forfeited
  <2>3. after = [Forfeits EXCEPT ![s] = later]
    <3>1. \A r \in Runs : r # s => Forfeited(r)' = Forfeited(r)
      BY <1>1, <1>2 DEF Forfeited
    <3> QED
      BY <3>1 DEF Forfeits
  <2>4. Forfeits[s] = Forfeited(s)
    BY DEF Forfeits
  <2>5. treasury = SumTo(Forfeits, Sequels)
    BY DEF StakesAccounted, Forfeits
  <2>6. treasury' - later = treasury - Forfeits[s]
    BY <2>4
  <2>7. treasury \in Int /\ treasury' \in Int
    BY DEF Funded
  <2> HIDE DEF later, after
  <2>8. SumTo(after, Sequels) = SumTo(Forfeits, Sequels) - Forfeits[s] + later
    BY <2>1, <2>2, <2>3, SumUpdate
  <2>9. Forfeits[s] \in Int
    BY <2>1
  <2>10. treasury' = SumTo(after, Sequels)
    BY <2>2, <2>5, <2>6, <2>7, <2>8, <2>9
  <2> QED
    BY <2>10 DEF after
<1>6. \A r \in Runs : evals'[r].state = "Active" =>
         vault'[r] = paidIn'[r] /\ vault'[r] >= EvalStake
  BY <1>1, <1>2 DEF StakesAccounted
<1> QED
  BY <1>1, <1>3, <1>4, <1>5, <1>6 DEF StakesAccounted

LEMMA StayPut ==
  ASSUME Accounts, UNCHANGED pos
  PROVE  EarlyExits
<1>1. \A s \in Runs, k \in Places : pos[s][k].size \in Nat
  BY At DEF Virtual
<1> QED
  BY <1>1 DEF EarlyExits

LEMMA StartEvaluationStep ==
  ASSUME IInv, NEW s \in Runs, StartEvaluation(s)
  PROVE  IInv' /\ EarlyExits
<1> DEFINE e == evals[s]
           f == ResetStage(NoEvaluation, 1, AccountSize)
<1>0. Accounts /\ now \in Nat /\ Funded /\ Escrowed /\ StakesAccounted
  BY DEF IInv, Accounts, Typed
<1>1. /\ e \in Record /\ pos[s] \in [Places -> Virtual] /\ orders[s] \in [OrderIds -> Order]
      /\ Ledger(e, pos[s]) /\ Listed(e, orders[s]) /\ Standing(e)
      /\ \A k \in Places : pos[s][k].size > 0 => Costly(pos[s][k])
  BY <1>0, At
<1>2. /\ e.state = "None" /\ wallet >= EvalStake
      /\ evals' = [evals EXCEPT ![s] = f]
      /\ wallet' = wallet - EvalStake /\ vault' = [vault EXCEPT ![s] = vault[s] + EvalStake]
      /\ paidIn' = [paidIn EXCEPT ![s] = paidIn[s] + EvalStake]
      /\ UNCHANGED <<pos, orders, treasury, evalsPassed, world>>
  BY DEF StartEvaluation, Funded
<1>3. /\ f \in Record /\ f.state = "Active"
      /\ Ledger(f, pos[s]) /\ Listed(f, orders[s]) /\ Standing(f)
  <2>1. e.open = 0 /\ e.pending = 0 /\ NoEvaluation.pending = 0
    BY <1>1, <1>2 DEF Standing, NoEvaluation
  <2>2. AccountSize \in Nat \ {0} /\ 1 \in 1..2
    BY EvaluationAssumption
  <2> HIDE DEF e
  <2> QED
    BY <1>0, <1>1, <2>1, <2>2, ResetCoherent
<1> HIDE DEF f
<1>4. Accounts'
  <2>1. pos' = [pos EXCEPT ![s] = pos[s]] /\ orders' = [orders EXCEPT ![s] = orders[s]]
    BY <1>0, <1>2 DEF Accounts, Typed
  <2> QED
    BY <1>0, <1>1, <1>2, <1>3, <2>1, AccountsStep
<1>5. evals'[s] = f /\ \A r \in Runs : r # s => evals'[r] = evals[r]
  BY <1>0, <1>2 DEF Accounts, Typed
<1>6. Funded' /\ Escrowed' /\ StakesAccounted'
  <2>1. /\ EvalStake \in Nat /\ vault[s] \in Nat /\ paidIn[s] = vault[s]
        /\ wallet \in Nat /\ treasury \in Nat /\ evalsPassed \in Nat
    BY <1>0, <1>2, EvaluationAssumption DEF Funded, Escrowed
  <2>2. /\ vault[s] + EvalStake \in Nat /\ paidIn[s] + EvalStake \in Nat
        /\ vault[s] + EvalStake = paidIn[s] + EvalStake /\ vault[s] + EvalStake >= EvalStake
        /\ wallet' \in Nat /\ treasury' \in Nat /\ evalsPassed' \in Nat
        /\ wallet' + treasury' + (vault[s] + EvalStake) = wallet + treasury + vault[s]
    BY <1>2, <2>1
  <2>3. treasury' - Forfeited(s)' = treasury - Forfeited(s)
    <3>1. Forfeited(s) = 0 /\ Forfeited(s)' = 0
      BY <1>2, <1>3, <1>5 DEF Forfeited
    <3> QED
      BY <1>2, <3>1
  <2>4. {r \in Runs : evals'[r].state = "Passed"} = {r \in Runs : evals[r].state = "Passed"}
    BY <1>2, <1>3, <1>5
  <2>5. evalsPassed' = Cardinality({r \in Runs : evals'[r].state = "Passed"})
    BY <1>0, <1>2, <2>4 DEF StakesAccounted
  <2> QED
    BY <1>0, <1>2, <1>5, <2>2, <2>3, <2>5, StakeMoves
<1>7. EarlyExits
  BY <1>0, <1>2, StayPut
<1> QED
  BY <1>4, <1>6, <1>7 DEF IInv

LEMMA ClaimFirstStageStep ==
  ASSUME IInv, NEW s \in Runs, ClaimFirstStage(s)
  PROVE  IInv' /\ EarlyExits
<1> DEFINE e == evals[s]
           f == ResetStage(e, 2, e.size)
<1>0. Accounts /\ now \in Nat
  BY DEF IInv, Accounts, Typed
<1>1. /\ e \in Record /\ pos[s] \in [Places -> Virtual] /\ orders[s] \in [OrderIds -> Order]
      /\ Ledger(e, pos[s]) /\ Listed(e, orders[s]) /\ Standing(e)
  BY <1>0, At
<1>2. /\ e.state = "Active" /\ e.open = 0 /\ e.pending = 0
      /\ evals' = [evals EXCEPT ![s] = f] /\ UNCHANGED <<pos, orders, money, world>>
  BY DEF ClaimFirstStage, Earned, IInv, Accounts, Typed
<1>3. /\ f \in Record /\ f.state = "Active"
      /\ Ledger(f, pos[s]) /\ Listed(f, orders[s]) /\ Standing(f)
  <2>1. e.size \in Nat \ {0} /\ 2 \in 1..2
    BY <1>1, <1>2 DEF Standing, Record
  <2> HIDE DEF e
  <2> QED
    BY <1>0, <1>1, <1>2, <2>1, ResetCoherent
<1> HIDE DEF f
<1>4. Turns(e, f)
  BY <1>2, <1>3 DEF Turns
<1>5. orders' = [orders EXCEPT ![s] = orders[s]] /\ UNCHANGED <<pos, money, world>>
  BY <1>2 DEF IInv, Accounts, Typed
<1> QED
  BY <1>1, <1>2, <1>3, <1>4, <1>5, RecordStep

LEMMA ClaimSecondStageStep ==
  ASSUME IInv, NEW s \in Runs, ClaimSecondStage(s)
  PROVE  IInv' /\ EarlyExits
<1> DEFINE e == evals[s]
           f == [e EXCEPT !.state = "Passed"]
<1>0. Accounts /\ Funded /\ Escrowed /\ StakesAccounted
  BY DEF IInv
<1>1. /\ e \in Record /\ pos[s] \in [Places -> Virtual] /\ orders[s] \in [OrderIds -> Order]
      /\ Ledger(e, pos[s]) /\ Listed(e, orders[s]) /\ Standing(e)
      /\ \A k \in Places : pos[s][k].size > 0 => Costly(pos[s][k])
  BY <1>0, At
<1>2. /\ e.state = "Active" /\ evals' = [evals EXCEPT ![s] = f]
      /\ evalsPassed' = evalsPassed + 1
      /\ wallet' = wallet + vault[s] /\ vault' = [vault EXCEPT ![s] = 0]
      /\ UNCHANGED <<pos, orders, treasury, paidIn, world>>
  BY DEF ClaimSecondStage, Earned, IInv, Accounts, Typed
<1>3. f \in Record /\ SameBook(e, f) /\ f.state = "Passed"
  BY <1>1 DEF Record, States, SameBook
<1> HIDE DEF f
<1>4. Accounts'
  <2>1. Ledger(f, pos[s]) /\ Listed(f, orders[s])
    BY <1>1, <1>3, LedgerKeeps, ListedKeeps DEF SameBook
  <2>2. Standing(f)
    BY <1>1, <1>2, <1>3 DEF Standing, SameBook
  <2>3. pos' = [pos EXCEPT ![s] = pos[s]] /\ orders' = [orders EXCEPT ![s] = orders[s]]
    BY <1>0, <1>2 DEF Accounts, Typed
  <2> QED
    BY <1>0, <1>1, <1>2, <1>3, <2>1, <2>2, <2>3, AccountsStep
<1>5. evals'[s] = f /\ \A r \in Runs : r # s => evals'[r] = evals[r]
  BY <1>0, <1>2 DEF Accounts, Typed
<1>6. evalsPassed' = Cardinality({r \in Runs : evals'[r].state = "Passed"})
  <2> DEFINE Pass  == {r \in Runs : evals[r].state = "Passed"}
             Pass1 == {r \in Runs : evals'[r].state = "Passed"}
  <2>1. Pass1 = Pass \cup {s} /\ s \notin Pass
    BY <1>2, <1>3, <1>5
  <2>2. IsFiniteSet(Pass)
    <3>1. Pass \in SUBSET Runs
      OBVIOUS
    <3>2. Sequels \in Int
      BY EvaluationAssumption
    <3>3. IsFiniteSet(Runs)
      BY <3>2, FS_Interval DEF Runs
    <3> QED
      BY <3>1, <3>3, FS_Subset
  <2>3. evalsPassed = Cardinality(Pass)
    BY <1>0 DEF StakesAccounted
  <2>4. Cardinality(Pass \cup {s}) = Cardinality(Pass) + 1
    BY <2>1, <2>2, FS_AddElement
  <2> HIDE DEF Pass
  <2> QED
    BY <1>2, <2>1, <2>3, <2>4
<1>7. Funded' /\ Escrowed' /\ StakesAccounted'
  <2>1. /\ vault[s] \in Nat /\ paidIn[s] \in Nat /\ wallet \in Nat /\ treasury \in Nat
        /\ evalsPassed \in Nat /\ paidIn' = [paidIn EXCEPT ![s] = paidIn[s]]
    BY <1>0, <1>2 DEF Funded
  <2>2. /\ 0 \in Nat /\ wallet' \in Nat /\ treasury' \in Nat /\ evalsPassed' \in Nat
        /\ wallet' + treasury' + 0 = wallet + treasury + vault[s]
    BY <1>2, <2>1
  <2>3. treasury' - Forfeited(s)' = treasury - Forfeited(s)
    <3>1. Forfeited(s) = 0 /\ Forfeited(s)' = 0
      BY <1>2, <1>3, <1>5 DEF Forfeited
    <3> QED
      BY <1>2, <3>1
  <2> QED
    BY <1>0, <1>2, <1>3, <1>5, <1>6, <2>1, <2>2, <2>3, StakeMoves
<1>8. EarlyExits
  BY <1>0, <1>2, StayPut
<1> QED
  BY <1>4, <1>7, <1>8 DEF IInv

(* Nothing but time passes, or money moves: the accounts stay. *)
LEMMA AccountsWait ==
  ASSUME Accounts, UNCHANGED <<evals, pos, orders>>, spot' \in Spots,
         borrow' \in Nat, borrow <= borrow', now' \in Nat, now <= now'
  PROVE  Accounts' /\ EarlyExits
<1>1. Typed'
  BY EvaluationAssumption DEF Accounts, Typed
<1>2. Consistent'
  BY DEF Accounts, Consistent
<1>3. AllCostly'
  <2> SUFFICES ASSUME NEW s \in Runs, NEW k \in Places, pos[s][k].size > 0
               PROVE  Costly(pos[s][k])'
    BY DEF AllCostly
  <2> DEFINE p == pos[s][k]
  <2>1. p \in Virtual /\ Costly(p)
    BY At
  <2>2. p' = p
    OBVIOUS
  <2>3. p.borrow \in Int /\ p.openedAt \in Int /\ borrow \in Nat /\ now \in Nat /\ MinHold \in Nat
    BY <2>1, EvaluationAssumption DEF Virtual, Accounts, Typed
  <2>4. p.borrow <= borrow'
    BY <2>1, <2>3 DEF Costly
  <2>5. now - p.openedAt >= MinHold => now' - p.openedAt >= MinHold
    BY <2>3
  <2> QED
    BY <2>1, <2>2, <2>4, <2>5 DEF Costly, HeldLongEnough, Adverse
<1>4. EarlyExits
  BY StayPut
<1> QED
  BY <1>1, <1>2, <1>3, <1>4 DEF Accounts

LEMMA WorldStep ==
  ASSUME IInv, PriceMoves \/ CarryAccrues \/ Tick \/ UNCHANGED vars
  PROVE  IInv' /\ EarlyExits
<1>1. /\ UNCHANGED <<evals, pos, orders>> /\ UNCHANGED money /\ spot' \in Spots
      /\ borrow' \in Nat /\ borrow <= borrow' /\ now' \in Nat /\ now <= now'
  BY DEF PriceMoves, CarryAccrues, Tick, vars, money, IInv, Accounts, Typed
<1>2. Accounts' /\ EarlyExits
  BY <1>1, AccountsWait DEF IInv
<1>3. \A r \in Runs : Turns(evals[r], evals'[r])
  BY <1>1 DEF Turns
<1> QED
  BY <1>1, <1>2, <1>3, StakesKeep DEF IInv, Accounts

LEMMA ForfeitStakeStep ==
  ASSUME IInv, NEW s \in Runs, ForfeitStake(s)
  PROVE  IInv' /\ EarlyExits
<1>0. Accounts /\ Funded /\ Escrowed /\ StakesAccounted
  BY DEF IInv
<1>1. /\ evals[s].state = "Failed" /\ treasury' = treasury + vault[s]
      /\ vault' = [vault EXCEPT ![s] = 0]
      /\ UNCHANGED <<evals, pos, orders, wallet, paidIn, evalsPassed, world>>
  BY DEF ForfeitStake
<1>2. Accounts' /\ EarlyExits
  <2>1. /\ spot' \in Spots /\ borrow' \in Nat /\ borrow <= borrow' /\ now' \in Nat /\ now <= now'
    BY <1>0, <1>1 DEF world, Accounts, Typed
  <2> QED
    BY <1>0, <1>1, <2>1, AccountsWait
<1>3. /\ vault[s] \in Nat /\ paidIn[s] \in Nat /\ wallet \in Nat /\ treasury \in Nat
      /\ evalsPassed \in Nat /\ paidIn' = [paidIn EXCEPT ![s] = paidIn[s]]
  BY <1>0, <1>1 DEF Funded
<1>4. /\ 0 \in Nat /\ wallet' \in Nat /\ treasury' \in Nat /\ evalsPassed' \in Nat
      /\ wallet' + treasury' + 0 = wallet + treasury + vault[s]
  BY <1>1, <1>3
<1>5. treasury' - Forfeited(s)' = treasury - Forfeited(s)
  <2>1. Forfeited(s) = paidIn[s] - vault[s] /\ Forfeited(s)' = paidIn[s] - 0
    BY <1>0, <1>1 DEF Forfeited, Funded
  <2> QED
    BY <1>1, <1>3, <2>1
<1>6. evalsPassed' = Cardinality({r \in Runs : evals'[r].state = "Passed"})
  BY <1>0, <1>1 DEF StakesAccounted
<1>7. Funded' /\ Escrowed' /\ StakesAccounted'
  BY <1>0, <1>1, <1>3, <1>4, <1>5, <1>6, StakeMoves
<1> QED
  BY <1>2, <1>7 DEF IInv

LEMMA GiftStep ==
  ASSUME IInv, NEW s \in Runs, NEW amount \in Gifts, Gift(s, amount)
  PROVE  IInv' /\ EarlyExits
<1>0. Accounts /\ Funded /\ Escrowed /\ StakesAccounted
  BY DEF IInv
<1>1. /\ evals[s].state # "None" /\ wallet >= amount /\ wallet' = wallet - amount
      /\ vault' = [vault EXCEPT ![s] = vault[s] + amount]
      /\ paidIn' = [paidIn EXCEPT ![s] = paidIn[s] + amount]
      /\ UNCHANGED <<evals, pos, orders, treasury, evalsPassed, world>>
  BY <1>0 DEF Gift, Funded
<1>2. Accounts' /\ EarlyExits
  <2>1. /\ spot' \in Spots /\ borrow' \in Nat /\ borrow <= borrow' /\ now' \in Nat /\ now <= now'
    BY <1>0, <1>1 DEF world, Accounts, Typed
  <2> QED
    BY <1>0, <1>1, <2>1, AccountsWait
<1>3. /\ vault[s] \in Nat /\ paidIn[s] \in Nat /\ wallet \in Nat /\ treasury \in Nat
      /\ evalsPassed \in Nat /\ amount \in Nat /\ EvalStake \in Nat
  BY <1>0, EvaluationAssumption DEF Funded
<1>4. /\ vault[s] + amount \in Nat /\ paidIn[s] + amount \in Nat
      /\ wallet' \in Nat /\ treasury' \in Nat /\ evalsPassed' \in Nat
      /\ wallet' + treasury' + (vault[s] + amount) = wallet + treasury + vault[s]
  BY <1>1, <1>3
<1>5. treasury' - Forfeited(s)' = treasury - Forfeited(s)
  <2>1. vault'[s] = vault[s] + amount /\ paidIn'[s] = paidIn[s] + amount
    BY <1>0, <1>1 DEF Funded
  <2>2. (paidIn[s] + amount) - (vault[s] + amount) = paidIn[s] - vault[s]
    BY <1>3
  <2>3. Forfeited(s)' = Forfeited(s)
    BY <1>1, <2>1, <2>2 DEF Forfeited
  <2> QED
    BY <1>1, <2>3
<1>6. evals'[s].state \in {"None", "Active"} => vault[s] + amount = paidIn[s] + amount
  BY <1>0, <1>1 DEF Escrowed
<1>7. evals'[s].state = "Active" => vault[s] + amount >= EvalStake
  BY <1>0, <1>1, <1>3 DEF StakesAccounted
<1>8. evalsPassed' = Cardinality({r \in Runs : evals'[r].state = "Passed"})
  BY <1>0, <1>1 DEF StakesAccounted
<1>9. Funded' /\ Escrowed' /\ StakesAccounted'
  BY <1>0, <1>1, <1>3, <1>4, <1>5, <1>6, <1>7, <1>8, StakeMoves
<1> QED
  BY <1>2, <1>9 DEF IInv

-----------------------------------------------------------------------------
LEMMA EvaluationStarts == Init => IInv
<1> SUFFICES ASSUME Init PROVE IInv
  OBVIOUS
<1>1. NoEvaluation \in Record /\ NoVirtual \in Virtual /\ NoOrder \in Order
  BY NoOrderTyped DEF NoEvaluation, NoVirtual, Record, Virtual, States, Rules, Directions
<1>2. Typed
  BY <1>1, EvaluationAssumption DEF Init, Typed
<1>3. \A s \in Runs : /\ evals[s] = NoEvaluation
                      /\ pos[s] \in [Places -> Virtual]
                      /\ \A k \in Places : pos[s][k].size = 0 /\ pos[s][k].fee = 0
                      /\ \A o \in OrderIds : orders[s][o].size = 0
  BY <1>1 DEF Init, NoVirtual, NoOrder
<1>4. Consistent
  <2> SUFFICES ASSUME NEW s \in Runs PROVE Coherent(evals[s], pos[s], orders[s])
    BY DEF Consistent
  <2>1. Fees(pos[s]) = 0
    BY <1>3, NoFees
  <2>2. Held(pos[s]) = {} /\ Resting(orders[s]) = {}
    BY <1>3 DEF Held, Resting, Used
  <2>3. Cardinality({}) = 0
    BY FS_EmptySet
  <2>4. Ledger(evals[s], pos[s])
    BY <1>3, <2>1, <2>2, <2>3 DEF Ledger, NoEvaluation
  <2>5. Listed(evals[s], orders[s])
    BY <1>3, <2>2, <2>3 DEF Listed, NoEvaluation
  <2>6. Standing(evals[s])
    BY <1>3 DEF Standing, NoEvaluation
  <2> QED
    BY <2>4, <2>5, <2>6 DEF Coherent
<1>5. AllCostly
  BY <1>3 DEF AllCostly
<1>6. Funded /\ Escrowed
  BY EvaluationAssumption DEF Init, Funded, Escrowed
<1>7. StakesAccounted
  <2>1. \A s \in Runs : evals[s].state = "None"
    BY <1>3 DEF NoEvaluation
  <2>2. Sequels \in Nat /\ Purse \in Nat
    BY EvaluationAssumption
  <2>3. SumTo(vault, Sequels) = 0
    <3>1. vault \in [1..Sequels -> Int] /\ \A i \in 1..Sequels : vault[i] = 0
      BY DEF Init, Runs
    <3> QED
      BY <2>2, <3>1, SumZero
  <2>4. SumTo(Forfeits, Sequels) = 0
    <3>1. \A i \in 1..Sequels : Forfeits[i] = 0
      BY <2>1 DEF Forfeits, Forfeited, Runs
    <3> QED
      BY <1>6, <2>2, <3>1, ForfeitsTyped, SumZero
  <2>5. {s \in Runs : evals[s].state = "Passed"} = {}
    BY <2>1
  <2>6. Cardinality({}) = 0
    BY FS_EmptySet
  <2>7. wallet = Purse /\ treasury = 0 /\ evalsPassed = 0
    BY DEF Init
  <2>8. wallet + treasury + SumTo(vault, Sequels) = Purse
    BY <2>2, <2>3, <2>7
  <2>9. \A s \in Runs : evals[s].state # "Active"
    BY <2>1
  <2>10. treasury = SumTo([s \in Runs |-> Forfeited(s)], Sequels)
    BY <2>4, <2>7 DEF Forfeits
  <2>11. evalsPassed = Cardinality({s \in Runs : evals[s].state = "Passed"})
    BY <2>5, <2>6, <2>7
  <2> QED
    BY <2>8, <2>9, <2>10, <2>11 DEF StakesAccounted
<1> QED
  BY <1>2, <1>4, <1>5, <1>6, <1>7 DEF IInv, Accounts

LEMMA EvaluationStep == IInv /\ [Next]_vars => IInv' /\ EarlyExits
<1> SUFFICES ASSUME IInv, [Next]_vars PROVE IInv' /\ EarlyExits
  OBVIOUS
<1>1. ASSUME NEW s \in Runs, Trades(s) PROVE IInv' /\ EarlyExits
  <2> PICK k \in Places, spread \in Spreads :
        \/ \E d \in Sides, size \in Sizes, stop \in Levels :
               MayOpen(s) /\ EvalOpenPosition(s, k, d, size, stop, spread)
        \/ EvalClosePosition(s, k, spread)
        \/ EvalTriggerStop(s, k, spread)
        \/ EvalTriggerTakeProfit(s, k, spread)
    BY <1>1 DEF Trades
  <2>1. CASE \E d \in Sides, size \in Sizes, stop \in Levels :
               MayOpen(s) /\ EvalOpenPosition(s, k, d, size, stop, spread)
    BY <2>1, EvalOpenPositionStep
  <2>2. CASE \/ EvalClosePosition(s, k, spread)
             \/ EvalTriggerStop(s, k, spread)
             \/ EvalTriggerTakeProfit(s, k, spread)
    BY <2>2, ExitStep
  <2> QED
    BY <2>1, <2>2
<1>2. ASSUME NEW s \in Runs, Adjusts(s) PROVE IInv' /\ EarlyExits
  BY <1>2, EvalSetTakeProfitStep, EvalMoveStopStep DEF Adjusts
<1>3. ASSUME NEW s \in Runs, Orders(s) PROVE IInv' /\ EarlyExits
  BY <1>3, EvalPlaceEntryOrderStep, EvalFillEntryOrderStep, CancelByStep DEF Orders
<1>4. ASSUME NEW s \in Runs, Ends(s) PROVE IInv' /\ EarlyExits
  <2>1. CASE StartEvaluation(s)
    BY <2>1, StartEvaluationStep
  <2>2. CASE \E spread \in Spreads : EvalObserveEquity(s, spread)
    BY <2>2, EvalObserveEquityStep
  <2>3. CASE ClaimStagePass(s)
    BY <2>3, ClaimFirstStageStep, ClaimSecondStageStep DEF ClaimStagePass
  <2>4. CASE ForfeitStake(s)
    BY <2>4, ForfeitStakeStep
  <2>5. CASE AbandonEvaluation(s)
    BY <2>5, AbandonEvaluationStep
  <2>6. CASE \E amount \in Gifts : Gift(s, amount)
    BY <2>6, GiftStep
  <2> QED
    BY <1>4, <2>1, <2>2, <2>3, <2>4, <2>5, <2>6 DEF Ends
<1>5. CASE PriceMoves \/ CarryAccrues \/ Tick \/ UNCHANGED vars
  BY <1>5, WorldStep
<1> QED
  BY <1>1, <1>2, <1>3, <1>4, <1>5 DEF Next

LEMMA EvaluationInvariant == Spec => []IInv
  BY EvaluationStarts, EvaluationStep, PTL DEF Spec

(* The record of an evaluation: whatever is opened, closed, stopped out,   *)
(* filled, cancelled or marked, at whatever prices, the balance is the     *)
(* capital plus the recorded results less the open fees still out, and the *)
(* counts are those of the accounts that exist.                            *)
THEOREM RecordAlwaysExact == Spec => []RecordExact
<1>1. IInv => RecordExact
  <2> SUFFICES ASSUME IInv, NEW s \in Runs
               PROVE  /\ evals[s].balance
                           = evals[s].size + evals[s].grossProfit - evals[s].grossLoss
                               - SumTo([k \in Places |-> pos[s][k].fee], Slots)
                      /\ evals[s].wins + evals[s].losses = evals[s].trades
                      /\ evals[s].open = Cardinality(Live(s))
                      /\ evals[s].pending = Cardinality({o \in OrderIds : Rests(s, o)})
    BY DEF RecordExact
  <2>1. Ledger(evals[s], pos[s]) /\ Listed(evals[s], orders[s])
    BY At DEF IInv
  <2>2. Live(s) = Held(pos[s]) /\ {o \in OrderIds : Rests(s, o)} = Resting(orders[s])
    BY DEF Live, Open, Rests, Held, Resting, Used
  <2> QED
    BY <2>1, <2>2 DEF Ledger, Listed, Fees
<1> QED
  BY <1>1, EvaluationInvariant, PTL

(* claim_stage_pass asks for the drawdown only: an account that is flat    *)
(* and runs is within both loss limits, so that the other one is implied.  *)
THEOREM FlatAlwaysWithinLimits == Spec => []FlatWithinLimits
<1>1. IInv => FlatWithinLimits
  BY At DEF IInv, FlatWithinLimits, Standing, Within
<1> QED
  BY <1>1, EvaluationInvariant, PTL

(* An order never rests in another stage than the one it was placed in,    *)
(* because a stage is passed with none resting.                            *)
THEOREM OrdersAlwaysInTheirStage == Spec => []OrdersKeepToTheirStage
<1>1. IInv => OrdersKeepToTheirStage
  BY At DEF IInv, OrdersKeepToTheirStage, Rests, Listed
<1> QED
  BY <1>1, EvaluationInvariant, PTL

(* Every unit is in the wallet, in an escrow or in the treasury; while an  *)
(* evaluation runs nothing has left its escrow, which holds the stake at   *)
(* least; and the treasury got exactly what left the escrows of the        *)
(* evaluations that failed, summed over all of them.                       *)
THEOREM StakesAlwaysAccounted == Spec => []StakesAccounted
<1>1. IInv => StakesAccounted
  BY DEF IInv
<1> QED
  BY <1>1, EvaluationInvariant, PTL

(* The hold rules have no way round: a position that ends early was        *)
(* stopped out, below its entry, and that is always a loss.                *)
THEOREM EarlyExitAlwaysLoses == Spec => EarlyExitLoses
<1>1. EarlyExits =>
        \A s \in Runs, k \in Places :
            Open(s, k) /\ pos'[s][k].size = 0 /\ ~HeldLongEnough(pos[s][k]) =>
                evals'[s].grossLoss > evals[s].grossLoss
  BY DEF EarlyExits, Open
<1> QED
  BY <1>1, EvaluationInvariant, EvaluationStep, PTL DEF Spec, EarlyExitLoses
=============================================================================
