-------------------------- MODULE SolfxMathProofs --------------------------
(***************************************************************************)
(* What the accounting proofs need to know of the arithmetic: where each   *)
(* rounding lands, that a fee is split without losing a unit, and how a    *)
(* sum over every account changes with one of them.  SumTo is a recursive  *)
(* function; its partial sums are shown to exist by taking the least index *)
(* at which they would not, which is induction stated over a set.          *)
(***************************************************************************)
EXTENDS SolfxMath, Sums, WellFoundedInduction, TLAPS

(* Division floors: its result is the integer part of the quotient. *)
LEMMA DivFloors ==
  ASSUME NEW a \in Int, NEW d \in Nat \ {0}
  PROVE  /\ a \div d \in Int
         /\ d * (a \div d) <= a
         /\ a < d * (a \div d) + d
  BY SMT

LEMMA FloorInt ==
  ASSUME NEW a \in Int, NEW b \in Int, NEW d \in Nat \ {0}
  PROVE  /\ MulDivFloor(a, b, d) \in Int
         /\ d * MulDivFloor(a, b, d) <= a * b
         /\ a * b < d * MulDivFloor(a, b, d) + d
<1>1. a * b \in Int
  OBVIOUS
<1> QED
  BY <1>1, DivFloors DEF MulDivFloor

LEMMA FloorTyped ==
  ASSUME NEW a \in Int, NEW b \in Int, NEW d \in Nat \ {0}
  PROVE  MulDivFloor(a, b, d) \in Int
  BY FloorInt

(* The floor of a non-negative quotient, at most a when b is at most d. *)
LEMMA FloorNat ==
  ASSUME NEW a \in Nat, NEW b \in Nat, NEW d \in Nat \ {0}
  PROVE  /\ MulDivFloor(a, b, d) \in Nat
         /\ b <= d => MulDivFloor(a, b, d) <= a
<1> DEFINE f == MulDivFloor(a, b, d)
<1>1. f \in Int /\ d * f <= a * b /\ a * b < d * f + d
  BY FloorInt
<1>2. a * b >= 0
  BY SMT
<1>3. f >= 0
  <2> HIDE DEF f
  <2> SUFFICES ASSUME f <= -1 PROVE FALSE
    BY <1>1
  <2>1. d * f <= d * (-1)
    BY <1>1
  <2> QED
    BY <1>1, <1>2, <2>1
<1>4. ASSUME b <= d PROVE f <= a
  <2> HIDE DEF f
  <2> SUFFICES ASSUME f >= a + 1 PROVE FALSE
    BY <1>1
  <2>1. a * b <= a * d
    BY <1>4
  <2>2. d * (a + 1) <= d * f
    BY <1>1
  <2>3. d * (a + 1) = a * d + d
    OBVIOUS
  <2> QED
    BY <1>1, <2>1, <2>2, <2>3
<1> QED
  BY <1>1, <1>3, <1>4

LEMMA CeilInt ==
  ASSUME NEW a \in Int, NEW b \in Int, NEW d \in Nat \ {0}
  PROVE  MulDivCeil(a, b, d) \in Int
<1>1. -(a * b) \in Int
  OBVIOUS
<1> QED
  BY <1>1, DivFloors DEF MulDivCeil

LEMMA CeilNat ==
  ASSUME NEW a \in Nat, NEW b \in Nat, NEW d \in Nat \ {0}
  PROVE  MulDivCeil(a, b, d) \in Nat
<1> DEFINE n == -(a * b)
           f == n \div d
<1>1. a * b \in Int /\ a * b >= 0
  BY SMT
<1>2. n \in Int /\ n <= 0
  BY <1>1
<1>3. f \in Int /\ d * f <= n
  <2> HIDE DEF n
  <2> QED
    BY <1>2, DivFloors
<1>4. f <= 0
  <2> HIDE DEF f, n
  <2> SUFFICES ASSUME f >= 1 PROVE FALSE
    BY <1>3
  <2>1. d * 1 <= d * f
    BY <1>3
  <2> QED
    BY <1>2, <1>3, <2>1
<1> QED
  BY <1>3, <1>4 DEF MulDivCeil

LEMMA FeeNat ==
  ASSUME NEW notional \in Nat, NEW rate \in Nat
  PROVE  FeeAmount(notional, rate) \in Nat
<1>1. MulDivCeil(notional, rate, RatePrecision) \in Nat
  BY CeilNat, ScalesAssumption
<1> QED
  BY <1>1 DEF FeeAmount, Greater

LEMMA FloorShare ==
  ASSUME NEW a \in Nat, NEW b \in Nat, NEW d \in Nat \ {0}
  PROVE  MulDivFloor(a, b, d) \in Nat /\ d * MulDivFloor(a, b, d) <= a * b
<1>1. MulDivFloor(a, b, d) \in Nat
  BY FloorNat
<1>2. d * MulDivFloor(a, b, d) <= a * b
  BY FloorInt
<1> QED
  BY <1>1, <1>2

Allocation == [lp : Nat, treasury : Nat, insurance : Nat, referral : Nat]

(* split_fee: the four shares of a fee are never negative and add up to    *)
(* the fee, whatever the split and the rounding.                           *)
THEOREM SplitFeeExact ==
  ASSUME NEW fee \in Nat, NEW split \in Allocation, ValidSplit(split)
  PROVE  /\ SplitFee(fee, split) \in Allocation
         /\ AllocTotal(SplitFee(fee, split)) = fee
<1> DEFINE lp  == MulDivFloor(fee, split.lp, Bps)
           ins == MulDivFloor(fee, split.insurance, Bps)
           ref == MulDivFloor(fee, split.referral, Bps)
<1>0. Bps \in Nat \ {0}
  BY ScalesAssumption
<1>1. /\ split.lp \in Nat /\ split.treasury \in Nat
      /\ split.insurance \in Nat /\ split.referral \in Nat
  BY DEF Allocation
<1>2. lp \in Nat /\ Bps * lp <= fee * split.lp
  BY <1>0, <1>1, FloorShare
<1>3. ins \in Nat /\ Bps * ins <= fee * split.insurance
  BY <1>0, <1>1, FloorShare
<1>4. ref \in Nat /\ Bps * ref <= fee * split.referral
  BY <1>0, <1>1, FloorShare
<1>5. lp + ins + ref <= fee
  <2> HIDE DEF lp, ins, ref
  <2> DEFINE s == split.lp + split.insurance + split.referral
             q == lp + ins + ref
  <2>1. s \in Nat /\ s <= Bps
    BY <1>1 DEF ValidSplit
  <2>2. fee * s = fee * split.lp + fee * split.insurance + fee * split.referral
    BY <1>1
  <2>3. fee * s <= fee * Bps
    <3> HIDE DEF s
    <3> QED
      BY <2>1, <1>0
  <2>4. Bps * q = Bps * lp + Bps * ins + Bps * ref
    BY <1>0, <1>2, <1>3, <1>4
  <2>5. q \in Nat /\ Bps * q <= fee * Bps
    <3>1. Bps * q <= fee * s
      <4>1. fee * split.lp \in Int /\ fee * split.insurance \in Int /\ fee * split.referral \in Int
        BY <1>1
      <4>2. Bps * lp \in Int /\ Bps * ins \in Int /\ Bps * ref \in Int
        BY <1>0, <1>2, <1>3, <1>4
      <4> QED
        BY <2>2, <2>4, <1>2, <1>3, <1>4, <4>1, <4>2
    <3>2. Bps * q \in Int /\ fee * s \in Int /\ fee * Bps \in Int /\ q \in Nat
      BY <1>0, <1>2, <1>3, <1>4, <1>1
    <3> HIDE DEF q, s
    <3> QED
      BY <3>1, <3>2, <2>3
  <2>6. q <= fee
    <3> HIDE DEF q, s
    <3> SUFFICES ASSUME q >= fee + 1 PROVE FALSE
      BY <2>5
    <3>1. Bps * (fee + 1) <= Bps * q
      BY <1>0, <2>5
    <3>2. Bps * (fee + 1) = fee * Bps + Bps
      BY <1>0
    <3> QED
      BY <1>0, <2>5, <3>1, <3>2
  <2> QED
    BY <2>6
<1>6. SplitFee(fee, split) =
        [lp |-> lp, insurance |-> ins, referral |-> ref, treasury |-> fee - lp - ins - ref]
  BY DEF SplitFee
<1>7. fee - lp - ins - ref \in Nat
  <2> HIDE DEF lp, ins, ref
  <2> QED
    BY <1>2, <1>3, <1>4, <1>5
<1> HIDE DEF lp, ins, ref
<1> QED
  BY <1>2, <1>3, <1>4, <1>6, <1>7 DEF Allocation, AllocTotal

-----------------------------------------------------------------------------
(* Funding.  A signed floor has the sign of what it floors. *)
LEMMA FloorSign ==
  ASSUME NEW a \in Int, NEW b \in Nat, NEW d \in Nat \ {0}
  PROVE  /\ MulDivFloor(a, b, d) \in Int
         /\ a >= 0 => MulDivFloor(a, b, d) >= 0
         /\ a <= 0 => MulDivFloor(a, b, d) <= 0
<1> DEFINE f == MulDivFloor(a, b, d)
           n == a * b
<1>1. f \in Int /\ d * f <= n /\ n < d * f + d
  BY FloorInt
<1>2. n \in Int /\ (a >= 0 => n >= 0) /\ (a <= 0 => n <= 0)
  OBVIOUS
<1> HIDE DEF f, n
<1>3. ASSUME n >= 0, f <= -1 PROVE FALSE
  <2>1. d * f <= d * (-1)
    BY <1>1, <1>3
  <2>2. d * (-1) = -d
    OBVIOUS
  <2>3. d * f \in Int
    BY <1>1
  <2> QED
    BY <1>1, <1>2, <1>3, <2>1, <2>2, <2>3
<1>4. ASSUME n <= 0, f >= 1 PROVE FALSE
  <2>1. d * f >= d * 1
    BY <1>1, <1>4
  <2>2. d * 1 = d /\ d * f \in Int
    BY <1>1
  <2> QED
    BY <1>1, <1>2, <1>4, <2>1, <2>2
<1>5. (a >= 0 => f >= 0) /\ (a <= 0 => f <= 0)
  BY <1>1, <1>2, <1>3, <1>4
<1> QED
  BY <1>1, <1>5 DEF f

(* The rate has the sign of the skew: it charges the heavy side. *)
LEMMA FundingRateSign ==
  ASSUME NEW long \in Nat, NEW short \in Nat, NEW k \in Nat, NEW cap \in Nat
  PROVE  /\ FundingRate(long, short, k, cap) \in Int
         /\ long <= short => FundingRate(long, short, k, cap) <= 0
         /\ long >= short => FundingRate(long, short, k, cap) >= 0
<1> DEFINE rate == FundingRate(long, short, k, cap)
<1>1. CASE long <= 0 \/ short <= 0
  <2>1. rate = 0
    BY <1>1 DEF FundingRate
  <2> QED
    BY <2>1
<1>2. CASE ~ (long <= 0 \/ short <= 0)
  <2> DEFINE gap    == long - short
             total  == long + short
             ratio  == MulDivFloor(gap, RatePrecision, total)
             scaled == MulDivFloor(ratio, k, RatePrecision)
  <2>1. /\ gap \in Int /\ total \in Nat \ {0} /\ RatePrecision \in Nat \ {0}
        /\ (long <= short => gap <= 0) /\ (long >= short => gap >= 0)
    BY <1>2, ScalesAssumption
  <2>2. rate = Greater(-cap, Lesser(scaled, cap))
    BY <1>2 DEF FundingRate
  <2> HIDE DEF gap, total
  <2>3. ratio \in Int /\ (gap >= 0 => ratio >= 0) /\ (gap <= 0 => ratio <= 0)
    BY <2>1, FloorSign
  <2> HIDE DEF ratio
  <2>4. scaled \in Int /\ (ratio >= 0 => scaled >= 0) /\ (ratio <= 0 => scaled <= 0)
    BY <2>1, <2>3, FloorSign
  <2> HIDE DEF scaled
  <2> QED
    BY <2>1, <2>2, <2>3, <2>4 DEF Greater, Lesser
<1> QED
  BY <1>1, <1>2

(* What one crank does to the two sides: the payer's index rises, the      *)
(* other's falls, and times the base sizes the fall is at most the rise    *)
(* and less than one unit of index short of it for every unit of the book. *)
Balances(update, payer, other, paying, receiving) ==
    /\ update[payer] \in Nat
    /\ -update[other] \in Nat
    /\ receiving * (-update[other]) <= paying * update[payer]
    /\ paying * update[payer] < receiving * (-update[other]) + receiving

(* The arithmetic of it: an update that charges the payer a period's rate  *)
(* and pays the other side its floored share balances.                     *)
LEMMA SharedOut ==
  ASSUME NEW update, NEW payer, NEW other, NEW period \in Nat,
         NEW paying \in Nat, NEW receiving \in Nat \ {0},
         update[payer] = period,
         update[other] = -MulDivFloor(period, paying, receiving)
  PROVE  Balances(update, payer, other, paying, receiving)
<1> DEFINE share == MulDivFloor(period, paying, receiving)
           n     == period * paying
<1>1. share \in Int /\ receiving * share <= n /\ n < receiving * share + receiving
  BY FloorInt
<1>2. share >= 0
  BY FloorSign
<1>3. update[other] = -share /\ n = paying * update[payer] /\ n \in Int
  OBVIOUS
<1> HIDE DEF share, n
<1>4. -update[other] = share
  BY <1>1, <1>3
<1> QED
  BY <1>1, <1>2, <1>3, <1>4 DEF Balances

(* update_funding_index: however the book is skewed, the receivers of a    *)
(* crank are promised no more than its payers are charged.                 *)
THEOREM FundingIndexBalances ==
  ASSUME NEW long \in Nat \ {0}, NEW short \in Nat \ {0}, NEW rate \in Int, rate # 0,
         NEW elapsed \in Nat \ {0}, NEW hour \in Nat \ {0}
  PROVE  LET update == FundingIndexUpdate(long, short, rate, elapsed, hour)
         IN  IF rate > 0 THEN Balances(update, "Long", "Short", long, short)
                         ELSE Balances(update, "Short", "Long", short, long)
<1> DEFINE update == FundingIndexUpdate(long, short, rate, elapsed, hour)
           period == MulDivCeil(Abs(rate), elapsed, hour)
           payer  == IF rate > 0 THEN "Long" ELSE "Short"
           base   == [d \in Directions |-> IF d = "Long" THEN long ELSE short]
           other  == CHOOSE d \in Directions : d # payer
           share  == MulDivFloor(period, base[payer], base[other])
<1>1. period \in Nat
  <2>1. Abs(rate) \in Nat
    BY DEF Abs
  <2> QED
    BY <2>1, CeilNat
<1>2. update = [d \in Directions |-> IF d = payer THEN period ELSE -share]
  BY DEF FundingIndexUpdate
<1>3. base["Long"] = long /\ base["Short"] = short
  BY DEF Directions
<1> HIDE DEF update, period
<1>4. CASE rate > 0
  <2>1. payer = "Long" /\ other = "Short"
    BY <1>4 DEF Directions
  <2>2. share = MulDivFloor(period, long, short)
    BY <1>3, <2>1
  <2> HIDE DEF payer, other, base, share
  <2>3. update["Long"] = period /\ update["Short"] = -MulDivFloor(period, long, short)
    BY <1>2, <2>1, <2>2 DEF Directions
  <2>4. Balances(update, "Long", "Short", long, short)
    BY <1>1, <2>3, SharedOut
  <2> QED
    BY <1>4, <2>4 DEF update
<1>5. CASE ~ (rate > 0)
  <2>1. payer = "Short" /\ other = "Long"
    BY <1>5 DEF Directions
  <2>2. share = MulDivFloor(period, short, long)
    BY <1>3, <2>1
  <2> HIDE DEF payer, other, base, share
  <2>3. update["Short"] = period /\ update["Long"] = -MulDivFloor(period, short, long)
    BY <1>2, <2>1, <2>2 DEF Directions
  <2>4. Balances(update, "Short", "Long", short, long)
    BY <1>1, <2>3, SharedOut
  <2> QED
    BY <1>5, <2>4 DEF update
<1> QED
  BY <1>4, <1>5

-----------------------------------------------------------------------------
(* Sums over an index. *)

(* A non-empty set of naturals has a least member. *)
LEMMA LeastNatural ==
  ASSUME NEW S, S \subseteq Nat, S # {}
  PROVE  \E m \in S : \A k \in S : m <= k
<1>1. IsWellFoundedOn(OpToRel(<, Nat), Nat)
  BY NatLessThanWellFounded
<1>2. PICK m \in S : \A k \in S : ~ (<<k, m>> \in OpToRel(<, Nat))
  BY <1>1, WFMin
<1>3. \A k \in S : ~ (k < m)
  BY <1>2 DEF OpToRel
<1> QED
  BY <1>3

(* Induction up to n: a set that holds 0, and m whenever it holds m - 1,   *)
(* holds every index up to n.                                              *)
LEMMA InductionUpTo ==
  ASSUME NEW n \in Nat, NEW T, 0 \in T, \A m \in 1..n : m - 1 \in T => m \in T
  PROVE  \A m \in 0..n : m \in T
<1> DEFINE Missing == {m \in 0..n : m \notin T}
<1> SUFFICES ASSUME Missing # {} PROVE FALSE
  OBVIOUS
<1>1. PICK m \in Missing : \A k \in Missing : m <= k
  <2>1. Missing \subseteq Nat
    OBVIOUS
  <2> HIDE DEF Missing
  <2> QED
    BY <2>1, LeastNatural
<1>2. m \in 1..n
  OBVIOUS
<1>3. m - 1 \in 0..n /\ m - 1 \notin Missing
  BY <1>1, <1>2
<1> QED
  BY <1>2, <1>3

(* The partial sums of f exist, and SumTo(f, n) is the last of them. *)
LEMMA PartialSums ==
  ASSUME NEW n \in Nat, NEW f \in [1..n -> Int]
  PROVE  \E g \in [0..n -> Int] :
            /\ g[0] = 0
            /\ \A i \in 1..n : g[i] = g[i - 1] + f[i]
            /\ SumTo(f, n) = g[n]
<1> DEFINE Rec(g, m) == g[0] = 0 /\ \A i \in 1..m : g[i] = g[i - 1] + f[i]
           Summed == {m \in Nat : \E g \in [0..m -> Int] : Rec(g, m)}
<1>1. 0 \in Summed
  <2> DEFINE g == [i \in 0..0 |-> 0]
  <2>1. g \in [0..0 -> Int] /\ Rec(g, 0)
    OBVIOUS
  <2> QED
    BY <2>1
<1>2. ASSUME NEW m \in 1..n, m - 1 \in Summed
      PROVE  m \in Summed
  <2>1. PICK g \in [0..(m - 1) -> Int] : Rec(g, m - 1)
    BY <1>2
  <2> DEFINE h == [i \in 0..m |-> IF i = m THEN g[m - 1] + f[m] ELSE g[i]]
  <2>2. h \in [0..m -> Int]
    <3>1. ASSUME NEW i \in 0..m
          PROVE  (IF i = m THEN g[m - 1] + f[m] ELSE g[i]) \in Int
      <4>1. i # m => i \in 0..(m - 1)
        OBVIOUS
      <4>2. m - 1 \in 0..(m - 1)
        OBVIOUS
      <4> QED
        BY <4>1, <4>2
    <3> QED
      BY <3>1
  <2>3. h[0] = 0
    BY <2>1
  <2>4. ASSUME NEW i \in 1..m
        PROVE  h[i] = h[i - 1] + f[i]
    <3>1. CASE i = m
      BY <3>1
    <3>2. CASE i # m
      <4>1. i \in 1..(m - 1) /\ i \in 0..m /\ i - 1 \in 0..m /\ i - 1 # m
        BY <3>2
      <4> QED
        BY <4>1, <2>1
    <3> QED
      BY <3>1, <3>2
  <2>5. Rec(h, m)
    BY <2>3, <2>4
  <2>6. \E k \in [0..m -> Int] : Rec(k, m)
    <3> HIDE DEF h, Rec
    <3> QED
      BY <2>2, <2>5
  <2> HIDE DEF Rec
  <2> QED
    BY <2>6
<1>3. n \in Summed
  <2> HIDE DEF Summed
  <2>1. \A m \in 0..n : m \in Summed
    BY <1>1, <1>2, InductionUpTo
  <2> QED
    BY <2>1
<1>4. PICK w \in [0..n -> Int] : Rec(w, n)
  BY <1>3
<1>5. w = [i \in 0..n |-> IF i = 0 THEN 0 ELSE w[i - 1] + f[i]]
  <2>1. ASSUME NEW i \in 0..n
        PROVE  w[i] = IF i = 0 THEN 0 ELSE w[i - 1] + f[i]
    BY <1>4
  <2> QED
    BY <2>1
<1> DEFINE g == CHOOSE g : g = [i \in 0..n |-> IF i = 0 THEN 0 ELSE g[i - 1] + f[i]]
<1>6. g = [i \in 0..n |-> IF i = 0 THEN 0 ELSE g[i - 1] + f[i]]
  BY <1>5
<1>7. SumTo(f, n) = g[n]
  BY <1>6 DEF SumTo
<1> HIDE DEF g
<1>8. g[0] = 0 /\ \A i \in 1..n : g[i] = g[i - 1] + f[i]
  <2>1. \A i \in 0..n : g[i] = IF i = 0 THEN 0 ELSE g[i - 1] + f[i]
    BY <1>6
  <2> QED
    BY <2>1
<1>9. g \in [0..n -> Int]
  <2> DEFINE T == {i \in Nat : i \in 0..n => g[i] \in Int}
  <2>1. 0 \in T
    BY <1>8
  <2>2. ASSUME NEW m \in 1..n, m - 1 \in T
        PROVE  m \in T
    <3>1. m - 1 \in 0..n
      OBVIOUS
    <3>2. g[m - 1] \in Int
      BY <2>2, <3>1
    <3> QED
      BY <1>8, <3>2
  <2>3. \A m \in 0..n : m \in T
    <3> HIDE DEF T
    <3> QED
      BY <2>1, <2>2, InductionUpTo
  <2>4. \A m \in 0..n : g[m] \in Int
    BY <2>3
  <2>5. DOMAIN g = 0..n /\ g = [i \in DOMAIN g |-> g[i]]
    BY <1>6
  <2> QED
    BY <2>4, <2>5
<1> QED
  BY <1>7, <1>8, <1>9

(* A sum of integers is an integer. *)
LEMMA SumInt ==
  ASSUME NEW n \in Nat, NEW f \in [1..n -> Int]
  PROVE  SumTo(f, n) \in Int
<1>1. PICK g \in [0..n -> Int] : SumTo(f, n) = g[n]
  BY PartialSums
<1> QED
  BY <1>1

(* A sum of zeros is zero. *)
LEMMA SumZero ==
  ASSUME NEW n \in Nat, NEW f \in [1..n -> Int], \A i \in 1..n : f[i] = 0
  PROVE  SumTo(f, n) = 0
<1>1. PICK g \in [0..n -> Int] : /\ g[0] = 0
                                 /\ \A i \in 1..n : g[i] = g[i - 1] + f[i]
                                 /\ SumTo(f, n) = g[n]
  BY PartialSums
<1> DEFINE T == {i \in Nat : i \in 0..n => g[i] = 0}
<1>2. 0 \in T
  BY <1>1
<1>3. ASSUME NEW m \in 1..n, m - 1 \in T
      PROVE  m \in T
  <2>1. m - 1 \in 0..n /\ g[m] = g[m - 1] + f[m] /\ f[m] = 0
    BY <1>1
  <2> QED
    BY <1>3, <2>1
<1>4. \A m \in 0..n : m \in T
  <2> HIDE DEF T
  <2> QED
    BY <1>2, <1>3, InductionUpTo
<1> QED
  BY <1>1, <1>4

(* Changing one term of a sum changes the sum by as much. *)
LEMMA SumUpdate ==
  ASSUME NEW n \in Nat, NEW f \in [1..n -> Int], NEW k \in 1..n, NEW v \in Int
  PROVE  SumTo([f EXCEPT ![k] = v], n) = SumTo(f, n) - f[k] + v
<1> DEFINE e == [f EXCEPT ![k] = v]
<1>0. e \in [1..n -> Int] /\ e[k] = v /\ \A i \in 1..n : i # k => e[i] = f[i]
  OBVIOUS
<1> HIDE DEF e
<1>1. PICK g \in [0..n -> Int] : /\ g[0] = 0
                                 /\ \A i \in 1..n : g[i] = g[i - 1] + f[i]
                                 /\ SumTo(f, n) = g[n]
  BY PartialSums
<1>2. PICK h \in [0..n -> Int] : /\ h[0] = 0
                                 /\ \A i \in 1..n : h[i] = h[i - 1] + e[i]
                                 /\ SumTo(e, n) = h[n]
  BY <1>0, PartialSums
<1> DEFINE T == {i \in Nat : i \in 0..n =>
                    h[i] = g[i] + (IF k <= i THEN v - f[k] ELSE 0)}
<1>3. 0 \in T
  BY <1>1, <1>2
<1>4. ASSUME NEW m \in 1..n, m - 1 \in T
      PROVE  m \in T
  <2>1. /\ m - 1 \in 0..n
        /\ m \in 0..n
        /\ g[m] = g[m - 1] + f[m]
        /\ h[m] = h[m - 1] + e[m]
    BY <1>1, <1>2
  <2>2. h[m - 1] = g[m - 1] + (IF k <= m - 1 THEN v - f[k] ELSE 0)
    BY <1>4, <2>1
  <2>3. CASE m = k
    BY <1>0, <2>1, <2>2, <2>3
  <2>4. CASE m # k
    <3>1. e[m] = f[m] /\ (k <= m - 1 <=> k <= m)
      <4>1. e[m] = f[m]
        BY <1>0, <2>4
      <4>2. k <= m - 1 <=> k <= m
        BY <2>4
      <4> QED
        BY <4>1, <4>2
    <3>2. f[m] \in Int /\ f[k] \in Int /\ g[m - 1] \in Int /\ g[m] \in Int
      BY <2>1
    <3>3. h[m] = g[m] + (IF k <= m THEN v - f[k] ELSE 0)
      <4>1. CASE k <= m - 1
        <5>1. h[m - 1] = g[m - 1] + (v - f[k])
          BY <2>2, <4>1
        <5>2. h[m] = (g[m - 1] + (v - f[k])) + f[m]
          BY <2>1, <3>1, <5>1
        <5>3. (g[m - 1] + (v - f[k])) + f[m] = (g[m - 1] + f[m]) + (v - f[k])
          <6> DEFINE a == g[m - 1]
                     b == f[m]
                     w == v - f[k]
          <6>1. a \in Int /\ b \in Int /\ w \in Int
            BY <3>2
          <6> HIDE DEF a, b, w
          <6>2. (a + w) + b = (a + b) + w
            BY <6>1
          <6> QED
            BY <6>2 DEF a, b, w
        <5> QED
          BY <2>1, <3>1, <4>1, <5>2, <5>3
      <4>2. CASE ~ (k <= m - 1)
        <5>1. h[m - 1] = g[m - 1] + 0
          BY <2>2, <4>2
        <5>2. h[m] = g[m] + 0
          BY <2>1, <3>1, <3>2, <5>1
        <5> QED
          BY <3>1, <4>2, <5>2
      <4> QED
        BY <4>1, <4>2
    <3> QED
      BY <2>1, <3>3
  <2> QED
    BY <2>3, <2>4
<1>5. \A m \in 0..n : m \in T
  <2> HIDE DEF T
  <2> QED
    BY <1>3, <1>4, InductionUpTo
<1>6. h[n] = g[n] + (v - f[k])
  BY <1>5
<1>7. SumTo(e, n) = SumTo(f, n) - f[k] + v
  <2>1. g[n] \in Int /\ f[k] \in Int
    OBVIOUS
  <2> QED
    BY <1>1, <1>2, <1>6, <2>1
<1> QED
  BY <1>7 DEF e

(* A sum of naturals is a natural that no term exceeds. *)
LEMMA SumNat ==
  ASSUME NEW n \in Nat, NEW f \in [1..n -> Nat]
  PROVE  /\ SumTo(f, n) \in Nat
         /\ \A k \in 1..n : f[k] <= SumTo(f, n)
<1>0. f \in [1..n -> Int]
  OBVIOUS
<1>1. PICK g \in [0..n -> Int] : /\ g[0] = 0
                                 /\ \A i \in 1..n : g[i] = g[i - 1] + f[i]
                                 /\ SumTo(f, n) = g[n]
  BY <1>0, PartialSums
<1> DEFINE T == {i \in Nat : i \in 0..n =>
                    g[i] >= 0 /\ \A k \in 1..i : f[k] <= g[i]}
<1>2. 0 \in T
  BY <1>1
<1>3. ASSUME NEW m \in 1..n, m - 1 \in T
      PROVE  m \in T
  <2>1. /\ m - 1 \in 0..n
        /\ g[m] = g[m - 1] + f[m]
        /\ g[m - 1] \in Int
        /\ f[m] \in Nat
    BY <1>1
  <2>2. g[m - 1] >= 0 /\ \A k \in 1..(m - 1) : f[k] <= g[m - 1]
    BY <1>3, <2>1
  <2>3. ASSUME NEW k \in 1..m
        PROVE  f[k] <= g[m]
    <3>1. CASE k = m
      BY <2>1, <2>2, <3>1
    <3>2. CASE k # m
      <4>1. k \in 1..(m - 1) /\ f[k] \in Nat
        BY <3>2
      <4> QED
        BY <2>1, <2>2, <4>1
    <3> QED
      BY <3>1, <3>2
  <2> QED
    BY <2>1, <2>2, <2>3
<1>4. \A m \in 0..n : m \in T
  <2> HIDE DEF T
  <2> QED
    BY <1>2, <1>3, InductionUpTo
<1> QED
  BY <1>1, <1>4

(* A sum of equal terms is their product. *)
LEMMA SumConstant ==
  ASSUME NEW n \in Nat, NEW c \in Int
  PROVE  SumTo([i \in 1..n |-> c], n) = n * c
<1> DEFINE f == [i \in 1..n |-> c]
<1>0. f \in [1..n -> Int] /\ \A i \in 1..n : f[i] = c
  OBVIOUS
<1> HIDE DEF f
<1>1. PICK g \in [0..n -> Int] : /\ g[0] = 0
                                 /\ \A i \in 1..n : g[i] = g[i - 1] + f[i]
                                 /\ SumTo(f, n) = g[n]
  BY <1>0, PartialSums
<1> DEFINE T == {i \in Nat : i \in 0..n => g[i] = i * c}
<1>2. 0 \in T
  BY <1>1
<1>3. ASSUME NEW m \in 1..n, m - 1 \in T
      PROVE  m \in T
  <2>1. m - 1 \in 0..n /\ g[m] = g[m - 1] + c
    BY <1>0, <1>1
  <2>2. g[m - 1] = (m - 1) * c
    BY <1>3, <2>1
  <2>3. (m - 1) * c + c = m * c
    <3>1. m \in Int
      OBVIOUS
    <3> QED
      BY <3>1
  <2> QED
    BY <2>1, <2>2, <2>3
<1>4. \A m \in 0..n : m \in T
  <2> HIDE DEF T
  <2> QED
    BY <1>2, <1>3, InductionUpTo
<1> QED
  BY <1>1, <1>4 DEF f
=============================================================================
