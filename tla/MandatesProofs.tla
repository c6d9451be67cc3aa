---------------------------- MODULE MandatesProofs ----------------------------
(***************************************************************************)
(* A mandate's mirror of its SolFX account, for every number of mandates   *)
(* and addresses: no result of a close is lost or counted twice (R-3), an  *)
(* open position always has a stop of its own (R-4), every position is in  *)
(* a slot that the counters count (R-5), and a settlement pays out all     *)
(* there is.                                                               *)
(*                                                                         *)
(* The trader's record and its replay do not feed back into any of it:     *)
(* the first half never expands them.  The second half proves that the     *)
(* record is never ahead of the money, and that folding the events yields  *)
(* it, however many positions one reconcile finds gone.                    *)
(***************************************************************************)
EXTENDS Mandates, SolfxMathProofs, FiniteSetTheorems

Holding == [size : Nat, margin : Int, fee : Int, birth : Int]
Slot    == [open : BOOLEAN, notional : Int]
Order   == [key : Keys, id : OrderIds, birth : Int]

Typed ==
    /\ opens \in Int
    /\ free \in [MandateIds -> Int] /\ last \in [MandateIds -> Int]
    /\ booked \in [MandateIds -> Int] /\ realized \in [MandateIds -> Int]
    /\ truth \in [MandateIds -> Int]
    /\ openPositions \in [MandateIds -> Int] /\ openNotional \in [MandateIds -> Int]
    /\ pos \in [MandateIds -> [Keys -> Holding]]
    /\ slots \in [MandateIds -> [Keys -> Slot]]
    /\ stops \in [MandateIds -> SUBSET Order]

(* Nothing is left of a closed position, nor of a released slot: what the  *)
(* sums below count is only what is open.                                  *)
NothingLeft ==
    \A m \in MandateIds, k \in Keys :
        /\ ~Live(m, k) => pos[m][k] = NoPosition
        /\ ~slots[m][k].open => slots[m][k].notional = 0

IInv == Typed /\ NothingLeft /\ ResultsTracked /\ StopsHeld /\ PositionsTracked

-----------------------------------------------------------------------------
(* Sums over one mandate's addresses *)

LEMMA AddNothing ==
  ASSUME NEW S, NEW f \in [S -> Int], NEW m \in S
  PROVE  f = [f EXCEPT ![m] = @ + 0]
OBVIOUS

(* The cost of what is open moves with the one position that is replaced. *)
LEMMA CostMoves ==
  ASSUME Typed, NEW m \in MandateIds, NEW k \in Keys, NEW p \in Holding,
         pos' = [pos EXCEPT ![m] = [@ EXCEPT ![k] = p]]
  PROVE  /\ pos' \in [MandateIds -> [Keys -> Holding]]
         /\ LiveCost(m) \in Int
         /\ LiveCost(m)' = LiveCost(m) + (Cost(p) - Cost(pos[m][k]))
         /\ \A n \in MandateIds : n # m => LiveCost(n)' = LiveCost(n)
<1> DEFINE f == [i \in Keys |-> Cost(pos[m][i])]
           g == [i \in Keys |-> Cost(pos'[m][i])]
<1>1. pos \in [MandateIds -> [Keys -> Holding]] /\ Addresses \in Nat
  BY MandateAssumption DEF Typed
<1>2. pos'[m] = [pos[m] EXCEPT ![k] = p] /\ \A n \in MandateIds : n # m => pos'[n] = pos[n]
  BY <1>1
<1>3. pos' \in [MandateIds -> [Keys -> Holding]]
  BY <1>1
<1>4. \A h \in Holding : Cost(h) \in Int
  BY DEF Cost, Holding
<1>5. f \in [1..Addresses -> Int] /\ f[k] = Cost(pos[m][k])
  BY <1>1, <1>4 DEF Keys
<1>6. g = [f EXCEPT ![k] = Cost(p)]
  BY <1>1, <1>2
<1>7. Cost(p) \in Int /\ f[k] \in Int /\ k \in 1..Addresses
  BY <1>4, <1>5 DEF Keys
<1>8. LiveCost(m) = SumTo(f, Addresses) /\ LiveCost(m)' = SumTo(g, Addresses)
  BY DEF LiveCost
<1>9. \A n \in MandateIds : n # m => LiveCost(n)' = LiveCost(n)
  BY <1>2 DEF LiveCost
<1> HIDE DEF f, g
<1>10. SumTo(f, Addresses) \in Int
  BY <1>1, <1>5, SumInt
<1>11. SumTo(g, Addresses) = SumTo(f, Addresses) - f[k] + Cost(p)
  BY <1>1, <1>5, <1>6, <1>7, SumUpdate
<1> QED
  BY <1>3, <1>5, <1>7, <1>8, <1>9, <1>10, <1>11

LEMMA CostInt == ASSUME Typed, NEW m \in MandateIds PROVE LiveCost(m) \in Int
<1> DEFINE f == [i \in Keys |-> Cost(pos[m][i])]
<1>1. f \in [1..Addresses -> Int] /\ Addresses \in Nat
  BY MandateAssumption DEF Typed, Keys, Cost, Holding
<1> HIDE DEF f
<1>2. SumTo(f, Addresses) \in Int
  BY <1>1, SumInt
<1> QED
  BY <1>2 DEF LiveCost, f

(* Likewise the notional booked, with the one slot that is replaced. *)
LEMMA NotionalMoves ==
  ASSUME Typed, NEW m \in MandateIds, NEW k \in Keys, NEW s \in Slot,
         slots' = [slots EXCEPT ![m] = [@ EXCEPT ![k] = s]]
  PROVE  /\ slots' \in [MandateIds -> [Keys -> Slot]]
         /\ SumTo([i \in Keys |-> slots[m][i].notional], Addresses) \in Int
         /\ SumTo([i \in Keys |-> slots'[m][i].notional], Addresses)
              = SumTo([i \in Keys |-> slots[m][i].notional], Addresses)
                  + (s.notional - slots[m][k].notional)
         /\ \A n \in MandateIds : n # m => slots'[n] = slots[n]
         /\ slots'[m] = [slots[m] EXCEPT ![k] = s]
<1> DEFINE f == [i \in Keys |-> slots[m][i].notional]
           g == [i \in Keys |-> slots'[m][i].notional]
<1>1. slots \in [MandateIds -> [Keys -> Slot]] /\ Addresses \in Nat
  BY MandateAssumption DEF Typed
<1>2. /\ slots'[m] = [slots[m] EXCEPT ![k] = s]
      /\ \A n \in MandateIds : n # m => slots'[n] = slots[n]
  BY <1>1
<1>3. slots' \in [MandateIds -> [Keys -> Slot]]
  BY <1>1
<1>4. f \in [1..Addresses -> Int] /\ f[k] = slots[m][k].notional
  BY <1>1 DEF Keys, Slot
<1>5. g = [f EXCEPT ![k] = s.notional]
  BY <1>1, <1>2
<1>6. s.notional \in Int /\ f[k] \in Int /\ k \in 1..Addresses
  BY <1>1, <1>4 DEF Keys, Slot
<1> HIDE DEF f, g
<1>7. SumTo(f, Addresses) \in Int
  BY <1>1, <1>4, SumInt
<1>8. SumTo(g, Addresses) = SumTo(f, Addresses) - f[k] + s.notional
  BY <1>1, <1>4, <1>5, <1>6, SumUpdate
<1>9. SumTo(g, Addresses) = SumTo(f, Addresses) + (s.notional - slots[m][k].notional)
  BY <1>4, <1>6, <1>7, <1>8
<1> QED
  BY <1>2, <1>3, <1>7, <1>9 DEF f, g

(* The sum of what is released and the sum of what is kept. *)
LEMMA SumSplit ==
  ASSUME NEW n \in Nat, NEW f \in [1..n -> Int], NEW g \in [1..n -> Int],
         NEW h \in [1..n -> Int], \A i \in 1..n : h[i] = f[i] - g[i]
  PROVE  SumTo(h, n) = SumTo(f, n) - SumTo(g, n)
<1>1. PICK a \in [0..n -> Int] : /\ a[0] = 0
                                 /\ \A i \in 1..n : a[i] = a[i - 1] + f[i]
                                 /\ SumTo(f, n) = a[n]
  BY PartialSums
<1>2. PICK b \in [0..n -> Int] : /\ b[0] = 0
                                 /\ \A i \in 1..n : b[i] = b[i - 1] + g[i]
                                 /\ SumTo(g, n) = b[n]
  BY PartialSums
<1>3. PICK c \in [0..n -> Int] : /\ c[0] = 0
                                 /\ \A i \in 1..n : c[i] = c[i - 1] + h[i]
                                 /\ SumTo(h, n) = c[n]
  BY PartialSums
<1> DEFINE T == {i \in 0..n : c[i] = a[i] - b[i]}
<1>4. 0 \in T
  BY <1>1, <1>2, <1>3
<1>5. \A i \in 1..n : i - 1 \in T => i \in T
  <2> SUFFICES ASSUME NEW i \in 1..n, i - 1 \in T PROVE i \in T
    OBVIOUS
  <2>1. i - 1 \in 0..n /\ i \in 0..n /\ c[i - 1] = a[i - 1] - b[i - 1]
    OBVIOUS
  <2>2. /\ a[i - 1] \in Int /\ b[i - 1] \in Int /\ c[i - 1] \in Int
        /\ f[i] \in Int /\ g[i] \in Int /\ h[i] = f[i] - g[i]
    BY <2>1
  <2>3. a[i] = a[i - 1] + f[i] /\ b[i] = b[i - 1] + g[i] /\ c[i] = c[i - 1] + h[i]
    BY <1>1, <1>2, <1>3
  <2>4. c[i] = a[i] - b[i]
    BY <2>1, <2>2, <2>3
  <2> QED
    BY <2>1, <2>4
<1> HIDE DEF T
<1>6. \A i \in 0..n : i \in T
  BY <1>4, <1>5, InductionUpTo
<1>7. n \in T
  BY <1>6
<1> QED
  BY <1>1, <1>2, <1>3, <1>7 DEF T

-----------------------------------------------------------------------------
(* Money.  An instruction of mandate m adds f to its free collateral, l to *)
(* the mirror of it, b to what is booked, r to the result it shows, t to   *)
(* what closes made and c to what the open positions cost; and all of it   *)
(* agrees.                                                                 *)
MoneyMoves(m, f, l, b, r, t, c) ==
    /\ f \in Int /\ l \in Int /\ b \in Int /\ r \in Int /\ t \in Int /\ c \in Int
    /\ free' = [free EXCEPT ![m] = @ + f]
    /\ last' = [last EXCEPT ![m] = @ + l]
    /\ booked' = [booked EXCEPT ![m] = @ + b]
    /\ realized' = [realized EXCEPT ![m] = @ + r]
    /\ truth' = [truth EXCEPT ![m] = @ + t]
    /\ LiveCost(m)' = LiveCost(m) + c
    /\ \A n \in MandateIds : n # m => LiveCost(n)' = LiveCost(n)
    /\ t = r + (f - l) - (b - c)

MoneyTyped ==
    /\ free \in [MandateIds -> Int] /\ last \in [MandateIds -> Int]
    /\ booked \in [MandateIds -> Int] /\ realized \in [MandateIds -> Int]
    /\ truth \in [MandateIds -> Int]

LEMMA MoneyTracked ==
  ASSUME Typed, ResultsTracked, NEW m \in MandateIds,
         NEW f, NEW l, NEW b, NEW r, NEW t, NEW c, MoneyMoves(m, f, l, b, r, t, c)
  PROVE  MoneyTyped' /\ ResultsTracked'
<1>1. MoneyTyped'
  BY DEF MoneyMoves, MoneyTyped, Typed
<1>2. SUFFICES ASSUME NEW n \in MandateIds
               PROVE  truth'[n] = realized'[n] + Unreconciled(n)'
  BY <1>1 DEF ResultsTracked
<1>3. /\ truth[n] \in Int /\ realized[n] \in Int /\ free[n] \in Int /\ last[n] \in Int
      /\ booked[n] \in Int /\ LiveCost(n) \in Int
      /\ truth[n] = realized[n] + ((free[n] - last[n]) - (booked[n] - LiveCost(n)))
  BY CostInt DEF Typed, ResultsTracked, Unreconciled
<1>4. CASE n = m
  <2>1. /\ truth'[n] = truth[n] + t /\ realized'[n] = realized[n] + r
        /\ free'[n] = free[n] + f /\ last'[n] = last[n] + l /\ booked'[n] = booked[n] + b
        /\ LiveCost(n)' = LiveCost(n) + c
    BY <1>4 DEF MoneyMoves, Typed
  <2>2. t = r + (f - l) - (b - c) /\ f \in Int /\ l \in Int /\ b \in Int /\ r \in Int /\ c \in Int
    BY DEF MoneyMoves
  <2>3. truth'[n] = realized'[n] + ((free'[n] - last'[n]) - (booked'[n] - LiveCost(n)'))
    BY <1>3, <2>1, <2>2
  <2> QED
    BY <2>3 DEF Unreconciled
<1>5. CASE n # m
  <2>1. /\ truth'[n] = truth[n] /\ realized'[n] = realized[n]
        /\ free'[n] = free[n] /\ last'[n] = last[n] /\ booked'[n] = booked[n]
        /\ LiveCost(n)' = LiveCost(n)
    BY <1>5 DEF MoneyMoves, Typed
  <2> QED
    BY <1>3, <2>1 DEF Unreconciled
<1> QED
  BY <1>4, <1>5

(* No position changes its cost. *)
LEMMA CostStays ==
  ASSUME UNCHANGED pos
  PROVE  \A n \in MandateIds : LiveCost(n)' = LiveCost(n)
BY DEF LiveCost

-----------------------------------------------------------------------------
(* The counters.  An instruction replaces one slot of mandate m by s. *)
Counters ==
    \A m \in MandateIds :
        /\ openPositions[m] = Cardinality(Booked(m))
        /\ openNotional[m] = SumTo([k \in Keys |-> slots[m][k].notional], Addresses)

CountersTyped ==
    /\ openPositions \in [MandateIds -> Int] /\ openNotional \in [MandateIds -> Int]
    /\ slots \in [MandateIds -> [Keys -> Slot]]

One(open) == IF open THEN 1 ELSE 0

SlotMoves(m, k, s) ==
    /\ slots' = [slots EXCEPT ![m] = [@ EXCEPT ![k] = s]]
    /\ openPositions' = [openPositions EXCEPT ![m] = @ + (One(s.open) - One(slots[m][k].open))]
    /\ openNotional' = [openNotional EXCEPT ![m] = @ + (s.notional - slots[m][k].notional)]

LEMMA BookedFinite ==
  ASSUME NEW m \in MandateIds PROVE IsFiniteSet(Booked(m)) /\ Booked(m) \subseteq Keys
<1>1. IsFiniteSet(Keys)
  BY MandateAssumption, FS_Interval DEF Keys
<1>2. Booked(m) \subseteq Keys
  BY DEF Booked
<1> QED
  BY <1>1, <1>2, FS_Subset

LEMMA CountersMove ==
  ASSUME Typed, Counters, NEW m \in MandateIds, NEW k \in Keys, NEW s \in Slot, SlotMoves(m, k, s)
  PROVE  CountersTyped' /\ Counters'
<1>1. slots' = [slots EXCEPT ![m] = [@ EXCEPT ![k] = s]]
  BY DEF SlotMoves
<1>2. /\ slots' \in [MandateIds -> [Keys -> Slot]]
      /\ SumTo([i \in Keys |-> slots[m][i].notional], Addresses) \in Int
      /\ SumTo([i \in Keys |-> slots'[m][i].notional], Addresses)
           = SumTo([i \in Keys |-> slots[m][i].notional], Addresses)
               + (s.notional - slots[m][k].notional)
      /\ \A n \in MandateIds : n # m => slots'[n] = slots[n]
      /\ slots'[m] = [slots[m] EXCEPT ![k] = s]
  BY <1>1, NotionalMoves
<1>3. /\ slots[m] \in [Keys -> Slot] /\ s.open \in BOOLEAN /\ slots[m][k].open \in BOOLEAN
      /\ s.notional \in Int /\ slots[m][k].notional \in Int
  BY DEF Typed, Slot
<1>4. CountersTyped'
  BY <1>2, <1>3 DEF Typed, CountersTyped, SlotMoves, One
<1>5. Cardinality(Booked(m))' = Cardinality(Booked(m)) + (One(s.open) - One(slots[m][k].open))
  <2>1. IsFiniteSet(Booked(m)) /\ Cardinality(Booked(m)) \in Nat
    BY BookedFinite, FS_CardinalityType
  <2>2. CASE s.open = slots[m][k].open
    <3>1. Booked(m)' = Booked(m)
      BY <1>2, <1>3, <2>2 DEF Booked
    <3> QED
      BY <1>3, <2>1, <2>2, <3>1 DEF One
  <2>3. CASE s.open /\ ~slots[m][k].open
    <3>1. Booked(m)' = Booked(m) \cup {k} /\ k \notin Booked(m)
      BY <1>2, <1>3, <2>3 DEF Booked
    <3>2. Cardinality(Booked(m) \cup {k}) = Cardinality(Booked(m)) + 1
      BY <2>1, <3>1, FS_AddElement
    <3> QED
      BY <2>1, <2>3, <3>1, <3>2 DEF One
  <2>4. CASE ~s.open /\ slots[m][k].open
    <3>1. Booked(m)' = Booked(m) \ {k} /\ k \in Booked(m)
      BY <1>2, <1>3, <2>4 DEF Booked
    <3>2. Cardinality(Booked(m) \ {k}) = Cardinality(Booked(m)) - 1
      BY <2>1, <3>1, FS_RemoveElement
    <3> QED
      BY <2>1, <2>4, <3>1, <3>2 DEF One
  <2> QED
    BY <1>3, <2>2, <2>3, <2>4
<1>6. openPositions'[m] = Cardinality(Booked(m))'
  BY <1>5 DEF SlotMoves, Counters, Typed
<1>7. openNotional'[m] = SumTo([i \in Keys |-> slots'[m][i].notional], Addresses)
  BY <1>2 DEF SlotMoves, Counters, Typed
<1>8. ASSUME NEW n \in MandateIds, n # m
      PROVE  /\ openPositions'[n] = Cardinality(Booked(n))'
             /\ openNotional'[n] = SumTo([i \in Keys |-> slots'[n][i].notional], Addresses)
  <2>1. slots'[n] = slots[n] /\ openPositions'[n] = openPositions[n]
        /\ openNotional'[n] = openNotional[n]
    BY <1>2, <1>8 DEF SlotMoves, Typed
  <2>2. Booked(n)' = Booked(n)
    BY <2>1 DEF Booked
  <2> QED
    BY <2>1, <2>2 DEF Counters
<1> QED
  BY <1>4, <1>6, <1>7, <1>8 DEF Counters
LEMMA CountersStay ==
  ASSUME Typed, Counters, UNCHANGED book
  PROVE  CountersTyped' /\ Counters'
<1>1. slots' = slots /\ openPositions' = openPositions /\ openNotional' = openNotional
  BY DEF book
<1>2. CountersTyped'
  BY <1>1 DEF Typed, CountersTyped
<1>3. \A m \in MandateIds : Booked(m)' = Booked(m)
  BY <1>1 DEF Booked
<1>4. Counters'
  BY <1>1, <1>3 DEF Counters
<1> QED
  BY <1>2, <1>4

-----------------------------------------------------------------------------
(* What holds of one address of one mandate *)
Sound(m, k) ==
    /\ ~Live(m, k) => pos[m][k] = NoPosition
    /\ ~slots[m][k].open => slots[m][k].notional = 0
    /\ Live(m, k) => slots[m][k].open
    /\ Live(m, k) => \E o \in stops[m] : o.key = k /\ o.birth = pos[m][k].birth

AllSound == \A m \in MandateIds, k \in Keys : Sound(m, k)

VenueTyped ==
    /\ pos \in [MandateIds -> [Keys -> Holding]]
    /\ stops \in [MandateIds -> SUBSET Order]

LEMMA Parts == IInv <=> /\ Typed /\ ResultsTracked /\ Counters /\ AllSound
<1>1. PositionsTracked <=> /\ Counters
                           /\ \A m \in MandateIds, k \in Keys : Live(m, k) => slots[m][k].open
  BY DEF PositionsTracked, Counters
<1>2. AllSound <=> /\ NothingLeft /\ StopsHeld
                   /\ \A m \in MandateIds, k \in Keys : Live(m, k) => slots[m][k].open
  <2>1. AllSound => NothingLeft
    BY DEF AllSound, Sound, NothingLeft
  <2>2. AllSound => StopsHeld
    BY DEF AllSound, Sound, StopsHeld
  <2>3. AllSound => \A m \in MandateIds, k \in Keys : Live(m, k) => slots[m][k].open
    BY DEF AllSound, Sound
  <2>4. ASSUME NothingLeft, StopsHeld,
               \A m \in MandateIds, k \in Keys : Live(m, k) => slots[m][k].open
        PROVE  AllSound
    <3> SUFFICES ASSUME NEW m \in MandateIds, NEW k \in Keys PROVE Sound(m, k)
      BY DEF AllSound
    <3> QED
      BY <2>4 DEF Sound, NothingLeft, StopsHeld
  <2> QED
    BY <2>1, <2>2, <2>3, <2>4
<1> QED
  BY <1>1, <1>2 DEF IInv

LEMMA Reassembled ==
  ASSUME MoneyTyped', ResultsTracked', CountersTyped', Counters', VenueTyped', AllSound',
         opens' \in Int
  PROVE  IInv'
<1>1. Typed'
  BY DEF MoneyTyped, CountersTyped, VenueTyped, Typed
<1> QED
  BY <1>1 DEF IInv, NothingLeft, StopsHeld, PositionsTracked, Counters, AllSound, Sound

(* Address k of mandate m may change; every other one is as it was, and    *)
(* keeps the stops it had.                                                 *)
Elsewhere(m, k) ==
    \A n \in MandateIds, i \in Keys :
        ~(n = m /\ i = k) =>
            /\ pos'[n][i] = pos[n][i]
            /\ slots'[n][i] = slots[n][i]
            /\ \A o \in stops[n] : o.key = i => o \in stops'[n]

LEMMA SoundElsewhere ==
  ASSUME AllSound, NEW m \in MandateIds, NEW k \in Keys, Elsewhere(m, k), Sound(m, k)'
  PROVE  AllSound'
<1> SUFFICES ASSUME NEW n \in MandateIds, NEW i \in Keys PROVE Sound(n, i)'
  BY DEF AllSound
<1>1. CASE n = m /\ i = k
  BY <1>1
<1>2. CASE ~(n = m /\ i = k)
  <2>1. /\ pos'[n][i] = pos[n][i] /\ slots'[n][i] = slots[n][i]
        /\ \A o \in stops[n] : o.key = i => o \in stops'[n]
    BY <1>2 DEF Elsewhere
  <2>2. Sound(n, i)
    BY DEF AllSound
  <2> QED
    BY <2>1, <2>2 DEF Sound, Live
<1> QED
  BY <1>1, <1>2

LEMMA SoundStays ==
  ASSUME AllSound, UNCHANGED <<pos, slots, stops>> PROVE AllSound'
BY DEF AllSound, Sound, Live

-----------------------------------------------------------------------------
(* The instructions *)

LEMMA InitInv == Init => IInv
<1> SUFFICES ASSUME Init PROVE IInv
  OBVIOUS
<1>1. Typed
  BY DEF Init, Typed, Holding, Slot, NoPosition, Unbooked
<1>2. \A m \in MandateIds, k \in Keys : pos[m][k] = NoPosition /\ slots[m][k] = Unbooked
  BY DEF Init
<1>3. AllSound
  BY <1>2 DEF AllSound, Sound, Live, NoPosition, Unbooked
<1>4. Addresses \in Nat
  BY MandateAssumption
<1>5. ResultsTracked
  <2> SUFFICES ASSUME NEW m \in MandateIds PROVE truth[m] = realized[m] + Unreconciled(m)
    BY DEF ResultsTracked
  <2> DEFINE f == [i \in Keys |-> Cost(pos[m][i])]
  <2>1. f \in [1..Addresses -> Int] /\ \A i \in 1..Addresses : f[i] = 0
    BY <1>2 DEF Cost, NoPosition, Keys
  <2> HIDE DEF f
  <2>2. SumTo(f, Addresses) = 0
    BY <1>4, <2>1, SumZero
  <2>3. LiveCost(m) = 0
    BY <2>2 DEF LiveCost, f
  <2> QED
    BY <2>3 DEF Init, Unreconciled
<1>6. Counters
  <2> SUFFICES ASSUME NEW m \in MandateIds
               PROVE  /\ openPositions[m] = Cardinality(Booked(m))
                      /\ openNotional[m] = SumTo([k \in Keys |-> slots[m][k].notional], Addresses)
    BY DEF Counters
  <2> DEFINE f == [k \in Keys |-> slots[m][k].notional]
  <2>1. f \in [1..Addresses -> Int] /\ \A i \in 1..Addresses : f[i] = 0
    BY <1>2 DEF Unbooked, Keys
  <2> HIDE DEF f
  <2>2. SumTo(f, Addresses) = 0
    BY <1>4, <2>1, SumZero
  <2>3. Booked(m) = {}
    BY <1>2 DEF Booked, Unbooked
  <2>4. Cardinality(Booked(m)) = 0
    BY <2>3, FS_EmptySet
  <2> QED
    BY <2>2, <2>4 DEF Init, f
<1> QED
  BY <1>1, <1>3, <1>5, <1>6, Parts

(* Nothing that the invariant speaks of changes. *)
LEMMA UntouchedKeeps ==
  ASSUME IInv, UNCHANGED <<book, venue, last, booked, realized, opens, truth>>
  PROVE  IInv'
<1>1. UNCHANGED <<free, pos, stops, slots, openPositions, openNotional>>
  BY DEF book, venue
<1>2. \A n \in MandateIds : LiveCost(n)' = LiveCost(n)
  BY <1>1, CostStays
<1>3. Typed' /\ ResultsTracked'
  BY <1>1, <1>2 DEF IInv, Typed, ResultsTracked, Unreconciled
<1>4. Counters' /\ AllSound'
  BY <1>1, Parts, CountersStay, SoundStays DEF book
<1> QED
  BY <1>1, <1>3, <1>4, Reassembled DEF Typed, MoneyTyped, CountersTyped, VenueTyped

(* Only the venue's stops change: cancelled where nothing is open, or      *)
(* replaced by another of the same position.                               *)
LEMMA StopsKeep ==
  ASSUME IInv, NEW m \in MandateIds, NEW orders \in SUBSET Order, StopsBecome(m, orders),
         \A k \in Keys : Live(m, k) => \E o \in orders : o.key = k /\ o.birth = pos[m][k].birth
  PROVE  IInv'
<1>1. /\ UNCHANGED <<free, pos, slots, openPositions, openNotional, last, booked, realized, truth,
                     opens>>
      /\ stops' = [stops EXCEPT ![m] = orders]
  BY DEF StopsBecome, book
<1>2. \A n \in MandateIds : LiveCost(n)' = LiveCost(n)
  BY <1>1, CostStays
<1>3. Typed' /\ ResultsTracked'
  BY <1>1, <1>2 DEF IInv, Typed, ResultsTracked, Unreconciled
<1>4. Counters'
  BY <1>1, Parts, CountersStay DEF book
<1>5. AllSound'
  <2> SUFFICES ASSUME NEW n \in MandateIds, NEW i \in Keys PROVE Sound(n, i)'
    BY DEF AllSound
  <2>1. Sound(n, i)
    BY Parts DEF AllSound
  <2>2. stops'[n] = IF n = m THEN orders ELSE stops[n]
    BY <1>1 DEF IInv, Typed
  <2>3. pos'[n][i] = pos[n][i] /\ slots'[n][i] = slots[n][i]
    BY <1>1
  <2> QED
    BY <2>1, <2>2, <2>3 DEF Sound, Live
<1> QED
  BY <1>1, <1>3, <1>4, <1>5, Reassembled DEF Typed, MoneyTyped, CountersTyped, VenueTyped
(* Collateral moves, no position does. *)
LEMMA MoneyKeeps ==
  ASSUME IInv, NEW m \in MandateIds, NEW f, NEW l, NEW b, NEW r, NEW t, NEW c,
         MoneyMoves(m, f, l, b, r, t, c), UNCHANGED <<book, pos, stops, opens>>
  PROVE  IInv'
<1>1. Typed /\ ResultsTracked /\ Counters /\ AllSound
  BY Parts
<1>2. UNCHANGED <<pos, slots, stops, opens, openPositions, openNotional>>
  BY DEF book
<1>3. MoneyTyped' /\ ResultsTracked'
  BY <1>1, MoneyTracked
<1>4. CountersTyped' /\ Counters'
  BY <1>1, CountersStay
<1>5. AllSound'
  BY <1>1, <1>2, SoundStays
<1>6. VenueTyped' /\ opens' \in Int
  BY <1>1, <1>2 DEF Typed, VenueTyped
<1> QED
  BY <1>3, <1>4, <1>5, <1>6, Reassembled

LEMMA FundSolfxKeeps ==
  ASSUME IInv, NEW m \in MandateIds, NEW a \in DepositAmounts, FundSolfxCollateral(m, a)
  PROVE  IInv'
<1>1. Typed /\ a \in Int
  BY MandateAssumption DEF IInv
<1>2. booked = [booked EXCEPT ![m] = @ + 0] /\ realized = [realized EXCEPT ![m] = @ + 0]
      /\ truth = [truth EXCEPT ![m] = @ + 0]
  BY <1>1, AddNothing DEF Typed
<1>3. UNCHANGED <<book, pos, stops, opens, booked, realized, truth>>
      /\ free' = [free EXCEPT ![m] = @ + a] /\ last' = [last EXCEPT ![m] = @ + a]
  BY DEF FundSolfxCollateral
<1>4. \A n \in MandateIds : LiveCost(n)' = LiveCost(n) /\ LiveCost(n) \in Int
  BY <1>1, <1>3, CostStays, CostInt
<1>5. MoneyMoves(m, a, a, 0, 0, 0, 0)
  BY <1>1, <1>2, <1>3, <1>4 DEF MoneyMoves
<1> QED
  BY <1>3, <1>5, MoneyKeeps

LEMMA ClaimKeeps ==
  ASSUME IInv, NEW m \in MandateIds, ClaimSettlement(m) PROVE IInv'
<1>1. Typed /\ free[m] \in Int
  BY DEF IInv, Typed
<1>2. booked = [booked EXCEPT ![m] = @ + 0] /\ realized = [realized EXCEPT ![m] = @ + 0]
      /\ truth = [truth EXCEPT ![m] = @ + 0]
  BY <1>1, AddNothing DEF Typed
<1>3. /\ UNCHANGED <<book, pos, stops, opens, booked, realized, truth>>
      /\ free' = [free EXCEPT ![m] = 0] /\ last' = [last EXCEPT ![m] = @ - free[m]]
  BY DEF ClaimSettlement, SettledWith
<1> DEFINE out == -free[m]
<1>4. out \in Int /\ free[m] + out = 0
  BY <1>1
<1>5. last' = [last EXCEPT ![m] = @ + out]
  BY <1>1, <1>3
<1> HIDE DEF out
<1>6. free' = [free EXCEPT ![m] = @ + out]
  BY <1>1, <1>3, <1>4
<1>7. \A n \in MandateIds : LiveCost(n)' = LiveCost(n) /\ LiveCost(n) \in Int
  BY <1>1, <1>3, CostStays, CostInt
<1>8. UNCHANGED <<booked, realized, truth>>
  BY <1>3
<1>9. LiveCost(m)' = LiveCost(m) + 0
  BY <1>7
<1>10. MoneyMoves(m, out, out, 0, 0, 0, 0)
  BY <1>2, <1>4, <1>5, <1>6, <1>7, <1>8, <1>9 DEF MoneyMoves
<1> QED
  BY <1>3, <1>10, MoneyKeeps

(* The book keeps its figures, or replaces the slot of address k. *)
BookMoves(m, k) == UNCHANGED book \/ \E s \in Slot : SlotMoves(m, k, s)

(* Only stops of address k of mandate m are lost. *)
StopsKept(m, k) ==
    \A n \in MandateIds, i \in Keys :
        ~(n = m /\ i = k) => \A o \in stops[n] : o.key = i => o \in stops'[n]

(* A position is replaced by p: what every such instruction has to show.   *)
LEMMA PositionKeeps ==
  ASSUME IInv, NEW m \in MandateIds, NEW k \in Keys, NEW p \in Holding,
         NEW f \in Int, NEW l \in Int, NEW b \in Int, NEW r \in Int, NEW t \in Int,
         pos' = [pos EXCEPT ![m] = [@ EXCEPT ![k] = p]],
         free' = [free EXCEPT ![m] = @ + f], last' = [last EXCEPT ![m] = @ + l],
         booked' = [booked EXCEPT ![m] = @ + b], realized' = [realized EXCEPT ![m] = @ + r],
         truth' = [truth EXCEPT ![m] = @ + t],
         t = r + (f - l) - (b - (Cost(p) - Cost(pos[m][k]))),
         BookMoves(m, k),
         stops' \in [MandateIds -> SUBSET Order], opens' \in Int,
         StopsKept(m, k), Sound(m, k)'
  PROVE  IInv'
<1>1. Typed /\ ResultsTracked /\ Counters /\ AllSound
  BY Parts
<1>2. /\ pos' \in [MandateIds -> [Keys -> Holding]]
      /\ LiveCost(m) \in Int
      /\ LiveCost(m)' = LiveCost(m) + (Cost(p) - Cost(pos[m][k]))
      /\ \A n \in MandateIds : n # m => LiveCost(n)' = LiveCost(n)
  BY <1>1, CostMoves
<1>3. Cost(p) - Cost(pos[m][k]) \in Int
  <2>1. pos[m][k] \in Holding
    BY <1>1 DEF Typed
  <2> QED
    BY <2>1 DEF Cost, Holding
<1>4. MoneyMoves(m, f, l, b, r, t, Cost(p) - Cost(pos[m][k]))
  BY <1>2, <1>3 DEF MoneyMoves
<1>5. MoneyTyped' /\ ResultsTracked'
  BY <1>1, <1>4, MoneyTracked
<1>6. CountersTyped' /\ Counters'
  BY <1>1, CountersStay, CountersMove DEF BookMoves
<1>7. \A n \in MandateIds, i \in Keys : ~(n = m /\ i = k) => pos'[n][i] = pos[n][i]
  BY <1>1 DEF Typed
<1>8. \A n \in MandateIds, i \in Keys : ~(n = m /\ i = k) => slots'[n][i] = slots[n][i]
  <2>1. CASE UNCHANGED book
    BY <2>1 DEF book
  <2>2. CASE \E s \in Slot : SlotMoves(m, k, s)
    BY <1>1, <2>2 DEF SlotMoves, Typed
  <2> QED
    BY <2>1, <2>2 DEF BookMoves
<1>9. Elsewhere(m, k)
  BY <1>7, <1>8 DEF Elsewhere, StopsKept
<1>10. AllSound'
  BY <1>1, <1>9, SoundElsewhere
<1>11. VenueTyped'
  BY <1>2 DEF VenueTyped
<1> QED
  BY <1>5, <1>6, <1>10, <1>11, Reassembled
(* FundedClose, WindDown: closed through noxfunds. *)
LEMMA ClosedKeeps ==
  ASSUME IInv, NEW m \in MandateIds, NEW k \in Keys, NEW credit \in Credits, Closed(m, k, credit)
  PROVE  IInv'
<1> DEFINE old == Cost(pos[m][k])
           out == -old
           net == credit - old
<1>1. /\ Typed /\ credit \in Int /\ pos[m][k] \in Holding /\ slots[m][k] \in Slot
      /\ NoPosition \in Holding /\ Unbooked \in Slot
  BY MandateAssumption DEF IInv, Typed, NoPosition, Unbooked, Holding, Slot
<1>2. old \in Int /\ out \in Int /\ net \in Int /\ Cost(NoPosition) = 0
  BY <1>1 DEF Cost, Holding, NoPosition
<1>3. /\ slots[m][k].open
      /\ pos' = [pos EXCEPT ![m] = [@ EXCEPT ![k] = NoPosition]]
      /\ free' = [free EXCEPT ![m] = @ + credit]
      /\ last' = [last EXCEPT ![m] = @ + credit]
      /\ slots' = [slots EXCEPT ![m] = [@ EXCEPT ![k] = Unbooked]]
      /\ openPositions' = [openPositions EXCEPT ![m] = @ - 1]
      /\ openNotional' = [openNotional EXCEPT ![m] = @ - slots[m][k].notional]
      /\ stops' = stops /\ opens' = opens
  BY DEF Closed, ClosedAs, Unbook
<1>4. /\ booked' = [booked EXCEPT ![m] = @ - old]
      /\ realized' = [realized EXCEPT ![m] = @ + net]
      /\ truth' = [truth EXCEPT ![m] = @ + credit - old]
  BY DEF Closed, ClosedAs
<1>5. SlotMoves(m, k, Unbooked)
  <2>1. One(Unbooked.open) - One(slots[m][k].open) = -1 /\ Unbooked.notional = 0
    BY <1>3 DEF One, Unbooked
  <2>2. slots[m][k].notional \in Int /\ openPositions[m] \in Int /\ openNotional[m] \in Int
    BY <1>1 DEF Slot, Typed
  <2>3. /\ openPositions[m] - 1 = openPositions[m] + (One(Unbooked.open) - One(slots[m][k].open))
        /\ openNotional[m] - slots[m][k].notional
             = openNotional[m] + (Unbooked.notional - slots[m][k].notional)
    BY <2>1, <2>2
  <2> QED
    BY <1>3, <2>3 DEF SlotMoves
<1>6. Sound(m, k)'
  <2>1. pos'[m][k] = NoPosition /\ slots'[m][k] = Unbooked
    BY <1>1, <1>3 DEF Typed
  <2> QED
    BY <2>1 DEF Sound, Live, NoPosition, Unbooked
<1>7. /\ booked[m] - old = booked[m] + out
      /\ truth[m] + credit - old = truth[m] + net
  BY <1>1, <1>2 DEF Typed
<1>8. booked' = [booked EXCEPT ![m] = @ + out] /\ truth' = [truth EXCEPT ![m] = @ + net]
  BY <1>4, <1>7
<1>9. net = net + (credit - credit) - (out - (Cost(NoPosition) - old))
  BY <1>1, <1>2
<1>10. stops' \in [MandateIds -> SUBSET Order] /\ opens' \in Int /\ StopsKept(m, k)
  BY <1>1, <1>3 DEF Typed, StopsKept
<1>11. BookMoves(m, k)
  BY <1>1, <1>5 DEF BookMoves
<1> HIDE DEF out, net
<1> QED
  BY <1>11, <1>1, <1>2, <1>3, <1>4, <1>5, <1>6, <1>8, <1>9, <1>10, PositionKeeps

(* StopFires, TakenOutside: closed by SolFX. *)
LEMMA ClosedOutsideKeeps ==
  ASSUME IInv, NEW m \in MandateIds, NEW k \in Keys, NEW credit \in Credits,
         NEW orders \in SUBSET Order, ClosedOutside(m, k, credit, orders),
         \A o \in stops[m] : o.key # k => o \in orders
  PROVE  IInv'
<1> DEFINE old == Cost(pos[m][k])
           net == credit - old
           zero == 0
<1>1. /\ Typed /\ credit \in Int /\ pos[m][k] \in Holding /\ NoPosition \in Holding
  BY MandateAssumption DEF IInv, Typed, NoPosition, Holding
<1>2. old \in Int /\ net \in Int /\ Cost(NoPosition) = 0
  BY <1>1 DEF Cost, Holding, NoPosition
<1>3. /\ pos' = [pos EXCEPT ![m] = [@ EXCEPT ![k] = NoPosition]]
      /\ free' = [free EXCEPT ![m] = @ + credit]
      /\ stops' = [stops EXCEPT ![m] = orders]
      /\ truth' = [truth EXCEPT ![m] = @ + credit - old]
      /\ UNCHANGED <<last, booked, realized, opens>> /\ UNCHANGED book
  BY DEF ClosedOutside
<1>4. /\ last' = [last EXCEPT ![m] = @ + zero] /\ booked' = [booked EXCEPT ![m] = @ + zero]
      /\ realized' = [realized EXCEPT ![m] = @ + zero]
  BY <1>1, <1>3, AddNothing DEF Typed
<1>5. truth[m] + credit - old = truth[m] + net
  BY <1>1, <1>2 DEF Typed
<1>6. truth' = [truth EXCEPT ![m] = @ + net]
  BY <1>3, <1>5
<1>7. Sound(m, k)'
  <2>1. pos'[m][k] = NoPosition /\ slots' = slots
    BY <1>1, <1>3 DEF Typed, book
  <2>2. Sound(m, k)
    BY Parts DEF AllSound
  <2> QED
    BY <2>1, <2>2 DEF Sound, Live, NoPosition
<1>8. zero \in Int /\ net = zero + (credit - zero) - (zero - (Cost(NoPosition) - old))
  BY <1>1, <1>2
<1>9. /\ stops' \in [MandateIds -> SUBSET Order] /\ opens' \in Int /\ StopsKept(m, k)
  BY <1>1, <1>3 DEF Typed, StopsKept
<1>10. BookMoves(m, k)
  BY <1>3 DEF BookMoves
<1>11. /\ pos' = [pos EXCEPT ![m] = [@ EXCEPT ![k] = NoPosition]]
       /\ free' = [free EXCEPT ![m] = @ + credit]
  BY <1>3
<1>12. NoPosition \in Holding /\ credit \in Int /\ net \in Int
  BY <1>1, <1>2
<1> HIDE DEF net, zero
<1> QED
  BY <1>4, <1>6, <1>7, <1>8, <1>9, <1>10, <1>11, <1>12, PositionKeeps

(* FundedOpen *)
LEMMA OpenKeeps ==
  ASSUME IInv, NEW m \in MandateIds, NEW k \in Keys, NEW id \in OrderIds, FundedOpen(m, k, id)
  PROVE  IInv'
<1> DEFINE new  == [size |-> OpenSize, margin |-> OpenMargin, fee |-> OpenFee,
                    birth |-> opens + 1]
           stop == [key |-> k, id |-> id, birth |-> opens + 1]
           slot == [open |-> TRUE, notional |-> OpenNotional]
           cost == OpenMargin + OpenFee
           out  == -cost
           zero == 0
<1>1. /\ Typed /\ new \in Holding /\ slot \in Slot /\ stop \in Order
      /\ cost \in Int /\ out \in Int /\ Cost(new) = cost
  BY MandateAssumption DEF IInv, Typed, Holding, Slot, Order, Cost
<1>2. /\ ~Live(m, k) /\ ~slots[m][k].open
      /\ pos' = [pos EXCEPT ![m] = [@ EXCEPT ![k] = new]]
      /\ free' = [free EXCEPT ![m] = @ - cost]
      /\ stops' = [stops EXCEPT ![m] = @ \cup {stop}]
      /\ slots' = [slots EXCEPT ![m] = [@ EXCEPT ![k] = slot]]
      /\ openPositions' = [openPositions EXCEPT ![m] = @ + 1]
      /\ openNotional' = [openNotional EXCEPT ![m] = @ + OpenNotional]
      /\ opens' = opens + 1
  BY DEF FundedOpen, OpenWithStop
<1>3. /\ booked' = [booked EXCEPT ![m] = @ + OpenMargin + OpenFee]
      /\ last' = [last EXCEPT ![m] = @ - cost]
      /\ UNCHANGED <<realized, truth>>
  BY DEF FundedOpen, OpenWithStop
<1>4. pos[m][k] = NoPosition /\ slots[m][k].notional = 0 /\ Cost(pos[m][k]) = 0
  BY <1>2 DEF IInv, NothingLeft, Cost, NoPosition
<1>5. SlotMoves(m, k, slot)
  <2>1. One(slot.open) - One(slots[m][k].open) = 1 /\ slot.notional - slots[m][k].notional = OpenNotional
    BY <1>2, <1>4, MandateAssumption DEF One
  <2> QED
    BY <1>2, <2>1 DEF SlotMoves
<1>6. Sound(m, k)'
  <2>1. pos'[m][k] = new /\ slots'[m][k] = slot /\ stop \in stops'[m]
    BY <1>1, <1>2 DEF Typed
  <2>2. Live(m, k)'
    BY <2>1, MandateAssumption DEF Live
  <2> QED
    BY <2>1, <2>2 DEF Sound
<1>7. /\ free[m] - cost = free[m] + out /\ last[m] - cost = last[m] + out
      /\ booked[m] + OpenMargin + OpenFee = booked[m] + cost
  BY <1>1, MandateAssumption DEF Typed
<1>8. /\ free' = [free EXCEPT ![m] = @ + out] /\ last' = [last EXCEPT ![m] = @ + out]
      /\ booked' = [booked EXCEPT ![m] = @ + cost]
  BY <1>2, <1>3, <1>7
<1>9. /\ realized' = [realized EXCEPT ![m] = @ + zero] /\ truth' = [truth EXCEPT ![m] = @ + zero]
  BY <1>1, <1>3, AddNothing DEF Typed
<1>10. zero \in Int /\ zero = zero + (out - out) - (cost - (Cost(new) - Cost(pos[m][k])))
  BY <1>1, <1>4
<1>11. /\ stops' \in [MandateIds -> SUBSET Order] /\ opens' \in Int /\ StopsKept(m, k)
  BY <1>1, <1>2 DEF Typed, StopsKept
<1>12. BookMoves(m, k)
  BY <1>1, <1>5 DEF BookMoves
<1> HIDE DEF new, stop, slot, cost, out, zero
<1> QED
  BY <1>12, <1>1, <1>2, <1>5, <1>6, <1>8, <1>9, <1>10, <1>11, PositionKeeps
(* A position with d of its size and x of its margin taken out *)
Resized(p, d, x) ==
    [size |-> p.size - d, margin |-> p.margin - x, fee |-> p.fee, birth |-> p.birth]

(* The same three functions as the code's actions write them and as the    *)
(* lemmas above take them                                                  *)
Shrunk(m, k, d, x) == [pos EXCEPT ![m][k].size = @ - d, ![m][k].margin = @ - x]
Remargined(m, k, a) == [pos EXCEPT ![m][k].margin = @ + a]
Replaced(m, k, p) == [pos EXCEPT ![m] = [@ EXCEPT ![k] = p]]
Released(m, k, r) == [slots EXCEPT ![m][k].notional = @ - r]
SlotReplaced(m, k, s) == [slots EXCEPT ![m] = [@ EXCEPT ![k] = s]]

LEMMA PositionResized ==
  ASSUME Typed, NEW m \in MandateIds, NEW k \in Keys, NEW d \in Int, NEW x \in Int
  PROVE  Shrunk(m, k, d, x) = Replaced(m, k, Resized(pos[m][k], d, x))
<1> DEFINE p    == pos[m][k]
           half == [size |-> p.size - d, margin |-> p.margin, fee |-> p.fee, birth |-> p.birth]
           q    == [pos EXCEPT ![m] = [@ EXCEPT ![k] = half]]
<1>1. pos \in [MandateIds -> [Keys -> Holding]] /\ p \in Holding
  BY DEF Typed
<1>2. [p EXCEPT !.size = @ - d] = half
  BY <1>1 DEF Holding
<1>3. [half EXCEPT !.margin = @ - x] = Resized(p, d, x)
  BY DEF Resized
<1>4. [pos EXCEPT ![m][k].size = @ - d] = q
  BY <1>1, <1>2
<1>5. DOMAIN q = MandateIds /\ DOMAIN q[m] = Keys /\ q[m][k] = half
  BY <1>1
<1>6. q[m] = [pos[m] EXCEPT ![k] = half]
  BY <1>1
<1> HIDE DEF half
<1>7. [q EXCEPT ![m][k].margin = @ - x] = [q EXCEPT ![m] = [@ EXCEPT ![k] = Resized(p, d, x)]]
  <2> HIDE DEF q
  <2> QED
    BY <1>3, <1>5
<1>8. [q EXCEPT ![m] = [@ EXCEPT ![k] = Resized(p, d, x)]]
        = [pos EXCEPT ![m] = [@ EXCEPT ![k] = Resized(p, d, x)]]
  <2>1. [q[m] EXCEPT ![k] = Resized(p, d, x)] = [pos[m] EXCEPT ![k] = Resized(p, d, x)]
    <3> HIDE DEF q
    <3> QED
      BY <1>1, <1>6
  <2> QED
    BY <1>1, <2>1
<1>9. [pos EXCEPT ![m][k].size = @ - d, ![m][k].margin = @ - x]
        = [[pos EXCEPT ![m][k].size = @ - d] EXCEPT ![m][k].margin = @ - x]
  OBVIOUS
<1> QED
  BY <1>4, <1>7, <1>8, <1>9 DEF Shrunk, Replaced

LEMMA PositionRemargined ==
  ASSUME Typed, NEW m \in MandateIds, NEW k \in Keys, NEW a \in Int
  PROVE  Remargined(m, k, a) = Replaced(m, k, Resized(pos[m][k], 0, -a))
<1> DEFINE p == pos[m][k]
<1>1. pos \in [MandateIds -> [Keys -> Holding]] /\ p \in Holding
  BY DEF Typed
<1>2. p.size - 0 = p.size /\ p.margin - (-a) = p.margin + a
  BY <1>1 DEF Holding
<1>3. [p EXCEPT !.margin = @ + a] = Resized(p, 0, -a)
  BY <1>1, <1>2 DEF Holding, Resized
<1> QED
  BY <1>1, <1>3 DEF Remargined, Replaced

LEMMA SlotReleased ==
  ASSUME Typed, NEW m \in MandateIds, NEW k \in Keys, NEW r \in Int
  PROVE  Released(m, k, r) = SlotReplaced(m, k, [open     |-> slots[m][k].open,
                                                 notional |-> slots[m][k].notional - r])
<1> DEFINE s == slots[m][k]
<1>1. slots \in [MandateIds -> [Keys -> Slot]] /\ s \in Slot
  BY DEF Typed
<1>2. [s EXCEPT !.notional = @ - r] = [open |-> s.open, notional |-> s.notional - r]
  BY <1>1 DEF Slot
<1> QED
  BY <1>1, <1>2 DEF Released, SlotReplaced

(* The share of a partial close: an integer, whatever the position. *)
LEMMA ShareInt ==
  ASSUME NEW a \in Int, NEW delta \in Int, NEW size \in Nat \ {0}
  PROVE  (a * delta) \div size \in Int
<1> DEFINE n == a * delta
<1>1. n \in Int
  OBVIOUS
<1> HIDE DEF n
<1>2. n \div size \in Int
  BY <1>1
<1> QED
  BY <1>2 DEF n
(* A live position that stays live is as sound as it was. *)
LEMMA ResizedSound ==
  ASSUME IInv, NEW m \in MandateIds, NEW k \in Keys, NEW d \in Int, NEW x \in Int,
         Live(m, k), pos[m][k].size - d > 0,
         pos' = [pos EXCEPT ![m] = [@ EXCEPT ![k] = Resized(pos[m][k], d, x)]],
         slots'[m][k].open = slots[m][k].open, stops' = stops
  PROVE  /\ Resized(pos[m][k], d, x) \in Holding
         /\ Cost(Resized(pos[m][k], d, x)) - Cost(pos[m][k]) = -x
         /\ Sound(m, k)'
         /\ stops' \in [MandateIds -> SUBSET Order] /\ StopsKept(m, k)
<1>1. Typed /\ Sound(m, k) /\ pos[m][k] \in Holding
  BY Parts DEF AllSound, Typed
<1>2. /\ Resized(pos[m][k], d, x) \in Holding
      /\ Cost(Resized(pos[m][k], d, x)) - Cost(pos[m][k]) = -x
  BY <1>1 DEF Resized, Holding, Cost
<1>3. pos'[m][k] = Resized(pos[m][k], d, x)
  BY <1>1 DEF Typed
<1>4. pos'[m][k].size > 0 /\ pos'[m][k].birth = pos[m][k].birth
  BY <1>3 DEF Resized
<1>5. /\ slots[m][k].open
      /\ \E o \in stops[m] : o.key = k /\ o.birth = pos[m][k].birth
  BY <1>1 DEF Sound
<1>6. Sound(m, k)'
  BY <1>4, <1>5 DEF Sound, Live
<1> QED
  BY <1>1, <1>2, <1>6 DEF Typed, StopsKept

(* FundedReduce *)
LEMMA ReduceKeeps ==
  ASSUME IInv, NEW m \in MandateIds, NEW k \in Keys, NEW delta \in 1..OpenSize,
         NEW credit \in Credits, FundedReduce(m, k, delta, credit)
  PROVE  IInv'
<1> DEFINE p        == pos[m][k]
           x        == MarginOut(p, delta)
           released == (slots[m][k].notional * delta) \div p.size
           slot     == [open |-> slots[m][k].open, notional |-> slots[m][k].notional - released]
           net      == credit - x
           out      == -x
<1>1. /\ Typed /\ credit \in Int /\ delta \in Int /\ p \in Holding /\ slots[m][k] \in Slot
  BY MandateAssumption DEF IInv, Typed
<1>2. /\ 0 < delta /\ delta < p.size /\ slots[m][k].open
      /\ free' = [free EXCEPT ![m] = @ + credit]
      /\ pos' = [pos EXCEPT ![m][k].size = @ - delta, ![m][k].margin = @ - x]
      /\ slots' = [slots EXCEPT ![m][k].notional = @ - released]
      /\ openNotional' = [openNotional EXCEPT ![m] = @ - released]
      /\ booked' = [booked EXCEPT ![m] = @ - x]
      /\ last' = [last EXCEPT ![m] = @ + credit]
      /\ UNCHANGED <<openPositions, stops, opens>>
  BY DEF FundedReduce
<1>3. /\ realized' = [realized EXCEPT ![m] = @ + credit - x]
      /\ truth' = [truth EXCEPT ![m] = @ + credit - x]
  BY DEF FundedReduce
<1>4. p.size \in Nat \ {0} /\ p.margin \in Int /\ slots[m][k].notional \in Int
  BY <1>1, <1>2 DEF Holding, Slot
<1>5. x \in Int /\ released \in Int
  BY <1>1, <1>4, ShareInt DEF MarginOut
<1> HIDE DEF x, released
<1>6. pos' = [pos EXCEPT ![m] = [@ EXCEPT ![k] = Resized(p, delta, x)]]
  <2>1. pos' = Shrunk(m, k, delta, x)
    BY <1>2 DEF Shrunk
  <2>2. pos' = Replaced(m, k, Resized(p, delta, x))
    BY <1>1, <1>5, <2>1, PositionResized
  <2> QED
    BY <2>2 DEF Replaced
<1>7. slots' = [slots EXCEPT ![m] = [@ EXCEPT ![k] = slot]] /\ slot \in Slot
  <2>1. slots' = Released(m, k, released)
    BY <1>2 DEF Released
  <2>2. slots' = SlotReplaced(m, k, slot)
    BY <1>1, <1>5, <2>1, SlotReleased
  <2>3. slot \in Slot
    BY <1>1, <1>4, <1>5 DEF Slot
  <2> QED
    BY <2>2, <2>3 DEF SlotReplaced
<1>8. slots'[m][k].open = slots[m][k].open
  BY <1>1, <1>7 DEF Typed
<1>9. Live(m, k) /\ pos[m][k].size - delta > 0
  BY <1>1, <1>2, <1>4 DEF Live
<1>10. /\ Resized(p, delta, x) \in Holding /\ Cost(Resized(p, delta, x)) - Cost(p) = out
       /\ Sound(m, k)' /\ stops' \in [MandateIds -> SUBSET Order] /\ StopsKept(m, k)
  <2>1. delta \in Int /\ stops' = stops
    BY <1>1, <1>2
  <2> HIDE DEF slot, net
  <2> QED
    BY <1>5, <1>6, <1>8, <1>9, <2>1, ResizedSound
<1>11. SlotMoves(m, k, slot)
  <2>1. One(slot.open) - One(slots[m][k].open) = 0
    BY <1>2 DEF One
  <2>2. openPositions = [openPositions EXCEPT ![m] = @ + 0]
    BY <1>1, AddNothing DEF Typed
  <2>3. openNotional[m] - released = openNotional[m] + (slot.notional - slots[m][k].notional)
    BY <1>1, <1>4, <1>5 DEF Typed
  <2>4. openPositions' = [openPositions EXCEPT
                            ![m] = @ + (One(slot.open) - One(slots[m][k].open))]
    BY <1>2, <2>1, <2>2
  <2>5. openNotional' = [openNotional EXCEPT ![m] = @ + (slot.notional - slots[m][k].notional)]
    BY <1>2, <2>3
  <2> HIDE DEF slot
  <2> QED
    BY <1>7, <2>4, <2>5 DEF SlotMoves
<1>12. BookMoves(m, k)
  BY <1>7, <1>11 DEF BookMoves
<1>13. /\ booked[m] - x = booked[m] + out
       /\ realized[m] + credit - x = realized[m] + net /\ truth[m] + credit - x = truth[m] + net
       /\ net \in Int /\ out \in Int
  BY <1>1, <1>5 DEF Typed
<1>14. /\ booked' = [booked EXCEPT ![m] = @ + out] /\ realized' = [realized EXCEPT ![m] = @ + net]
       /\ truth' = [truth EXCEPT ![m] = @ + net]
  BY <1>2, <1>3, <1>13
<1>15. net = net + (credit - credit) - (out - (Cost(Resized(p, delta, x)) - Cost(p)))
  BY <1>1, <1>10, <1>13
<1>16. opens' \in Int /\ free' = [free EXCEPT ![m] = @ + credit]
       /\ last' = [last EXCEPT ![m] = @ + credit]
  BY <1>1, <1>2 DEF Typed
<1> HIDE DEF out, net, slot
<1> QED
  BY <1>1, <1>6, <1>10, <1>12, <1>13, <1>14, <1>15, <1>16, PositionKeeps

(* TakeProfitFills *)
LEMMA TakeProfitKeeps ==
  ASSUME IInv, NEW m \in MandateIds, NEW k \in Keys, NEW delta \in 1..OpenSize,
         NEW credit \in Credits, TakeProfitFills(m, k, delta, credit)
  PROVE  IInv'
<1> DEFINE p    == pos[m][k]
           x    == MarginOut(p, delta)
           net  == credit - x
           zero == 0
<1>1. /\ Typed /\ credit \in Int /\ delta \in Int /\ 0 < delta /\ p \in Holding
  BY MandateAssumption DEF IInv, Typed
<1>2. /\ delta < p.size
      /\ free' = [free EXCEPT ![m] = @ + credit]
      /\ pos' = [pos EXCEPT ![m][k].size = @ - delta, ![m][k].margin = @ - x]
      /\ truth' = [truth EXCEPT ![m] = @ + credit - x]
      /\ UNCHANGED <<last, booked, realized, stops, opens>> /\ UNCHANGED book
  BY DEF TakeProfitFills
<1>3. p.size \in Nat \ {0} /\ p.margin \in Int
  BY <1>1, <1>2 DEF Holding
<1>4. x \in Int
  BY <1>1, <1>3, ShareInt DEF MarginOut
<1> HIDE DEF x
<1>5. pos' = [pos EXCEPT ![m] = [@ EXCEPT ![k] = Resized(p, delta, x)]]
  <2>1. pos' = Shrunk(m, k, delta, x)
    BY <1>2 DEF Shrunk
  <2>2. pos' = Replaced(m, k, Resized(p, delta, x))
    BY <1>1, <1>4, <2>1, PositionResized
  <2> QED
    BY <2>2 DEF Replaced
<1>6. Live(m, k) /\ pos[m][k].size - delta > 0
  BY <1>1, <1>2, <1>3 DEF Live
<1>7. slots'[m][k].open = slots[m][k].open /\ stops' = stops
  BY <1>2 DEF book
<1>8. /\ Resized(p, delta, x) \in Holding /\ Cost(Resized(p, delta, x)) - Cost(p) = -x
      /\ Sound(m, k)' /\ stops' \in [MandateIds -> SUBSET Order] /\ StopsKept(m, k)
  BY <1>1, <1>4, <1>5, <1>6, <1>7, ResizedSound
<1>9. BookMoves(m, k)
  BY <1>2 DEF BookMoves
<1>10. truth[m] + credit - x = truth[m] + net /\ net \in Int
  BY <1>1, <1>4 DEF Typed
<1>11. truth' = [truth EXCEPT ![m] = @ + net] /\ free' = [free EXCEPT ![m] = @ + credit]
  BY <1>2, <1>10
<1>12. zero \in Int /\ net = zero + (credit - zero) - (zero - (Cost(Resized(p, delta, x)) - Cost(p)))
  BY <1>1, <1>4, <1>8
<1>13. /\ last' = [last EXCEPT ![m] = @ + zero] /\ booked' = [booked EXCEPT ![m] = @ + zero]
       /\ realized' = [realized EXCEPT ![m] = @ + zero]
  BY <1>1, <1>2, AddNothing DEF Typed
<1>14. opens' \in Int
  BY <1>1, <1>2 DEF Typed
<1> HIDE DEF net, zero
<1> QED
  BY <1>1, <1>5, <1>8, <1>9, <1>10, <1>11, <1>12, <1>13, <1>14, PositionKeeps

(* FundedAddMargin, FundedRemoveMargin *)
LEMMA AdjustKeeps ==
  ASSUME IInv, NEW m \in MandateIds, NEW k \in Keys, NEW a \in Int, AdjustMargin(m, k, a)
  PROVE  IInv'
<1> DEFINE p    == pos[m][k]
           out  == -a
           zero == 0
<1>1. /\ Typed /\ p \in Holding /\ out \in Int
  BY DEF IInv, Typed
<1>2. /\ Live(m, k)
      /\ free' = [free EXCEPT ![m] = @ - a]
      /\ pos' = [pos EXCEPT ![m][k].margin = @ + a]
      /\ booked' = [booked EXCEPT ![m] = @ + a]
      /\ last' = [last EXCEPT ![m] = @ - a]
      /\ UNCHANGED <<realized, truth, stops, opens>> /\ UNCHANGED book
  BY DEF AdjustMargin
<1>3. pos' = [pos EXCEPT ![m] = [@ EXCEPT ![k] = Resized(p, zero, out)]]
  <2>1. pos' = Remargined(m, k, a)
    BY <1>2 DEF Remargined
  <2>2. pos' = Replaced(m, k, Resized(p, zero, out))
    BY <1>1, <2>1, PositionRemargined
  <2> QED
    BY <2>2 DEF Replaced
<1>4. pos[m][k].size - zero > 0
  BY <1>1, <1>2 DEF Live, Holding
<1>5. slots'[m][k].open = slots[m][k].open /\ stops' = stops
  BY <1>2 DEF book
<1>6. zero \in Int /\ a = -out /\ free[m] - a = free[m] + out /\ last[m] - a = last[m] + out
  BY <1>1 DEF Typed
<1>7. /\ free' = [free EXCEPT ![m] = @ + out] /\ last' = [last EXCEPT ![m] = @ + out]
      /\ booked' = [booked EXCEPT ![m] = @ + a]
  BY <1>2, <1>6
<1>8. /\ realized' = [realized EXCEPT ![m] = @ + zero] /\ truth' = [truth EXCEPT ![m] = @ + zero]
  BY <1>1, <1>2, AddNothing DEF Typed
<1>9. BookMoves(m, k) /\ opens' \in Int
  BY <1>1, <1>2 DEF BookMoves, Typed
<1>10. zero = zero + (out - out) - (a - a)
  BY <1>1
<1> HIDE DEF out, zero
<1>11. /\ Resized(p, zero, out) \in Holding /\ Cost(Resized(p, zero, out)) - Cost(p) = a
       /\ Sound(m, k)' /\ stops' \in [MandateIds -> SUBSET Order] /\ StopsKept(m, k)
  <2>1. /\ Live(m, k) /\ out \in Int /\ zero \in Int
    BY <1>1, <1>2, <1>6
  <2>2. /\ Resized(p, zero, out) \in Holding /\ Cost(Resized(p, zero, out)) - Cost(p) = -out
        /\ Sound(m, k)' /\ stops' \in [MandateIds -> SUBSET Order] /\ StopsKept(m, k)
    BY <1>3, <1>4, <1>5, <2>1, ResizedSound
  <2> QED
    BY <1>6, <2>2
<1>12. zero = zero + (out - out) - (a - (Cost(Resized(p, zero, out)) - Cost(p)))
  BY <1>10, <1>11
<1> QED
  BY <1>1, <1>3, <1>6, <1>7, <1>8, <1>9, <1>11, <1>12, PositionKeeps
LEMMA CancelStopKeeps ==
  ASSUME IInv, NEW m \in MandateIds, NEW old \in stops[m], CancelStop(m, old)
  PROVE  IInv'
<1> DEFINE orders == stops[m] \ {old}
<1>1. stops[m] \in SUBSET Order
  BY DEF IInv, Typed
<1>2. orders \in SUBSET Order /\ StopsBecome(m, orders) /\ ~Live(m, old.key)
  BY <1>1 DEF CancelStop
<1>3. \A k \in Keys : Live(m, k) => \E o \in orders : o.key = k /\ o.birth = pos[m][k].birth
  BY <1>2 DEF IInv, StopsHeld
<1> HIDE DEF orders
<1> QED
  BY <1>2, <1>3, StopsKeep

LEMMA MoveStopKeeps ==
  ASSUME IInv, NEW m \in MandateIds, NEW old \in stops[m], NEW id \in OrderIds,
         FundedMoveStop(m, old, id)
  PROVE  IInv'
<1> DEFINE new    == [key |-> old.key, id |-> id, birth |-> pos[m][old.key].birth]
           orders == (stops[m] \cup {new}) \ {old}
<1>1. stops[m] \in SUBSET Order /\ old \in Order /\ old.key \in Keys
  BY DEF IInv, Typed, Order
<1>2. pos[m][old.key].birth \in Int
  BY <1>1 DEF IInv, Typed, Holding
<1>3. new \in Order
  BY <1>1, <1>2 DEF Order
<1>4. orders \in SUBSET Order
  BY <1>1, <1>3
<1>5. StopsBecome(m, orders) /\ new # old
  <2>1. ~ (old.key = new.key /\ old.id = new.id)
    BY DEF FundedMoveStop
  <2> QED
    BY <2>1 DEF FundedMoveStop
<1>6. \A k \in Keys : Live(m, k) => \E o \in orders : o.key = k /\ o.birth = pos[m][k].birth
  <2> SUFFICES ASSUME NEW k \in Keys, Live(m, k)
               PROVE  \E o \in orders : o.key = k /\ o.birth = pos[m][k].birth
    OBVIOUS
  <2>1. PICK o \in stops[m] : o.key = k /\ o.birth = pos[m][k].birth
    BY DEF IInv, StopsHeld
  <2>2. CASE o = old
    <3>1. new \in orders /\ new.key = k /\ new.birth = pos[m][k].birth
      BY <1>5, <2>1, <2>2
    <3> QED
      BY <3>1
  <2>3. CASE o # old
    <3>1. o \in orders
      BY <2>3
    <3> QED
      BY <2>1, <3>1
  <2> QED
    BY <2>2, <2>3
<1> HIDE DEF orders, new
<1> QED
  BY <1>4, <1>5, <1>6, StopsKeep

LEMMA StopFiresKeeps ==
  ASSUME IInv, NEW m \in MandateIds, NEW o \in stops[m], NEW credit \in Credits,
         StopFires(m, o, credit)
  PROVE  IInv'
<1> DEFINE orders == stops[m] \ {o}
<1>1. orders \in SUBSET Order /\ o.key \in Keys
  BY DEF IInv, Typed, Order
<1>2. ClosedOutside(m, o.key, credit, orders)
  BY DEF StopFires
<1>3. \A other \in stops[m] : other.key # o.key => other \in orders
  OBVIOUS
<1> HIDE DEF orders
<1> QED
  BY <1>1, <1>2, <1>3, ClosedOutsideKeeps

LEMMA TakenOutsideKeeps ==
  ASSUME IInv, NEW m \in MandateIds, NEW k \in Keys, NEW credit \in Credits,
         TakenOutside(m, k, credit)
  PROVE  IInv'
<1>1. stops[m] \in SUBSET Order
  BY DEF IInv, Typed
<1>2. ClosedOutside(m, k, credit, stops[m])
  BY DEF TakenOutside
<1>3. \A o \in stops[m] : o.key # k => o \in stops[m]
  OBVIOUS
<1> QED
  BY <1>1, <1>2, <1>3, ClosedOutsideKeeps

(* Reconcile: every slot whose position is gone is released at once. *)
LEMMA ReconcileKeeps ==
  ASSUME IInv, NEW m \in MandateIds, Reconcile(m)
  PROVE  IInv'
<1> DEFINE gone   == Gone(m)
           before == [k \in Keys |-> slots[m][k].notional]
           lost   == [k \in Keys |-> IF k \in gone THEN slots[m][k].notional ELSE 0]
           after  == [k \in Keys |-> slots'[m][k].notional]
           found  == Unreconciled(m)
           l      == free[m] - last[m]
           b      == LiveCost(m) - booked[m]
           zero   == 0
<1>1. Typed /\ ResultsTracked /\ Counters /\ AllSound /\ Addresses \in Nat
  BY Parts, MandateAssumption
<1>2. /\ UNCHANGED <<free, pos, stops, opens, truth>>
      /\ openPositions' = [openPositions EXCEPT ![m] = @ - Cardinality(gone)]
      /\ slots' = [slots EXCEPT ![m] = [k \in Keys |-> IF k \in gone THEN Unbooked ELSE @[k]]]
      /\ openNotional' = [openNotional EXCEPT ![m] = @ - SumTo(lost, Addresses)]
  BY DEF Reconcile, ReconciledBook, venue
<1>3. /\ booked' = [booked EXCEPT ![m] = LiveCost(m)]
      /\ last' = [last EXCEPT ![m] = free[m]]
      /\ realized' = [realized EXCEPT ![m] = @ + found]
  BY DEF Reconcile, ReconciledBook
<1>4. gone \subseteq Booked(m) /\ Booked(m) \subseteq Keys
  BY DEF Gone, Booked
<1>5. /\ slots[m] \in [Keys -> Slot] /\ Unbooked \in Slot
      /\ slots'[m] = [k \in Keys |-> IF k \in gone THEN Unbooked ELSE slots[m][k]]
      /\ \A n \in MandateIds : n # m => slots'[n] = slots[n]
  BY <1>1, <1>2 DEF Typed, Slot, Unbooked
<1>6. slots' \in [MandateIds -> [Keys -> Slot]]
  <2>1. [k \in Keys |-> IF k \in gone THEN Unbooked ELSE slots[m][k]] \in [Keys -> Slot]
    BY <1>5
  <2> QED
    BY <1>1, <1>2, <2>1 DEF Typed
<1>7. MoneyTyped' /\ ResultsTracked'
  <2>1. /\ LiveCost(m) \in Int /\ free[m] \in Int /\ last[m] \in Int /\ booked[m] \in Int
    BY <1>1, CostInt DEF Typed
  <2>2. /\ l \in Int /\ b \in Int /\ found \in Int /\ zero \in Int
        /\ last[m] + l = free[m] /\ booked[m] + b = LiveCost(m)
        /\ zero = found + (zero - l) - (b - zero)
    BY <2>1 DEF Unreconciled
  <2>3. free' = [free EXCEPT ![m] = @ + zero] /\ truth' = [truth EXCEPT ![m] = @ + zero]
    BY <1>1, <1>2, AddNothing DEF Typed
  <2>4. last' = [last EXCEPT ![m] = @ + l] /\ booked' = [booked EXCEPT ![m] = @ + b]
    BY <1>3, <2>2
  <2>5. LiveCost(m)' = LiveCost(m) + zero /\ \A n \in MandateIds : n # m => LiveCost(n)' = LiveCost(n)
    BY <1>2, <2>1, CostStays
  <2> HIDE DEF l, b, found, zero
  <2>6. MoneyMoves(m, zero, l, b, found, zero, zero)
    BY <1>3, <2>2, <2>3, <2>4, <2>5 DEF MoneyMoves
  <2> QED
    BY <1>1, <2>6, MoneyTracked
<1>8. SumTo(after, Addresses) = SumTo(before, Addresses) - SumTo(lost, Addresses)
      /\ SumTo(before, Addresses) \in Int /\ SumTo(lost, Addresses) \in Int
  <2>1. \A k \in Keys : slots[m][k].notional \in Int
    BY <1>5 DEF Slot
  <2>2. /\ before \in [1..Addresses -> Int] /\ lost \in [1..Addresses -> Int]
    BY <2>1 DEF Keys
  <2>3. after \in [1..Addresses -> Int] /\ \A k \in 1..Addresses : after[k] = before[k] - lost[k]
    BY <1>5, <2>1 DEF Keys, Unbooked
  <2> HIDE DEF before, lost, after
  <2> QED
    BY <1>1, <2>2, <2>3, SumSplit, SumInt
<1>9. Cardinality(Booked(m))' = Cardinality(Booked(m)) - Cardinality(gone)
      /\ Cardinality(Booked(m)) \in Nat /\ Cardinality(gone) \in Nat
  <2>1. Booked(m)' = Booked(m) \ gone
    BY <1>4, <1>5 DEF Booked, Unbooked
  <2>2. IsFiniteSet(Booked(m)) /\ IsFiniteSet(gone)
    BY <1>4, BookedFinite, FS_Subset
  <2>3. Cardinality(Booked(m) \ gone) = Cardinality(Booked(m)) - Cardinality(Booked(m) \cap gone)
    BY <2>2, FS_Difference
  <2>4. Booked(m) \cap gone = gone
    BY <1>4
  <2> QED
    BY <2>1, <2>2, <2>3, <2>4, FS_CardinalityType
<1>10. CountersTyped' /\ Counters'
  <2>1. CountersTyped'
    <3> HIDE DEF lost, gone
    <3> QED
      BY <1>1, <1>2, <1>6, <1>8, <1>9 DEF Typed, CountersTyped
  <2>2. openPositions'[m] = Cardinality(Booked(m))'
    BY <1>1, <1>2, <1>9 DEF Typed, Counters
  <2>3. openNotional'[m] = SumTo(after, Addresses)
    <3>1. openNotional'[m] = openNotional[m] - SumTo(lost, Addresses)
      BY <1>1, <1>2 DEF Typed
    <3>2. openNotional[m] = SumTo(before, Addresses)
      BY <1>1 DEF Counters
    <3> QED
      BY <1>8, <3>1, <3>2
  <2>4. ASSUME NEW n \in MandateIds, n # m
        PROVE  /\ openPositions'[n] = Cardinality(Booked(n))'
               /\ openNotional'[n] = SumTo([k \in Keys |-> slots'[n][k].notional], Addresses)
    <3>1. slots'[n] = slots[n] /\ openPositions'[n] = openPositions[n]
          /\ openNotional'[n] = openNotional[n]
      BY <1>1, <1>2, <1>5, <2>4 DEF Typed
    <3>2. Booked(n)' = Booked(n)
      BY <3>1 DEF Booked
    <3> QED
      BY <1>1, <3>1, <3>2 DEF Counters
  <2> QED
    BY <2>1, <2>2, <2>3, <2>4 DEF Counters
<1>11. AllSound'
  <2> SUFFICES ASSUME NEW n \in MandateIds, NEW k \in Keys PROVE Sound(n, k)'
    BY DEF AllSound
  <2>1. Sound(n, k) /\ pos' = pos /\ stops' = stops
    BY <1>1, <1>2 DEF AllSound
  <2>2. CASE n = m /\ k \in gone
    <3>1. slots'[n][k] = Unbooked /\ ~Live(n, k)
      BY <1>5, <2>2 DEF Gone
    <3> QED
      BY <2>1, <3>1 DEF Sound, Live, Unbooked
  <2>3. CASE ~(n = m /\ k \in gone)
    <3>1. slots'[n][k] = slots[n][k]
      BY <1>5, <2>3
    <3> QED
      BY <2>1, <3>1 DEF Sound, Live
  <2> QED
    BY <2>2, <2>3
<1>12. VenueTyped' /\ opens' \in Int
  BY <1>1, <1>2 DEF Typed, VenueTyped
<1> QED
  BY <1>7, <1>10, <1>11, <1>12, Reassembled
-----------------------------------------------------------------------------
LEMMA NextKeeps == IInv /\ [Next]_vars => IInv'
<1> SUFFICES ASSUME IInv, [Next]_vars PROVE IInv'
  OBVIOUS
<1>1. CASE UNCHANGED vars
  <2>1. UNCHANGED <<book, venue, last, booked, realized, opens, truth>>
    BY <1>1 DEF vars, book, venue
  <2> QED
    BY <2>1, UntouchedKeeps
<1>2. ASSUME NEW m \in MandateIds, Investor(m) PROVE IInv'
  <2>1. CASE FundMandate(m)
    BY <2>1, UntouchedKeeps DEF FundMandate
  <2>2. CASE \E a \in DepositAmounts : FundSolfxCollateral(m, a)
    BY <2>2, FundSolfxKeeps
  <2>3. CASE RequestSettlement(m)
    BY <2>3, UntouchedKeeps DEF RequestSettlement
  <2>4. CASE ClaimSettlement(m)
    BY <2>4, ClaimKeeps
  <2> QED
    BY <1>2, <2>1, <2>2, <2>3, <2>4 DEF Investor
<1>3. ASSUME NEW m \in MandateIds, Trader(m) PROVE IInv'
  <2>1. CASE \E k \in Keys, id \in OrderIds : FundedOpen(m, k, id)
    BY <2>1, OpenKeeps
  <2>2. CASE \E k \in Keys, credit \in Credits : FundedClose(m, k, credit)
    BY <2>2, ClosedKeeps DEF FundedClose
  <2>3. CASE \E o \in stops[m] : CancelStop(m, o)
    BY <2>3, CancelStopKeeps
  <2> QED
    BY <1>3, <2>1, <2>2, <2>3 DEF Trader
<1>4. ASSUME NEW m \in MandateIds, Outside(m) PROVE IInv'
  <2>1. CASE \E o \in stops[m], credit \in Credits : StopFires(m, o, credit)
    BY <2>1, StopFiresKeeps
  <2>2. CASE \E k \in Keys, credit \in Credits : TakenOutside(m, k, credit)
    BY <2>2, TakenOutsideKeeps
  <2> QED
    BY <1>4, <2>1, <2>2 DEF Outside
<1>5. ASSUME NEW m \in MandateIds, Keeper(m) PROVE IInv'
  <2>1. CASE \E d \in Drawdowns, daily \in BOOLEAN : ObserveMandateEquity(m, d, daily)
    BY <2>1, UntouchedKeeps DEF ObserveMandateEquity
  <2>2. CASE WindDownSome(m)
    BY <2>2, ClosedKeeps DEF WindDownSome, WindDown
  <2>3. CASE Reconcile(m)
    BY <2>3, ReconcileKeeps
  <2> QED
    BY <1>5, <2>1, <2>2, <2>3 DEF Keeper
<1>6. ASSUME NEW m \in MandateIds, Extra(m) PROVE IInv'
  <2>1. CASE \E k \in Keys, delta \in 1..OpenSize, credit \in Credits :
               FundedReduce(m, k, delta, credit)
    BY <2>1, ReduceKeeps
  <2>2. CASE \E k \in Keys, delta \in 1..OpenSize, credit \in Credits :
               TakeProfitFills(m, k, delta, credit)
    BY <2>2, TakeProfitKeeps
  <2>3. CASE \E k \in Keys, a \in MarginMoves : FundedAddMargin(m, k, a)
    <3>1. PICK k \in Keys, a \in MarginMoves : AdjustMargin(m, k, a)
      BY <2>3 DEF FundedAddMargin
    <3>2. a \in Int
      BY MandateAssumption
    <3> QED
      BY <3>1, <3>2, AdjustKeeps
  <2>4. CASE \E k \in Keys, a \in MarginMoves : FundedRemoveMargin(m, k, a)
    <3>1. PICK k \in Keys, a \in MarginMoves : AdjustMargin(m, k, -a)
      BY <2>4 DEF FundedRemoveMargin
    <3>2. -a \in Int
      BY MandateAssumption
    <3> QED
      BY <3>1, <3>2, AdjustKeeps
  <2>5. CASE \E o \in stops[m], id \in OrderIds : FundedMoveStop(m, o, id)
    BY <2>5, MoveStopKeeps
  <2>6. CASE Gift(m)
    BY <2>6, UntouchedKeeps DEF Gift
  <2> QED
    BY <1>6, <2>1, <2>2, <2>3, <2>4, <2>5, <2>6 DEF Extra
<1>7. CASE Next
  <2>1. PICK m \in MandateIds : Investor(m) \/ Trader(m) \/ Outside(m) \/ Keeper(m) \/ Extra(m)
    BY <1>7 DEF Next
  <2> QED
    BY <1>2, <1>3, <1>4, <1>5, <1>6, <2>1
<1> QED
  BY <1>1, <1>7

LEMMA SpecInv == Spec => []IInv
<1>1. Init => IInv
  BY InitInv
<1>2. IInv /\ [Next]_vars => IInv'
  BY NextKeeps
<1> QED
  BY <1>1, <1>2, PTL DEF Spec

(* R-3: what a mandate says it made, and what reconcile would still find,  *)
(* is always what its closes made, whoever made them, in whatever order    *)
(* with deposits, margin moves and partial closes.                         *)
THEOREM ResultsAlwaysTracked == Spec => []ResultsTracked
<1>1. IInv => ResultsTracked
  BY DEF IInv
<1> QED
  BY <1>1, SpecInv, PTL

(* R-4: no sequence of opens, moves, cancels and fills leaves an open      *)
(* position without a stop that would fire for it.                         *)
THEOREM StopsAlwaysHeld == Spec => []StopsHeld
<1>1. IInv => StopsHeld
  BY DEF IInv
<1> QED
  BY <1>1, SpecInv, PTL

(* R-5: a position that SolFX holds is always in a slot, and the counters  *)
(* the limits read are those of the slots, however many positions one      *)
(* reconcile releases together.                                            *)
THEOREM PositionsAlwaysTracked == Spec => []PositionsTracked
<1>1. IInv => PositionsTracked
  BY DEF IInv
<1> QED
  BY <1>1, SpecInv, PTL
-----------------------------------------------------------------------------
(* Settlement.  What the mandate's own figures have to add up to is what   *)
(* settlement divides: with ResultsTracked, the vault, the free collateral *)
(* and the cost of what is open together are the principal, the gifts and  *)
(* the result of every close.                                              *)
AddsUp(m) == vault[m] + last[m] + booked[m] = Principal + gifts[m] + realized[m]

Ended(m) ==
    /\ vault[m] = 0 /\ free[m] = 0 /\ openPositions[m] = 0
    /\ paid[m] = Split(Principal + gifts[m] + truth[m])

Accounted(m) ==
    /\ state[m] = "none" => /\ vault[m] = 0 /\ last[m] = 0 /\ booked[m] = 0
                            /\ gifts[m] = 0 /\ realized[m] = 0 /\ openPositions[m] = 0
    /\ state[m] \in {"Active", "Breached", "WindingDown"} => AddsUp(m)
    /\ state[m] = "Settled" => Ended(m)

States == {"none", "Active", "Breached", "WindingDown", "Settled"}

PaidTyped ==
    /\ state \in [MandateIds -> States]
    /\ vault \in [MandateIds -> Int] /\ gifts \in [MandateIds -> Int]
    /\ DOMAIN paid = MandateIds

AllAccounted == PaidTyped /\ \A m \in MandateIds : Accounted(m)

(* Without a booked slot nothing is open, in the mandate or at SolFX. *)
LEMMA Idle ==
  ASSUME IInv, NEW m \in MandateIds, openPositions[m] = 0
  PROVE  /\ Booked(m) = {}
         /\ \A k \in Keys : ~Live(m, k) /\ ~slots[m][k].open
         /\ LiveCost(m) = 0
<1>1. Counters /\ AllSound /\ Addresses \in Nat
  BY Parts, MandateAssumption
<1>2. Booked(m) = {}
  BY <1>1, BookedFinite, FS_EmptySet DEF Counters
<1>3. \A k \in Keys : ~Live(m, k) /\ ~slots[m][k].open
  BY <1>1, <1>2 DEF Booked, AllSound, Sound
<1>4. \A k \in Keys : pos[m][k] = NoPosition
  BY <1>1, <1>3 DEF AllSound, Sound
<1> DEFINE f == [k \in Keys |-> Cost(pos[m][k])]
<1>5. f \in [1..Addresses -> Int] /\ \A i \in 1..Addresses : f[i] = 0
  BY <1>4 DEF Cost, NoPosition, Keys
<1> HIDE DEF f
<1>6. SumTo(f, Addresses) = 0
  BY <1>1, <1>5, SumZero
<1>7. LiveCost(m) = 0
  BY <1>6 DEF LiveCost, f
<1> QED
  BY <1>2, <1>3, <1>7

(* The figures of other mandates stay. *)
OthersStay(m) ==
    \A n \in MandateIds :
        n # m => /\ state'[n] = state[n] /\ vault'[n] = vault[n] /\ free'[n] = free[n]
                 /\ last'[n] = last[n] /\ booked'[n] = booked[n] /\ realized'[n] = realized[n]
                 /\ truth'[n] = truth[n] /\ gifts'[n] = gifts[n] /\ paid'[n] = paid[n]
                 /\ openPositions'[n] = openPositions[n]

LEMMA AccountedElsewhere ==
  ASSUME AllAccounted, NEW m \in MandateIds, OthersStay(m), Accounted(m)', PaidTyped'
  PROVE  AllAccounted'
<1> SUFFICES ASSUME NEW n \in MandateIds, n # m PROVE Accounted(n)'
  BY DEF AllAccounted
<1>1. Accounted(n)
  BY DEF AllAccounted
<1> QED
  BY <1>1 DEF OthersStay, Accounted, AddsUp, Ended

(* An instruction on a position: it needs an active mandate or a position, *)
(* and moves last and booked by what it makes.                             *)
Steady(m) ==
    /\ UNCHANGED <<state, vault, gifts, paid>>
    /\ OthersStay(m)
    /\ last'[m] + booked'[m] - realized'[m] = last[m] + booked[m] - realized[m]
    /\ last'[m] \in Int /\ booked'[m] \in Int /\ realized'[m] \in Int
    /\ state[m] = "Active" \/ openPositions[m] # 0

LEMMA SteadyAccounted ==
  ASSUME IInv, AllAccounted, NEW m \in MandateIds, Steady(m)
  PROVE  AllAccounted'
<1>1. /\ Accounted(m) /\ state[m] \in States /\ vault[m] \in Int /\ gifts[m] \in Int
      /\ last[m] \in Int /\ booked[m] \in Int /\ realized[m] \in Int /\ Principal \in Int
  BY MandateAssumption DEF AllAccounted, PaidTyped, IInv, Typed
<1>2. state[m] \in {"Active", "Breached", "WindingDown"} /\ AddsUp(m)
  BY <1>1 DEF Steady, Accounted, Ended, States
<1>3. vault'[m] = vault[m] /\ gifts'[m] = gifts[m] /\ state'[m] = state[m]
  BY DEF Steady
<1>4. AddsUp(m)'
  <2>1. /\ last'[m] + booked'[m] - realized'[m] = last[m] + booked[m] - realized[m]
        /\ last'[m] \in Int /\ booked'[m] \in Int /\ realized'[m] \in Int
    BY DEF Steady
  <2>2. vault[m] + last[m] + booked[m] = Principal + gifts[m] + realized[m]
    BY <1>2 DEF AddsUp
  <2>3. vault[m] + last'[m] + booked'[m] = Principal + gifts[m] + realized'[m]
    BY <1>1, <2>1, <2>2
  <2>4. vault'[m] + last'[m] + booked'[m] = Principal + gifts'[m] + realized'[m]
    BY <1>3, <2>3
  <2> QED
    BY <2>4 DEF AddsUp
<1>5. Accounted(m)'
  BY <1>2, <1>3, <1>4 DEF Accounted
<1>6. PaidTyped'
  BY DEF AllAccounted, PaidTyped, Steady
<1> QED
  BY <1>5, <1>6, AccountedElsewhere DEF Steady

(* Nothing changes that settlement will look at. *)
LEMMA UntouchedAccounted ==
  ASSUME AllAccounted,
         UNCHANGED <<state, vault, free, last, booked, realized, truth, gifts, paid, openPositions>>
  PROVE  AllAccounted'
<1>1. PaidTyped'
  BY DEF AllAccounted, PaidTyped
<1>2. ASSUME NEW n \in MandateIds PROVE Accounted(n)'
  <2>1. Accounted(n)
    BY DEF AllAccounted
  <2>2. AddsUp(n)' <=> AddsUp(n)
    BY DEF AddsUp
  <2>3. Ended(n)' <=> Ended(n)
    BY DEF Ended
  <2> QED
    BY <2>1, <2>2, <2>3 DEF Accounted
<1> QED
  BY <1>1, <1>2 DEF AllAccounted
LEMMA SteadyBy ==
  ASSUME IInv, AllAccounted, NEW m \in MandateIds, NEW l \in Int, NEW b \in Int, NEW r \in Int,
         l + b = r, last'[m] = last[m] + l, booked'[m] = booked[m] + b,
         realized'[m] = realized[m] + r,
         UNCHANGED <<state, vault, ends>>, OthersStay(m), state[m] = "Active" \/ openPositions[m] # 0
  PROVE  AllAccounted'
<1>1. last[m] \in Int /\ booked[m] \in Int /\ realized[m] \in Int
  BY DEF IInv, Typed
<1>2. /\ last'[m] + booked'[m] - realized'[m] = last[m] + booked[m] - realized[m]
      /\ last'[m] \in Int /\ booked'[m] \in Int /\ realized'[m] \in Int
  BY <1>1
<1>3. UNCHANGED <<state, vault, gifts, paid>>
  BY DEF ends
<1>4. Steady(m)
  BY <1>2, <1>3 DEF Steady
<1> QED
  BY <1>4, SteadyAccounted

(* A booked slot, or an open position, is one of the mandate's positions. *)
LEMMA InUse ==
  ASSUME IInv, NEW m \in MandateIds, NEW k \in Keys, Live(m, k) \/ slots[m][k].open
  PROVE  openPositions[m] # 0
BY Idle

LEMMA ClosedAccounted ==
  ASSUME IInv, AllAccounted, NEW m \in MandateIds, NEW k \in Keys, NEW credit \in Credits,
         Closed(m, k, credit)
  PROVE  AllAccounted'
<1> DEFINE old == Cost(pos[m][k])
           net == credit - old
           out == -old
<1>1. /\ Typed /\ PaidTyped /\ credit \in Int /\ pos[m][k] \in Holding
  BY MandateAssumption DEF IInv, Typed, AllAccounted
<1>2. old \in Int /\ net \in Int /\ out \in Int /\ credit + out = net
  BY <1>1 DEF Cost, Holding
<1>3. /\ slots[m][k].open
      /\ free' = [free EXCEPT ![m] = @ + credit]
      /\ openPositions' = [openPositions EXCEPT ![m] = @ - 1]
      /\ booked' = [booked EXCEPT ![m] = @ - old]
      /\ last' = [last EXCEPT ![m] = @ + credit]
      /\ realized' = [realized EXCEPT ![m] = @ + net]
      /\ truth' = [truth EXCEPT ![m] = @ + credit - old]
      /\ UNCHANGED <<state, vault, ends>>
  BY DEF Closed, ClosedAs, Unbook
<1> HIDE DEF net
<1>4. OthersStay(m)
  BY <1>1, <1>3 DEF Typed, PaidTyped, OthersStay, ends
<1>5. /\ last'[m] = last[m] + credit /\ booked'[m] = booked[m] - old
      /\ realized'[m] = realized[m] + net
  BY <1>1, <1>3 DEF Typed
<1>6. booked'[m] = booked[m] + out
  BY <1>1, <1>2, <1>5 DEF Typed
<1>7. openPositions[m] # 0
  BY <1>3, InUse
<1> HIDE DEF out
<1> QED
  BY <1>1, <1>2, <1>3, <1>4, <1>5, <1>6, <1>7, SteadyBy

LEMMA ClosedOutsideAccounted ==
  ASSUME IInv, AllAccounted, NEW m \in MandateIds, NEW k \in Keys, NEW credit \in Credits,
         NEW orders, ClosedOutside(m, k, credit, orders)
  PROVE  AllAccounted'
<1> DEFINE zero == 0
<1>1. Typed /\ PaidTyped
  BY DEF IInv, AllAccounted
<1>2. /\ Live(m, k)
      /\ free' = [free EXCEPT ![m] = @ + credit]
      /\ truth' = [truth EXCEPT ![m] = @ + credit - Cost(pos[m][k])]
      /\ UNCHANGED <<state, vault, ends>> /\ UNCHANGED <<last, booked, realized>>
      /\ openPositions' = openPositions
  BY DEF ClosedOutside, book
<1>3. OthersStay(m)
  BY <1>1, <1>2 DEF Typed, PaidTyped, OthersStay, ends
<1>4. /\ zero \in Int /\ zero + zero = zero
      /\ last'[m] = last[m] + zero /\ booked'[m] = booked[m] + zero
      /\ realized'[m] = realized[m] + zero
  BY <1>1, <1>2 DEF Typed
<1>5. openPositions[m] # 0
  BY <1>2, InUse
<1> HIDE DEF zero
<1> QED
  BY <1>2, <1>3, <1>4, <1>5, SteadyBy

LEMMA TakeProfitAccounted ==
  ASSUME IInv, AllAccounted, NEW m \in MandateIds, NEW k \in Keys, NEW delta \in 1..OpenSize,
         NEW credit \in Credits, TakeProfitFills(m, k, delta, credit)
  PROVE  AllAccounted'
<1> DEFINE zero == 0
<1>1. Typed /\ PaidTyped /\ pos[m][k] \in Holding
  BY DEF IInv, AllAccounted, Typed
<1>2. /\ delta < pos[m][k].size
      /\ free' = [free EXCEPT ![m] = @ + credit]
      /\ truth' = [truth EXCEPT ![m] = @ + credit - MarginOut(pos[m][k], delta)]
      /\ UNCHANGED <<state, vault, ends>> /\ UNCHANGED <<last, booked, realized>>
      /\ openPositions' = openPositions
  BY DEF TakeProfitFills, book
<1>3. OthersStay(m)
  BY <1>1, <1>2 DEF Typed, PaidTyped, OthersStay, ends
<1>4. /\ zero \in Int /\ zero + zero = zero
      /\ last'[m] = last[m] + zero /\ booked'[m] = booked[m] + zero
      /\ realized'[m] = realized[m] + zero
  BY <1>1, <1>2 DEF Typed
<1>5. Live(m, k)
  BY <1>1, <1>2, MandateAssumption DEF Live, Holding
<1>6. openPositions[m] # 0
  BY <1>5, InUse
<1> HIDE DEF zero
<1> QED
  BY <1>2, <1>3, <1>4, <1>6, SteadyBy

LEMMA OpenAccounted ==
  ASSUME IInv, AllAccounted, NEW m \in MandateIds, NEW k \in Keys, NEW id \in OrderIds,
         FundedOpen(m, k, id)
  PROVE  AllAccounted'
<1> DEFINE cost == OpenMargin + OpenFee
           out  == -cost
           zero == 0
<1>1. Typed /\ PaidTyped /\ cost \in Int /\ out \in Int /\ zero \in Int /\ out + cost = zero
  BY MandateAssumption DEF IInv, AllAccounted
<1>2. /\ state[m] = "Active"
      /\ free' = [free EXCEPT ![m] = @ - cost]
      /\ openPositions' = [openPositions EXCEPT ![m] = @ + 1]
      /\ booked' = [booked EXCEPT ![m] = @ + OpenMargin + OpenFee]
      /\ last' = [last EXCEPT ![m] = @ - cost]
      /\ UNCHANGED <<state, realized, vault, truth, ends>>
  BY DEF FundedOpen, OpenWithStop
<1>3. OthersStay(m)
  BY <1>1, <1>2 DEF Typed, PaidTyped, OthersStay, ends
<1>4. last'[m] = last[m] - cost /\ booked'[m] = booked[m] + OpenMargin + OpenFee
  BY <1>1, <1>2 DEF Typed
<1>5. /\ last'[m] = last[m] + out /\ booked'[m] = booked[m] + cost
      /\ realized'[m] = realized[m] + zero
  BY <1>1, <1>2, <1>4, MandateAssumption DEF Typed
<1>6. UNCHANGED <<state, vault, ends>>
  BY <1>2
<1> HIDE DEF cost, out, zero
<1> QED
  BY <1>1, <1>2, <1>3, <1>5, <1>6, SteadyBy

LEMMA ReduceAccounted ==
  ASSUME IInv, AllAccounted, NEW m \in MandateIds, NEW k \in Keys, NEW delta \in 1..OpenSize,
         NEW credit \in Credits, FundedReduce(m, k, delta, credit)
  PROVE  AllAccounted'
<1> DEFINE x   == MarginOut(pos[m][k], delta)
           net == credit - x
           out == -x
<1>1. /\ Typed /\ PaidTyped /\ credit \in Int /\ delta \in Int /\ pos[m][k] \in Holding
  BY MandateAssumption DEF IInv, AllAccounted, Typed
<1>2. /\ 0 < delta /\ delta < pos[m][k].size /\ slots[m][k].open
      /\ free' = [free EXCEPT ![m] = @ + credit]
      /\ booked' = [booked EXCEPT ![m] = @ - x]
      /\ last' = [last EXCEPT ![m] = @ + credit]
      /\ realized' = [realized EXCEPT ![m] = @ + credit - x]
      /\ truth' = [truth EXCEPT ![m] = @ + credit - x]
      /\ UNCHANGED <<state, openPositions, vault, ends>>
  BY DEF FundedReduce
<1>3. pos[m][k].size \in Nat \ {0} /\ pos[m][k].margin \in Int
  BY <1>1, <1>2 DEF Holding
<1>4. x \in Int
  BY <1>1, <1>3, ShareInt DEF MarginOut
<1> HIDE DEF x
<1>5. OthersStay(m)
  BY <1>1, <1>2 DEF Typed, PaidTyped, OthersStay, ends
<1>6. last'[m] = last[m] + credit /\ booked'[m] = booked[m] - x
      /\ realized'[m] = realized[m] + credit - x
  BY <1>1, <1>2 DEF Typed
<1>7. /\ net \in Int /\ out \in Int /\ credit + out = net
      /\ booked'[m] = booked[m] + out /\ realized'[m] = realized[m] + net
  BY <1>1, <1>4, <1>6 DEF Typed
<1>8. openPositions[m] # 0
  BY <1>2, InUse
<1>9. UNCHANGED <<state, vault, ends>>
  BY <1>2
<1> HIDE DEF net, out
<1> QED
  BY <1>1, <1>5, <1>6, <1>7, <1>8, <1>9, SteadyBy

LEMMA AdjustAccounted ==
  ASSUME IInv, AllAccounted, NEW m \in MandateIds, NEW k \in Keys, NEW a \in Int,
         AdjustMargin(m, k, a)
  PROVE  AllAccounted'
<1> DEFINE out  == -a
           zero == 0
<1>1. Typed /\ PaidTyped /\ out \in Int /\ zero \in Int /\ out + a = zero
  BY DEF IInv, AllAccounted
<1>2. /\ Live(m, k)
      /\ free' = [free EXCEPT ![m] = @ - a]
      /\ booked' = [booked EXCEPT ![m] = @ + a]
      /\ last' = [last EXCEPT ![m] = @ - a]
      /\ UNCHANGED <<state, realized, truth, vault, ends>> /\ openPositions' = openPositions
  BY DEF AdjustMargin, book
<1>3. OthersStay(m)
  BY <1>1, <1>2 DEF Typed, PaidTyped, OthersStay, ends
<1>4. last'[m] = last[m] - a /\ booked'[m] = booked[m] + a
  BY <1>1, <1>2 DEF Typed
<1>5. last'[m] = last[m] + out /\ realized'[m] = realized[m] + zero
  BY <1>1, <1>2, <1>4 DEF Typed
<1>6. openPositions[m] # 0 /\ UNCHANGED <<state, vault, ends>>
  BY <1>2, InUse
<1> HIDE DEF out, zero
<1> QED
  BY <1>1, <1>3, <1>4, <1>5, <1>6, SteadyBy

LEMMA ReconcileAccounted ==
  ASSUME IInv, AllAccounted, NEW m \in MandateIds, Reconcile(m)
  PROVE  AllAccounted'
<1> DEFINE l     == free[m] - last[m]
           b     == LiveCost(m) - booked[m]
           found == Unreconciled(m)
<1>1. Typed /\ PaidTyped /\ LiveCost(m) \in Int
  BY CostInt DEF IInv, AllAccounted
<1>2. /\ free[m] \in Int /\ last[m] \in Int /\ booked[m] \in Int
      /\ l \in Int /\ b \in Int /\ found \in Int /\ l + b = found
      /\ last[m] + l = free[m] /\ booked[m] + b = LiveCost(m)
  BY <1>1 DEF Typed, Unreconciled
<1>3. /\ Gone(m) # {}
      /\ openPositions' = [openPositions EXCEPT ![m] = @ - Cardinality(Gone(m))]
      /\ booked' = [booked EXCEPT ![m] = LiveCost(m)]
      /\ last' = [last EXCEPT ![m] = free[m]]
      /\ realized' = [realized EXCEPT ![m] = @ + found]
      /\ UNCHANGED <<state, vault, truth, ends>> /\ free' = free
  BY DEF Reconcile, ReconciledBook, venue
<1> HIDE DEF found, l, b
<1>4. OthersStay(m)
  BY <1>1, <1>3 DEF Typed, PaidTyped, OthersStay, ends
<1>5. /\ last'[m] = last[m] + l /\ booked'[m] = booked[m] + b
      /\ realized'[m] = realized[m] + found
  BY <1>1, <1>2, <1>3 DEF Typed
<1>6. openPositions[m] # 0
  BY <1>3, Idle DEF Gone
<1>7. UNCHANGED <<state, vault, ends>>
  BY <1>3
<1> QED
  BY <1>2, <1>4, <1>5, <1>6, <1>7, SteadyBy
LEMMA FundMandateAccounted ==
  ASSUME IInv, AllAccounted, NEW m \in MandateIds, FundMandate(m)
  PROVE  AllAccounted'
<1>1. Typed /\ PaidTyped /\ Accounted(m) /\ Principal \in Int
  BY MandateAssumption DEF IInv, AllAccounted
<1>2. /\ state[m] = "none"
      /\ state' = [state EXCEPT ![m] = "Active"]
      /\ vault' = [vault EXCEPT ![m] = Principal]
      /\ UNCHANGED <<last, booked, realized, truth, ends>>
      /\ free' = free /\ openPositions' = openPositions
  BY DEF FundMandate, book, venue
<1>3. PaidTyped' /\ OthersStay(m)
  BY <1>1, <1>2 DEF Typed, PaidTyped, OthersStay, ends, States
<1>4. state'[m] = "Active" /\ vault'[m] = Principal
  BY <1>1, <1>2 DEF PaidTyped
<1>5. last[m] = 0 /\ booked[m] = 0 /\ gifts[m] = 0 /\ realized[m] = 0
  BY <1>1, <1>2 DEF Accounted
<1>6. vault'[m] + last'[m] + booked'[m] = Principal + gifts'[m] + realized'[m]
  BY <1>1, <1>2, <1>4, <1>5 DEF ends
<1>7. Accounted(m)'
  BY <1>4, <1>6 DEF Accounted, AddsUp
<1> QED
  BY <1>3, <1>7, AccountedElsewhere

LEMMA FundSolfxAccounted ==
  ASSUME IInv, AllAccounted, NEW m \in MandateIds, NEW a \in DepositAmounts,
         FundSolfxCollateral(m, a)
  PROVE  AllAccounted'
<1>1. /\ Typed /\ PaidTyped /\ Accounted(m) /\ a \in Nat /\ Principal \in Int
      /\ vault[m] \in Int /\ last[m] \in Int /\ booked[m] \in Int /\ realized[m] \in Int
      /\ gifts[m] \in Int /\ free[m] \in Int /\ state[m] \in States
  BY MandateAssumption DEF IInv, AllAccounted, Typed, PaidTyped
<1>2. /\ a <= vault[m]
      /\ vault' = [vault EXCEPT ![m] = @ - a]
      /\ free' = [free EXCEPT ![m] = @ + a]
      /\ last' = [last EXCEPT ![m] = @ + a]
      /\ UNCHANGED <<state, booked, realized, truth, ends>> /\ openPositions' = openPositions
  BY DEF FundSolfxCollateral, book
<1>3. PaidTyped' /\ OthersStay(m)
  BY <1>1, <1>2 DEF Typed, PaidTyped, OthersStay, ends
<1>4. /\ vault'[m] = vault[m] - a /\ free'[m] = free[m] + a /\ last'[m] = last[m] + a
      /\ booked' = booked /\ realized' = realized /\ gifts' = gifts /\ state' = state
      /\ truth' = truth /\ paid' = paid /\ openPositions' = openPositions
  BY <1>1, <1>2 DEF Typed, PaidTyped, ends
<1>5. vault[m] = 0 => /\ vault'[m] = vault[m] /\ free'[m] = free[m] /\ last'[m] = last[m]
  <2> SUFFICES ASSUME vault[m] = 0
               PROVE  vault'[m] = vault[m] /\ free'[m] = free[m] /\ last'[m] = last[m]
    OBVIOUS
  <2>1. a = 0
    BY <1>1, <1>2
  <2> QED
    BY <1>1, <1>4, <2>1
<1>6. AddsUp(m) => AddsUp(m)'
  <2> SUFFICES ASSUME vault[m] + last[m] + booked[m] = Principal + gifts[m] + realized[m]
               PROVE  vault'[m] + last'[m] + booked'[m] = Principal + gifts'[m] + realized'[m]
    BY DEF AddsUp
  <2>1. (vault[m] - a) + (last[m] + a) + booked[m] = Principal + gifts[m] + realized[m]
    BY <1>1
  <2> QED
    BY <1>4, <2>1
<1>7. Ended(m) => Ended(m)'
  BY <1>4, <1>5 DEF Ended
<1>8. Accounted(m)'
  BY <1>1, <1>4, <1>5, <1>6, <1>7 DEF Accounted
<1> QED
  BY <1>3, <1>8, AccountedElsewhere

LEMMA RequestAccounted ==
  ASSUME IInv, AllAccounted, NEW m \in MandateIds, RequestSettlement(m)
  PROVE  AllAccounted'
<1>1. Typed /\ PaidTyped /\ Accounted(m)
  BY DEF IInv, AllAccounted
<1>2. /\ state[m] = "Active"
      /\ state' = [state EXCEPT ![m] = "WindingDown"]
      /\ UNCHANGED <<last, booked, realized, vault, truth, ends>>
      /\ free' = free /\ openPositions' = openPositions
  BY DEF RequestSettlement, book, venue
<1>3. PaidTyped' /\ OthersStay(m)
  BY <1>1, <1>2 DEF Typed, PaidTyped, OthersStay, ends, States
<1>4. state'[m] = "WindingDown"
  BY <1>1, <1>2 DEF PaidTyped
<1>5. AddsUp(m)'
  BY <1>1, <1>2 DEF Accounted, AddsUp, ends
<1> QED
  BY <1>3, <1>4, <1>5, AccountedElsewhere DEF Accounted

LEMMA GiftAccounted ==
  ASSUME IInv, AllAccounted, NEW m \in MandateIds, Gift(m)
  PROVE  AllAccounted'
<1>1. /\ Typed /\ PaidTyped /\ Accounted(m) /\ Principal \in Int
      /\ vault[m] \in Int /\ last[m] \in Int /\ booked[m] \in Int /\ realized[m] \in Int
      /\ gifts[m] \in Int /\ state[m] \in States
  BY MandateAssumption DEF IInv, AllAccounted, Typed, PaidTyped
<1>2. /\ state[m] \notin {"none", "Settled"}
      /\ gifts' = [gifts EXCEPT ![m] = @ + 1]
      /\ vault' = [vault EXCEPT ![m] = @ + 1]
      /\ UNCHANGED <<state, last, booked, realized, truth, paid>>
      /\ free' = free /\ openPositions' = openPositions
  BY DEF Gift, book, venue
<1>3. PaidTyped' /\ OthersStay(m)
  BY <1>1, <1>2 DEF Typed, PaidTyped, OthersStay
<1>4. /\ vault'[m] = vault[m] + 1 /\ gifts'[m] = gifts[m] + 1 /\ state'[m] = state[m]
      /\ last' = last /\ booked' = booked /\ realized' = realized
  BY <1>1, <1>2 DEF PaidTyped
<1>5. state[m] \in {"Active", "Breached", "WindingDown"}
  BY <1>1, <1>2 DEF States
<1>6. vault[m] + last[m] + booked[m] = Principal + gifts[m] + realized[m]
  BY <1>1, <1>5 DEF Accounted, AddsUp
<1>7. (vault[m] + 1) + last[m] + booked[m] = Principal + (gifts[m] + 1) + realized[m]
  BY <1>1, <1>6
<1>8. AddsUp(m)'
  BY <1>4, <1>7 DEF AddsUp
<1>9. Accounted(m)'
  BY <1>4, <1>5, <1>8 DEF Accounted
<1> QED
  BY <1>3, <1>9, AccountedElsewhere

LEMMA ObserveAccounted ==
  ASSUME IInv, AllAccounted, NEW m \in MandateIds, NEW d, NEW daily,
         ObserveMandateEquity(m, d, daily)
  PROVE  AllAccounted'
<1>1. Typed /\ PaidTyped /\ Accounted(m)
  BY DEF IInv, AllAccounted
<1>2. /\ state[m] # "none"
      /\ state' = [state EXCEPT ![m] = IF @ = "Active" /\ (d > MaxDrawdown \/ daily)
                                       THEN "Breached" ELSE @]
      /\ UNCHANGED <<last, booked, realized, vault, truth, ends>>
      /\ free' = free /\ openPositions' = openPositions
  BY DEF ObserveMandateEquity, book, venue
<1>3. \/ state'[m] = state[m]
      \/ state[m] = "Active" /\ state'[m] = "Breached"
  BY <1>1, <1>2 DEF PaidTyped
<1>4. state' \in [MandateIds -> States] /\ \A n \in MandateIds : n # m => state'[n] = state[n]
  <2>1. "Breached" \in States /\ state[m] \in States
    BY <1>1 DEF PaidTyped, States
  <2> QED
    BY <1>1, <1>2, <2>1 DEF PaidTyped
<1>5. PaidTyped' /\ OthersStay(m)
  BY <1>1, <1>2, <1>4 DEF PaidTyped, OthersStay, ends
<1>6. (AddsUp(m)' <=> AddsUp(m)) /\ (Ended(m)' <=> Ended(m))
  BY <1>2 DEF AddsUp, Ended, ends
<1>7. Accounted(m)'
  BY <1>1, <1>2, <1>3, <1>6 DEF Accounted
<1> QED
  BY <1>5, <1>7, AccountedElsewhere

LEMMA ClaimAccounted ==
  ASSUME IInv, AllAccounted, NEW m \in MandateIds, ClaimSettlement(m)
  PROVE  AllAccounted'
<1> DEFINE final == vault[m] + free[m]
<1>1. /\ Typed /\ PaidTyped /\ Accounted(m) /\ Principal \in Int
      /\ vault[m] \in Int /\ last[m] \in Int /\ booked[m] \in Int /\ realized[m] \in Int
      /\ gifts[m] \in Int /\ free[m] \in Int /\ truth[m] \in Int
  BY MandateAssumption DEF IInv, AllAccounted, Typed, PaidTyped
<1>2. /\ Stopped(m) /\ openPositions[m] = 0
      /\ state' = [state EXCEPT ![m] = "Settled"]
      /\ last' = [last EXCEPT ![m] = @ - free[m]]
      /\ free' = [free EXCEPT ![m] = 0]
      /\ paid' = [paid EXCEPT ![m] = Split(final)]
      /\ vault' = [vault EXCEPT ![m] = @ + free[m] - final]
      /\ UNCHANGED <<booked, realized, truth, gifts>> /\ openPositions' = openPositions
  BY DEF ClaimSettlement, SettledWith, book
<1>3. LiveCost(m) = 0
  BY <1>2, Idle
<1>4. truth[m] = realized[m] + ((free[m] - last[m]) - (booked[m] - 0))
  BY <1>3 DEF IInv, ResultsTracked, Unreconciled
<1>5. vault[m] + last[m] + booked[m] = Principal + gifts[m] + realized[m]
  BY <1>1, <1>2 DEF Accounted, AddsUp, Stopped
<1>6. final = Principal + gifts[m] + truth[m] /\ vault[m] + free[m] - final = 0
  <2>1. truth[m] = realized[m] + free[m] - last[m] - booked[m]
    BY <1>1, <1>4
  <2>2. vault[m] + free[m] = Principal + gifts[m] + truth[m]
    BY <1>1, <1>5, <2>1
  <2> QED
    BY <1>1, <2>2
<1> HIDE DEF final
<1>7. PaidTyped' /\ OthersStay(m)
  <2>1. vault' = [vault EXCEPT ![m] = 0]
    BY <1>2, <1>6
  <2> QED
    BY <1>1, <1>2, <2>1 DEF Typed, PaidTyped, OthersStay, States
<1>8. /\ state'[m] = "Settled" /\ vault'[m] = 0 /\ free'[m] = 0 /\ openPositions'[m] = 0
      /\ paid'[m] = Split(Principal + gifts'[m] + truth'[m])
  BY <1>1, <1>2, <1>6 DEF Typed, PaidTyped
<1>9. Ended(m)'
  BY <1>8 DEF Ended
<1>10. Accounted(m)'
  BY <1>8, <1>9 DEF Accounted
<1> QED
  BY <1>7, <1>10, AccountedElsewhere
(* Division floors, also below zero. *)
LEMMA QuotientFloors ==
  ASSUME NEW a \in Int, NEW d \in Nat \ {0}
  PROVE  a \div d \in Int /\ d * (a \div d) <= a /\ a < d * (a \div d) + d
BY SMT

(* A share of at most all of an amount is between nothing and all of it,   *)
(* rounded down or rounded up.                                             *)
LEMMA ShareWithin ==
  ASSUME NEW g \in Nat, NEW share \in 0..WholeBps
  PROVE  /\ (g * share) \div WholeBps \in 0..g
         /\ -((-(g * share)) \div WholeBps) \in 0..g
<1> DEFINE n    == g * share
           down == n \div WholeBps
           up   == (-n) \div WholeBps
<1>0. WholeBps \in Nat \ {0} /\ share \in Nat /\ share <= WholeBps
  BY MandateAssumption
<1>1. n \in Int /\ 0 <= n /\ n <= g * WholeBps
  BY <1>0
<1>2. g * WholeBps = WholeBps * g /\ g * WholeBps \in Int
  BY <1>0
<1> HIDE DEF n
<1>3. down \in Int /\ WholeBps * down <= n /\ n < WholeBps * down + WholeBps
  BY <1>0, <1>1, QuotientFloors
<1>4. up \in Int /\ WholeBps * up <= -n /\ -n < WholeBps * up + WholeBps
  <2>1. -n \in Int
    BY <1>1
  <2> QED
    BY <1>0, <2>1, QuotientFloors
<1> HIDE DEF down, up
<1>5. WholeBps * down \in Int /\ WholeBps * up \in Int /\ WholeBps * (-1) = -WholeBps
  BY <1>0, <1>3, <1>4
<1>6. down >= 0
  <2> SUFFICES ASSUME down <= -1 PROVE FALSE
    BY <1>3
  <2>1. WholeBps * down <= WholeBps * (-1)
    BY <1>0, <1>3
  <2> QED
    BY <1>0, <1>1, <1>3, <1>5, <2>1
<1>7. down <= g
  <2> SUFFICES ASSUME down >= g + 1 PROVE FALSE
    BY <1>3
  <2>1. WholeBps * (g + 1) <= WholeBps * down
    BY <1>0, <1>3
  <2>2. WholeBps * (g + 1) = WholeBps * g + WholeBps
    BY <1>0
  <2> QED
    BY <1>0, <1>1, <1>2, <1>3, <1>5, <2>1, <2>2
<1>8. up <= 0
  <2> SUFFICES ASSUME up >= 1 PROVE FALSE
    BY <1>4
  <2>1. WholeBps * 1 <= WholeBps * up
    BY <1>0, <1>4
  <2> QED
    BY <1>0, <1>1, <1>4, <1>5, <2>1
<1>9. up >= -g
  <2> SUFFICES ASSUME up <= -g - 1 PROVE FALSE
    BY <1>4
  <2>1. WholeBps * up <= WholeBps * (-g - 1)
    BY <1>0, <1>4
  <2>2. WholeBps * (-g - 1) = -(WholeBps * g) - WholeBps
    BY <1>0
  <2>3. WholeBps * g \in Int
    BY <1>0
  <2> QED
    BY <1>0, <1>1, <1>2, <1>4, <1>5, <2>1, <2>2, <2>3
<1>10. down \in 0..g /\ -up \in 0..g
  BY <1>3, <1>4, <1>6, <1>7, <1>8, <1>9
<1> QED
  BY <1>10 DEF down, up, n

(* split: what is divided is all paid out, and neither the trader's share  *)
(* nor the fee is ever taken from the principal.                           *)
LEMMA SplitProtects ==
  ASSUME NEW final \in Int
  PROVE  LET p == Split(final)
         IN  /\ p.investor + p.trader + p.protocol = final
             /\ p.investor >= (IF final < Principal THEN final ELSE Principal)
<1> DEFINE gross    == Larger(final - Principal, 0)
           protocol == -((-(gross * FeeBps)) \div WholeBps)
           trader   == ((gross - protocol) * TraderBps) \div WholeBps
<1>1. /\ Principal \in Int /\ gross \in Nat
      /\ final - gross = (IF final < Principal THEN final ELSE Principal)
  BY MandateAssumption DEF Larger
<1>2. FeeBps \in 0..WholeBps /\ TraderBps \in 0..WholeBps
  BY MandateAssumption
<1>3. Split(final) = [investor |-> final - protocol - trader, trader |-> trader,
                      protocol |-> protocol]
  BY DEF Split
<1> HIDE DEF gross
<1>4. protocol \in 0..gross
  BY <1>1, <1>2, ShareWithin
<1> HIDE DEF protocol
<1>5. gross - protocol \in Nat
  BY <1>1, <1>4
<1>6. trader \in 0..(gross - protocol)
  BY <1>2, <1>5, ShareWithin
<1> HIDE DEF trader
<1>7. /\ (final - protocol - trader) + trader + protocol = final
      /\ final - protocol - trader >= final - gross
  BY <1>1, <1>4, <1>6
<1> QED
  BY <1>1, <1>3, <1>7

LEMMA InitAccounted == Init => AllAccounted
<1> SUFFICES ASSUME Init PROVE AllAccounted
  OBVIOUS
<1>1. PaidTyped
  BY DEF Init, PaidTyped, States
<1>2. \A m \in MandateIds : Accounted(m)
  BY DEF Init, Accounted
<1> QED
  BY <1>1, <1>2 DEF AllAccounted

LEMMA NextAccounted == IInv /\ AllAccounted /\ [Next]_vars => AllAccounted'
<1> SUFFICES ASSUME IInv, AllAccounted, [Next]_vars PROVE AllAccounted'
  OBVIOUS
<1>1. CASE UNCHANGED vars
  BY <1>1, UntouchedAccounted DEF vars
<1>2. ASSUME NEW m \in MandateIds, Investor(m) PROVE AllAccounted'
  BY <1>2, FundMandateAccounted, FundSolfxAccounted, RequestAccounted, ClaimAccounted
     DEF Investor
<1>3. ASSUME NEW m \in MandateIds, NEW orders, StopsBecome(m, orders) PROVE AllAccounted'
  BY <1>3, UntouchedAccounted DEF StopsBecome, book, ends
<1>4. ASSUME NEW m \in MandateIds, Trader(m) PROVE AllAccounted'
  <2>1. CASE \E k \in Keys, id \in OrderIds : FundedOpen(m, k, id)
    BY <2>1, OpenAccounted
  <2>2. CASE \E k \in Keys, credit \in Credits : FundedClose(m, k, credit)
    BY <2>2, ClosedAccounted DEF FundedClose
  <2>3. CASE \E o \in stops[m] : CancelStop(m, o)
    BY <1>3, <2>3 DEF CancelStop
  <2> QED
    BY <1>4, <2>1, <2>2, <2>3 DEF Trader
<1>5. ASSUME NEW m \in MandateIds, Outside(m) PROVE AllAccounted'
  <2>1. CASE \E o \in stops[m], credit \in Credits : StopFires(m, o, credit)
    <3>1. PICK o \in stops[m], credit \in Credits : StopFires(m, o, credit)
      BY <2>1
    <3>2. o.key \in Keys
      BY DEF IInv, Typed, Order
    <3>3. ClosedOutside(m, o.key, credit, stops[m] \ {o})
      BY <3>1 DEF StopFires
    <3> QED
      BY <3>2, <3>3, ClosedOutsideAccounted
  <2>2. CASE \E k \in Keys, credit \in Credits : TakenOutside(m, k, credit)
    BY <2>2, ClosedOutsideAccounted DEF TakenOutside
  <2> QED
    BY <1>5, <2>1, <2>2 DEF Outside
<1>6. ASSUME NEW m \in MandateIds, Keeper(m) PROVE AllAccounted'
  <2>1. CASE \E d \in Drawdowns, daily \in BOOLEAN : ObserveMandateEquity(m, d, daily)
    BY <2>1, ObserveAccounted
  <2>2. CASE WindDownSome(m)
    BY <2>2, ClosedAccounted DEF WindDownSome, WindDown
  <2>3. CASE Reconcile(m)
    BY <2>3, ReconcileAccounted
  <2> QED
    BY <1>6, <2>1, <2>2, <2>3 DEF Keeper
<1>7. ASSUME NEW m \in MandateIds, Extra(m) PROVE AllAccounted'
  <2>1. CASE \E k \in Keys, delta \in 1..OpenSize, credit \in Credits :
               FundedReduce(m, k, delta, credit)
    BY <2>1, ReduceAccounted
  <2>2. CASE \E k \in Keys, delta \in 1..OpenSize, credit \in Credits :
               TakeProfitFills(m, k, delta, credit)
    BY <2>2, TakeProfitAccounted
  <2>3. CASE \E k \in Keys, a \in MarginMoves : FundedAddMargin(m, k, a)
    <3>1. PICK k \in Keys, a \in MarginMoves : AdjustMargin(m, k, a)
      BY <2>3 DEF FundedAddMargin
    <3>2. a \in Int
      BY MandateAssumption
    <3> QED
      BY <3>1, <3>2, AdjustAccounted
  <2>4. CASE \E k \in Keys, a \in MarginMoves : FundedRemoveMargin(m, k, a)
    <3>1. PICK k \in Keys, a \in MarginMoves : AdjustMargin(m, k, -a)
      BY <2>4 DEF FundedRemoveMargin
    <3>2. -a \in Int
      BY MandateAssumption
    <3> QED
      BY <3>1, <3>2, AdjustAccounted
  <2>5. CASE \E o \in stops[m], id \in OrderIds : FundedMoveStop(m, o, id)
    BY <1>3, <2>5 DEF FundedMoveStop
  <2>6. CASE Gift(m)
    BY <2>6, GiftAccounted
  <2> QED
    BY <1>7, <2>1, <2>2, <2>3, <2>4, <2>5, <2>6 DEF Extra
<1>8. CASE Next
  <2>1. PICK m \in MandateIds : Investor(m) \/ Trader(m) \/ Outside(m) \/ Keeper(m) \/ Extra(m)
    BY <1>8 DEF Next
  <2> QED
    BY <1>2, <1>4, <1>5, <1>6, <1>7, <2>1
<1> QED
  BY <1>1, <1>8

LEMMA SpecAccounted == Spec => []AllAccounted
<1>1. Init => AllAccounted
  BY InitAccounted
<1>2. IInv /\ AllAccounted /\ [Next]_vars => AllAccounted'
  BY NextAccounted
<1> QED
  BY <1>1, <1>2, SpecInv, PTL DEF Spec

(* claim_settlement: whatever order of trades, closes elsewhere, gifts and *)
(* deposits came before it, a settlement pays out the principal, the gifts *)
(* and the result of every close and leaves nothing at SolFX; the investor *)
(* has at least the principal, or all of it when there is less.            *)
THEOREM AlwaysSettledInFull == Spec => []SettledInFull
<1>1. IInv /\ AllAccounted => SettledInFull
  <2> SUFFICES ASSUME IInv, AllAccounted, NEW m \in MandateIds, state[m] = "Settled"
               PROVE  LET final == Principal + gifts[m] + truth[m]
                      IN  /\ vault[m] = 0 /\ free[m] = 0 /\ LiveCost(m) = 0
                          /\ paid[m].investor + paid[m].trader + paid[m].protocol = final
                          /\ paid[m].investor >= (IF final < Principal THEN final ELSE Principal)
    BY DEF SettledInFull
  <2> DEFINE final == Principal + gifts[m] + truth[m]
  <2>1. Ended(m)
    BY DEF AllAccounted, Accounted
  <2>2. LiveCost(m) = 0
    BY <2>1, Idle DEF Ended
  <2>3. final \in Int
    BY MandateAssumption DEF AllAccounted, PaidTyped, IInv, Typed
  <2>4. vault[m] = 0 /\ free[m] = 0 /\ paid[m] = Split(final)
    BY <2>1 DEF Ended
  <2> HIDE DEF final
  <2>5. /\ paid[m].investor + paid[m].trader + paid[m].protocol = final
        /\ paid[m].investor >= (IF final < Principal THEN final ELSE Principal)
    BY <2>3, <2>4, SplitProtects
  <2> QED
    BY <2>2, <2>4, <2>5 DEF final
<1> QED
  BY <1>1, SpecAccounted, SpecInv, PTL

-----------------------------------------------------------------------------
(* The record and its replay, as values *)

Figures ==
    [trades : Int, wins : Int, losses : Int, grossProfit : Int, grossLoss : Int,
     largestWin : Int, largestLoss : Int, holdSlots : Int, untimed : Int, ambiguous : Nat,
     maxDrawdown : Int, funded : Int, active : Int, settledInProfit : Int]

Replays ==
    [d : Figures, known : SUBSET MandateIds, pnl : [MandateIds -> Int],
     unprovable : SUBSET MandateIds]

(* What the two agree on within a reconcile too, and not only after it:    *)
(* the program counts the whole batch as untimed beforehand.               *)
SameTrades(d, p) ==
    /\ d.trades = p.trades /\ d.wins = p.wins /\ d.losses = p.losses
    /\ d.grossProfit = p.grossProfit /\ d.grossLoss = p.grossLoss
    /\ d.largestWin = p.largestWin /\ d.largestLoss = p.largestLoss
    /\ d.holdSlots = p.holdSlots /\ d.maxDrawdown = p.maxDrawdown
    /\ d.funded = p.funded /\ d.active = p.active

Net(p) == p.grossProfit - p.grossLoss

(* A trade of result x and hold h, of which u are untimed and a ambiguous. *)
Counted(p, x, h, u, a) ==
    [trades |-> p.trades + 1,
     wins |-> p.wins + (IF x > 0 THEN 1 ELSE 0),
     losses |-> p.losses + (IF x > 0 THEN 0 ELSE 1),
     grossProfit |-> p.grossProfit + (IF x > 0 THEN x ELSE 0),
     grossLoss |-> p.grossLoss + (IF x > 0 THEN 0 ELSE -x),
     largestWin |-> IF x > 0 THEN Larger(p.largestWin, x) ELSE p.largestWin,
     largestLoss |-> IF x > 0 THEN p.largestLoss ELSE Larger(p.largestLoss, -x),
     holdSlots |-> p.holdSlots + h,
     untimed |-> p.untimed + u, ambiguous |-> p.ambiguous + a,
     maxDrawdown |-> p.maxDrawdown, funded |-> p.funded, active |-> p.active,
     settledInProfit |-> p.settledInProfit]

LEMMA LargerInt == ASSUME NEW a \in Int, NEW b \in Int PROVE Larger(a, b) \in Int
BY DEF Larger

LEMMA CountedTyped ==
  ASSUME NEW p \in Figures, NEW x \in Int, NEW h \in Int, NEW u \in Nat, NEW a \in Nat
  PROVE  Counted(p, x, h, u, a) \in Figures /\ Net(Counted(p, x, h, u, a)) = Net(p) + x
<1>1. -x \in Int /\ Larger(p.largestWin, x) \in Int /\ Larger(p.largestLoss, -x) \in Int
  <2>1. -x \in Int /\ p.largestWin \in Int /\ p.largestLoss \in Int
    BY DEF Figures
  <2> QED
    BY <2>1, LargerInt
<1>2. Counted(p, x, h, u, a) \in Figures
  BY <1>1 DEF Counted, Figures
<1>3. Net(Counted(p, x, h, u, a)) = Net(p) + x
  BY DEF Counted, Net, Figures
<1> QED
  BY <1>2, <1>3

LEMMA TradeCounted ==
  ASSUME NEW p \in Figures, NEW x \in Int, NEW h \in Int
  PROVE  RecordTrade(p, x, h) = Counted(p, x, h, 0, 0)
<1>1. /\ p.grossLoss - x = p.grossLoss + (-x)
      /\ p.wins + 0 = p.wins /\ p.losses + 0 = p.losses
      /\ p.grossProfit + 0 = p.grossProfit /\ p.grossLoss + 0 = p.grossLoss
      /\ p.untimed + 0 = p.untimed /\ p.ambiguous + 0 = p.ambiguous
  BY DEF Figures
<1>2. CASE x > 0
  <2>1. RecordTrade(p, x, h)
        = [trades |-> p.trades + 1, wins |-> p.wins + 1, losses |-> p.losses,
           grossProfit |-> p.grossProfit + x, grossLoss |-> p.grossLoss,
           largestWin |-> Larger(p.largestWin, x), largestLoss |-> p.largestLoss,
           holdSlots |-> p.holdSlots + h, untimed |-> p.untimed,
           ambiguous |-> p.ambiguous, maxDrawdown |-> p.maxDrawdown,
           funded |-> p.funded, active |-> p.active,
           settledInProfit |-> p.settledInProfit]
    BY <1>2 DEF RecordTrade, Figures
  <2> QED
    BY <1>1, <1>2, <2>1 DEF Counted
<1>3. CASE ~(x > 0)
  <2>1. RecordTrade(p, x, h)
        = [trades |-> p.trades + 1, wins |-> p.wins, losses |-> p.losses + 1,
           grossProfit |-> p.grossProfit, grossLoss |-> p.grossLoss - x,
           largestWin |-> p.largestWin, largestLoss |-> Larger(p.largestLoss, -x),
           holdSlots |-> p.holdSlots + h, untimed |-> p.untimed,
           ambiguous |-> p.ambiguous, maxDrawdown |-> p.maxDrawdown,
           funded |-> p.funded, active |-> p.active,
           settledInProfit |-> p.settledInProfit]
    BY <1>3 DEF RecordTrade, Figures
  <2> QED
    BY <1>1, <1>3, <2>1 DEF Counted
<1> QED
  BY <1>2, <1>3

(* A trade's event, among k positions reconciled together. *)
LEMMA TradeFollowed ==
  ASSUME NEW r \in Replays, NEW m \in MandateIds, NEW x \in Int, NEW h \in Int, NEW k \in Nat,
         NEW q, q = TradeReplayed(r, TradeRecorded(m, x, h), k)
  PROVE  /\ q \in Replays
         /\ q.d = Counted(r.d, x, h, IF k > 0 THEN 1 ELSE 0, IF k > 1 THEN 1 ELSE 0)
         /\ q.known = r.known /\ q.unprovable = r.unprovable
         /\ q.pnl = [r.pnl EXCEPT ![m] = @ + x]
<1> DEFINE e == TradeRecorded(m, x, h)
           one  == IF k > 0 THEN 1 ELSE 0
           more == IF k > 1 THEN 1 ELSE 0
           d == [r.d EXCEPT !.trades    = @ + 1,
                            !.holdSlots = @ + h,
                            !.untimed   = IF k > 0 THEN @ + 1 ELSE @,
                            !.ambiguous = IF k > 1 THEN @ + 1 ELSE @]
           gain == [d EXCEPT !.wins = @ + 1, !.grossProfit = @ + x,
                             !.largestWin = Larger(@, x)]
           loss == [d EXCEPT !.losses = @ + 1, !.grossLoss = @ + (-x),
                             !.largestLoss = Larger(@, -x)]
           next == IF x > 0 THEN gain ELSE loss
           moved == [r.pnl EXCEPT ![m] = @ + x]
<1>1. e.pnl = x /\ e.hold = h /\ e.mandate = m
  BY DEF TradeRecorded
<1>2. q = [r EXCEPT !.d = next, !.pnl[m] = @ + x]
  BY <1>1 DEF TradeReplayed
<1>3. r.d \in Figures /\ r.pnl \in [MandateIds -> Int]
  BY DEF Replays
<1>4. /\ r.d.wins + 0 = r.d.wins /\ r.d.losses + 0 = r.d.losses
      /\ r.d.grossProfit + 0 = r.d.grossProfit /\ r.d.grossLoss + 0 = r.d.grossLoss
      /\ (IF k > 0 THEN r.d.untimed + 1 ELSE r.d.untimed) = r.d.untimed + one
      /\ (IF k > 1 THEN r.d.ambiguous + 1 ELSE r.d.ambiguous) = r.d.ambiguous + more
  BY <1>3 DEF Figures
<1>5. one \in Nat /\ more \in Nat
  OBVIOUS
<1>6. d = [r.d EXCEPT !.trades = @ + 1, !.holdSlots = @ + h,
                      !.untimed = @ + one, !.ambiguous = @ + more]
  BY <1>4
<1> HIDE DEF one, more, d
<1>7. d = [trades |-> r.d.trades + 1, wins |-> r.d.wins, losses |-> r.d.losses,
           grossProfit |-> r.d.grossProfit, grossLoss |-> r.d.grossLoss,
           largestWin |-> r.d.largestWin, largestLoss |-> r.d.largestLoss,
           holdSlots |-> r.d.holdSlots + h, untimed |-> r.d.untimed + one,
           ambiguous |-> r.d.ambiguous + more, maxDrawdown |-> r.d.maxDrawdown,
           funded |-> r.d.funded, active |-> r.d.active,
           settledInProfit |-> r.d.settledInProfit]
  BY <1>3, <1>6 DEF Figures
<1>8. d \in Figures
  BY <1>3, <1>5, <1>7 DEF Figures
<1>9. (x > 0 => next = gain) /\ (~(x > 0) => next = loss)
  OBVIOUS
<1> HIDE DEF next
<1>10. next = Counted(r.d, x, h, one, more)
  <2>1. CASE x > 0
    <3>1. gain = [d EXCEPT !.wins = @ + 1, !.grossProfit = @ + x,
                         !.largestWin = Larger(@, x)]
      OBVIOUS
    <3> HIDE DEF gain
    <3>2. gain = [trades |-> d.trades, wins |-> d.wins + 1, losses |-> d.losses,
                      grossProfit |-> d.grossProfit + x, grossLoss |-> d.grossLoss,
                      largestWin |-> Larger(d.largestWin, x),
                      largestLoss |-> d.largestLoss, holdSlots |-> d.holdSlots,
                      untimed |-> d.untimed, ambiguous |-> d.ambiguous,
                      maxDrawdown |-> d.maxDrawdown, funded |-> d.funded,
                      active |-> d.active, settledInProfit |-> d.settledInProfit]
      BY <1>8, <3>1 DEF Figures
    <3> QED
      BY <1>4, <1>7, <1>9, <2>1, <3>2 DEF Counted
  <2>2. CASE ~(x > 0)
    <3>1. loss = [d EXCEPT !.losses = @ + 1, !.grossLoss = @ + (-x),
                         !.largestLoss = Larger(@, -x)]
      OBVIOUS
    <3> HIDE DEF loss
    <3>2. loss = [trades |-> d.trades, wins |-> d.wins, losses |-> d.losses + 1,
                      grossProfit |-> d.grossProfit, grossLoss |-> d.grossLoss + (-x),
                      largestWin |-> d.largestWin,
                      largestLoss |-> Larger(d.largestLoss, -x),
                      holdSlots |-> d.holdSlots, untimed |-> d.untimed,
                      ambiguous |-> d.ambiguous, maxDrawdown |-> d.maxDrawdown,
                      funded |-> d.funded, active |-> d.active,
                      settledInProfit |-> d.settledInProfit]
      BY <1>8, <3>1 DEF Figures
    <3> QED
      BY <1>4, <1>7, <1>9, <2>2, <3>2 DEF Counted
  <2> QED
    BY <2>1, <2>2
<1>11. next \in Figures
  BY <1>3, <1>5, <1>10, CountedTyped
<1>12. moved \in [MandateIds -> Int]
  BY <1>3
<1>13. q = [r EXCEPT !.d = next, !.pnl = moved]
  BY <1>2 DEF Replays
<1> HIDE DEF moved
<1>14. /\ q \in Replays /\ q.d = next /\ q.pnl = moved
       /\ q.known = r.known /\ q.unprovable = r.unprovable
  BY <1>11, <1>12, <1>13 DEF Replays
<1> QED
  BY <1>10, <1>14 DEF moved, one, more

(* The record and its replay agree. *)
Agree(p, r) ==
    /\ p \in Figures /\ r \in Replays
    /\ SameTrades(r.d, p) /\ r.d.untimed = p.untimed /\ r.d.ambiguous = p.ambiguous
    /\ r.unprovable = {} => r.d.settledInProfit = p.settledInProfit

LEMMA CountedSame ==
  ASSUME NEW d \in Figures, NEW p \in Figures, SameTrades(d, p),
         NEW x \in Int, NEW h \in Int, NEW u, NEW a, NEW v, NEW b
  PROVE  SameTrades(Counted(d, x, h, u, a), Counted(p, x, h, v, b))
BY DEF SameTrades, Counted

LEMMA TradeAgrees ==
  ASSUME NEW p, NEW r, Agree(p, r), NEW m \in MandateIds, NEW x \in Int, NEW h \in Int,
         NEW q, q = RecordTrade(p, x, h), NEW s, s = TradeReplayed(r, TradeRecorded(m, x, h), 0)
  PROVE  /\ Agree(q, s) /\ Net(q) = Net(p) + x /\ q.ambiguous = p.ambiguous
         /\ s.known = r.known /\ s.unprovable = r.unprovable
         /\ s.pnl = [r.pnl EXCEPT ![m] = @ + x]
<1>1. p \in Figures /\ r \in Replays /\ r.d \in Figures
  BY DEF Agree, Replays
<1>2. q = Counted(p, x, h, 0, 0)
  BY <1>1, TradeCounted
<1>3. /\ s \in Replays /\ s.d = Counted(r.d, x, h, 0, 0)
      /\ s.known = r.known /\ s.unprovable = r.unprovable
      /\ s.pnl = [r.pnl EXCEPT ![m] = @ + x]
  <2>1. 0 \in Nat /\ ~(0 > 0) /\ ~(0 > 1)
    OBVIOUS
  <2> QED
    BY <1>1, <2>1, TradeFollowed
<1>4. q \in Figures /\ Net(q) = Net(p) + x
  <2>1. 0 \in Nat
    OBVIOUS
  <2> QED
    BY <1>1, <1>2, <2>1, CountedTyped
<1>5. SameTrades(s.d, q)
  BY <1>1, <1>2, <1>3, CountedSame DEF Agree
<1>6. /\ s.d.untimed = q.untimed /\ s.d.ambiguous = q.ambiguous
      /\ s.d.settledInProfit = r.d.settledInProfit /\ q.settledInProfit = p.settledInProfit
      /\ q.ambiguous = p.ambiguous
  BY <1>1, <1>2, <1>3 DEF Counted, Agree, Figures
<1> QED
  BY <1>3, <1>4, <1>5, <1>6 DEF Agree

(* A record with new figures in what the other instructions change. *)
Changed(p, profit, loss, drawdown, funded, active, settled) ==
    [trades |-> p.trades, wins |-> p.wins, losses |-> p.losses, grossProfit |-> profit,
     grossLoss |-> loss, largestWin |-> p.largestWin, largestLoss |-> p.largestLoss,
     holdSlots |-> p.holdSlots, untimed |-> p.untimed, ambiguous |-> p.ambiguous,
     maxDrawdown |-> drawdown, funded |-> funded, active |-> active,
     settledInProfit |-> settled]

LEMMA PartialAgrees ==
  ASSUME NEW p, NEW r, Agree(p, r), NEW m \in MandateIds, NEW x \in Int,
         NEW q, q = RecordPartial(p, x), NEW s, s = PartialReplayed(r, PartialCloseRecorded(m, x))
  PROVE  /\ Agree(q, s) /\ Net(q) = Net(p) + x /\ q.ambiguous = p.ambiguous
         /\ s.known = r.known /\ s.unprovable = r.unprovable
         /\ s.pnl = [r.pnl EXCEPT ![m] = @ + x]
<1> DEFINE profit == IF x > 0 THEN p.grossProfit + x ELSE p.grossProfit
           loss   == IF x > 0 THEN p.grossLoss ELSE p.grossLoss - x
           d      == [r.d EXCEPT !.grossProfit = profit, !.grossLoss = loss]
           moved  == [r.pnl EXCEPT ![m] = @ + x]
<1>1. /\ p \in Figures /\ r \in Replays /\ r.d \in Figures /\ r.pnl \in [MandateIds -> Int]
      /\ r.d.grossProfit = p.grossProfit /\ r.d.grossLoss = p.grossLoss
      /\ p.grossLoss - x = p.grossLoss + (-x)
  BY DEF Agree, Replays, SameTrades, Figures
<1>2. profit \in Int /\ loss \in Int /\ profit - loss = Net(p) + x
  BY <1>1 DEF Figures, Net
<1>3. q = [p EXCEPT !.grossProfit = profit, !.grossLoss = loss]
  BY <1>1 DEF RecordPartial, Figures
<1>4. s = [r EXCEPT !.d.grossProfit = profit, !.d.grossLoss = loss, !.pnl[m] = @ + x]
  BY <1>1 DEF PartialReplayed, PartialCloseRecorded, Replays, Figures
<1>5. s = [r EXCEPT !.d = d, !.pnl = moved]
  BY <1>1, <1>4 DEF Replays, Figures
<1>6. moved \in [MandateIds -> Int]
  BY <1>1
<1>7. d = [r.d EXCEPT !.grossProfit = profit, !.grossLoss = loss]
  OBVIOUS
<1> HIDE DEF d, profit, loss
<1>8. d = Changed(r.d, profit, loss, r.d.maxDrawdown, r.d.funded, r.d.active,
                  r.d.settledInProfit)
  BY <1>1, <1>7 DEF Figures, Changed
<1>9. q = Changed(p, profit, loss, p.maxDrawdown, p.funded, p.active, p.settledInProfit)
  BY <1>1, <1>3 DEF Figures, Changed
<1>10. d \in Figures /\ q \in Figures
  BY <1>1, <1>2, <1>8, <1>9 DEF Figures, Changed
<1> HIDE DEF moved
<1>11. /\ s \in Replays /\ s.d = d /\ s.known = r.known /\ s.unprovable = r.unprovable
       /\ s.pnl = moved
  BY <1>1, <1>5, <1>6, <1>10 DEF Replays
<1>12. Net(q) = Net(p) + x /\ q.ambiguous = p.ambiguous
  BY <1>2, <1>9 DEF Net, Changed
<1>13. /\ SameTrades(d, q) /\ d.untimed = q.untimed /\ d.ambiguous = q.ambiguous
       /\ d.settledInProfit = r.d.settledInProfit /\ q.settledInProfit = p.settledInProfit
  BY <1>8, <1>9 DEF SameTrades, Agree, Changed
<1> QED
  BY <1>10, <1>11, <1>12, <1>13 DEF Agree, moved

LEMMA ObservedAgrees ==
  ASSUME NEW p, NEW r, Agree(p, r), NEW m, m \in r.known, NEW x \in Int,
         NEW q, q = [p EXCEPT !.maxDrawdown = Larger(@, x)],
         NEW s, s = ObservedReplayed(r, EquityObserved(m, x))
  PROVE  /\ Agree(q, s) /\ Net(q) = Net(p) /\ q.ambiguous = p.ambiguous
         /\ s.known = r.known /\ s.unprovable = r.unprovable /\ s.pnl = r.pnl
<1> DEFINE w == Larger(p.maxDrawdown, x)
           d == [r.d EXCEPT !.maxDrawdown = w]
<1>1. /\ p \in Figures /\ r \in Replays /\ r.d \in Figures
      /\ p.maxDrawdown \in Int /\ r.d.maxDrawdown = p.maxDrawdown
  BY DEF Agree, Replays, Figures, SameTrades
<1>2. w \in Int
  BY <1>1, LargerInt
<1>3. s = [r EXCEPT !.d = d]
  BY <1>1 DEF ObservedReplayed, EquityObserved, Replays, Figures
<1>4. d = [r.d EXCEPT !.maxDrawdown = w] /\ q = [p EXCEPT !.maxDrawdown = w]
  OBVIOUS
<1> HIDE DEF d, w
<1>5. d = Changed(r.d, r.d.grossProfit, r.d.grossLoss, w, r.d.funded, r.d.active,
                  r.d.settledInProfit)
  BY <1>1, <1>4 DEF Figures, Changed
<1>6. q = Changed(p, p.grossProfit, p.grossLoss, w, p.funded, p.active, p.settledInProfit)
  BY <1>1, <1>4 DEF Figures, Changed
<1>7. d \in Figures /\ q \in Figures
  BY <1>1, <1>2, <1>5, <1>6 DEF Figures, Changed
<1>8. /\ s \in Replays /\ s.d = d /\ s.known = r.known /\ s.unprovable = r.unprovable
      /\ s.pnl = r.pnl
  BY <1>1, <1>3, <1>7 DEF Replays
<1>9. Net(q) = Net(p) /\ q.ambiguous = p.ambiguous
  BY <1>6 DEF Net, Changed
<1>10. /\ SameTrades(d, q) /\ d.untimed = q.untimed /\ d.ambiguous = q.ambiguous
       /\ d.settledInProfit = r.d.settledInProfit /\ q.settledInProfit = p.settledInProfit
  BY <1>5, <1>6 DEF SameTrades, Agree, Changed
<1> QED
  BY <1>7, <1>8, <1>9, <1>10 DEF Agree

FundedFigures(p) == [p EXCEPT !.funded = @ + 1, !.active = @ + 1]
SettledFigures(p, made) ==
    [p EXCEPT !.active = Larger(0, @ - 1), !.settledInProfit = IF made > 0 THEN @ + 1 ELSE @]

LEMMA FundedAgrees ==
  ASSUME NEW p, NEW r, Agree(p, r), NEW m \in MandateIds,
         NEW q, q = FundedFigures(p),
         NEW s, s = FundedReplayed(r, MandateFunded(m))
  PROVE  /\ Agree(q, s) /\ Net(q) = Net(p) /\ q.ambiguous = p.ambiguous
         /\ s.known = r.known \cup {m} /\ s.unprovable = r.unprovable /\ s.pnl = r.pnl
<1> DEFINE u == p.funded + 1
           v == p.active + 1
           d == [r.d EXCEPT !.funded = u, !.active = v]
           known == r.known \cup {m}
<1>1. /\ p \in Figures /\ r \in Replays /\ r.d \in Figures
      /\ r.d.funded = p.funded /\ r.d.active = p.active
  BY DEF Agree, Replays, SameTrades
<1>2. u \in Int /\ v \in Int /\ known \in SUBSET MandateIds
  BY <1>1 DEF Figures, Replays
<1>3. s = [r EXCEPT !.known = known, !.d = d]
  BY <1>1 DEF FundedReplayed, MandateFunded, Replays, Figures
<1>4. d = [r.d EXCEPT !.funded = u, !.active = v] /\ q = [p EXCEPT !.funded = u, !.active = v]
  BY DEF FundedFigures
<1> HIDE DEF d, u, v, known
<1>5. d = Changed(r.d, r.d.grossProfit, r.d.grossLoss, r.d.maxDrawdown, u, v,
                  r.d.settledInProfit)
  BY <1>1, <1>4 DEF Figures, Changed
<1>6. q = Changed(p, p.grossProfit, p.grossLoss, p.maxDrawdown, u, v, p.settledInProfit)
  BY <1>1, <1>4 DEF Figures, Changed
<1>7. d \in Figures /\ q \in Figures
  BY <1>1, <1>2, <1>5, <1>6 DEF Figures, Changed
<1>8. /\ s \in Replays /\ s.d = d /\ s.known = known /\ s.unprovable = r.unprovable
      /\ s.pnl = r.pnl
  BY <1>1, <1>2, <1>3, <1>7 DEF Replays
<1>9. Net(q) = Net(p) /\ q.ambiguous = p.ambiguous
  BY <1>6 DEF Net, Changed
<1>10. /\ SameTrades(d, q) /\ d.untimed = q.untimed /\ d.ambiguous = q.ambiguous
       /\ d.settledInProfit = r.d.settledInProfit /\ q.settledInProfit = p.settledInProfit
  <2>1. /\ SameTrades(r.d, p) /\ r.d.untimed = p.untimed /\ r.d.ambiguous = p.ambiguous
        /\ r.d.grossProfit = p.grossProfit /\ r.d.grossLoss = p.grossLoss
        /\ r.d.maxDrawdown = p.maxDrawdown
    BY DEF Agree, SameTrades
  <2>2. d = Changed(r.d, p.grossProfit, p.grossLoss, p.maxDrawdown, u, v, r.d.settledInProfit)
    BY <1>5, <2>1
  <2> QED
    BY ONLY <1>6, <2>1, <2>2 DEF SameTrades, Changed
<1> QED
  BY <1>7, <1>8, <1>9, <1>10 DEF Agree, known

(* The replay counts a profit by the results it has seen, the program by   *)
(* the mandate's own figure.                                               *)
LEMMA SettledAgrees ==
  ASSUME NEW p, NEW r, Agree(p, r), NEW m \in MandateIds, NEW made,
         m \notin r.unprovable => r.pnl[m] = made,
         NEW q, q = SettledFigures(p, made),
         NEW s, s = SettledReplayed(r, MandateSettled(m))
  PROVE  /\ Agree(q, s) /\ Net(q) = Net(p) /\ q.ambiguous = p.ambiguous
         /\ s.known = r.known /\ s.unprovable = r.unprovable /\ s.pnl = r.pnl
<1> DEFINE u == Larger(0, p.active - 1)
           v == IF made > 0 THEN p.settledInProfit + 1 ELSE p.settledInProfit
           w == IF r.pnl[m] > 0 THEN r.d.settledInProfit + 1 ELSE r.d.settledInProfit
           d == [r.d EXCEPT !.active = u, !.settledInProfit = w]
<1>1. p \in Figures /\ r \in Replays /\ r.d \in Figures /\ r.d.active = p.active
  BY DEF Agree, Replays, SameTrades
<1>2. u \in Int /\ v \in Int /\ w \in Int
  <2>1. p.active - 1 \in Int /\ 0 \in Int
    BY <1>1 DEF Figures
  <2>2. u \in Int
    BY <2>1, LargerInt
  <2>3. v \in Int /\ w \in Int
    BY <1>1 DEF Figures
  <2> QED
    BY <2>2, <2>3
<1>3. s = [r EXCEPT !.d = d]
  <2>1. s = [r EXCEPT !.d.active = u, !.d.settledInProfit = w]
    BY <1>1 DEF SettledReplayed, MandateSettled, Replays, Figures
  <2> HIDE DEF u, w
  <2> QED
    BY <1>1, <2>1 DEF Replays, Figures
<1>4. r.unprovable = {} => (r.d.settledInProfit = p.settledInProfit => w = v)
  OBVIOUS
<1>5. d = [r.d EXCEPT !.active = u, !.settledInProfit = w]
  OBVIOUS
<1>6. q = [p EXCEPT !.active = u, !.settledInProfit = v]
  <2>1. q.settledInProfit = v /\ q.active = u
    BY <1>1 DEF Figures, SettledFigures
  <2> QED
    BY <1>1, <2>1 DEF Figures, SettledFigures
<1> HIDE DEF d, u, v, w
<1>7. d = Changed(r.d, r.d.grossProfit, r.d.grossLoss, r.d.maxDrawdown, r.d.funded, u, w)
  BY <1>1, <1>5 DEF Figures, Changed
<1>8. q = Changed(p, p.grossProfit, p.grossLoss, p.maxDrawdown, p.funded, u, v)
  BY <1>1, <1>6 DEF Figures, Changed
<1>9. d \in Figures /\ q \in Figures
  BY <1>1, <1>2, <1>7, <1>8 DEF Figures, Changed
<1>10. /\ s \in Replays /\ s.d = d /\ s.known = r.known /\ s.unprovable = r.unprovable
       /\ s.pnl = r.pnl
  BY <1>1, <1>3, <1>9 DEF Replays
<1>11. Net(q) = Net(p) /\ q.ambiguous = p.ambiguous
  BY <1>8 DEF Net, Changed
<1>12. /\ SameTrades(d, q) /\ d.untimed = q.untimed /\ d.ambiguous = q.ambiguous
       /\ d.settledInProfit = w /\ q.settledInProfit = v
  <2>1. /\ SameTrades(r.d, p) /\ r.d.untimed = p.untimed /\ r.d.ambiguous = p.ambiguous
        /\ r.d.grossProfit = p.grossProfit /\ r.d.grossLoss = p.grossLoss
        /\ r.d.maxDrawdown = p.maxDrawdown /\ r.d.funded = p.funded
    BY DEF Agree, SameTrades
  <2>2. d = Changed(r.d, p.grossProfit, p.grossLoss, p.maxDrawdown, p.funded, u, w)
    BY <1>7, <2>1
  <2> QED
    BY ONLY <1>8, <2>1, <2>2 DEF SameTrades, Changed
<1> QED
  BY <1>4, <1>9, <1>10, <1>11, <1>12 DEF Agree

-----------------------------------------------------------------------------
(* The trades of a batch and the events of a transaction, one by one *)

Follows(g, a, f, n) == g[0] = a /\ \A i \in 1..n : g[i] = f[i][g[i - 1]]

LEMMA RecursionExists ==
  ASSUME NEW S, NEW n \in Nat, NEW a \in S, NEW f \in [1..n -> [S -> S]]
  PROVE  \E g \in [0..n -> S] : Follows(g, a, f, n)
<1> DEFINE Rec(g, m) == g[0] = a /\ \A i \in 1..m : g[i] = f[i][g[i - 1]]
           Reached == {m \in 0..n : \E g \in [0..m -> S] : Rec(g, m)}
<1>1. 0 \in Reached
  <2> DEFINE g == [i \in 0..0 |-> a]
  <2>1. g \in [0..0 -> S] /\ Rec(g, 0)
    OBVIOUS
  <2> HIDE DEF g
  <2>2. 0 \in 0..n
    OBVIOUS
  <2> QED
    BY <2>1, <2>2
<1>2. ASSUME NEW m \in 1..n, m - 1 \in Reached
      PROVE  m \in Reached
  <2>1. PICK g \in [0..(m - 1) -> S] : Rec(g, m - 1)
    BY <1>2
  <2> DEFINE next == f[m][g[m - 1]]
             h == [i \in 0..m |-> IF i = m THEN next ELSE g[i]]
  <2>2. next \in S
    BY <2>1
  <2> HIDE DEF next
  <2>3. h \in [0..m -> S]
    <3>1. ASSUME NEW i \in 0..m
          PROVE  (IF i = m THEN next ELSE g[i]) \in S
      <4>1. i # m => i \in 0..(m - 1)
        OBVIOUS
      <4> QED
        BY <2>2, <4>1
    <3> QED
      BY <3>1
  <2>4. h[0] = a
    BY <2>1
  <2>5. ASSUME NEW i \in 1..m
        PROVE  h[i] = f[i][h[i - 1]]
    <3>1. i - 1 \in 0..m /\ i - 1 # m /\ h[i - 1] = g[i - 1]
      OBVIOUS
    <3>2. CASE i = m
      BY <3>1, <3>2 DEF next
    <3>3. CASE i # m
      <4>1. i \in 1..(m - 1) /\ i \in 0..m
        BY <3>3
      <4> QED
        BY <2>1, <3>1, <3>3, <4>1
    <3> QED
      BY <3>2, <3>3
  <2>6. m \in 0..n
    OBVIOUS
  <2> QED
    BY <2>3, <2>4, <2>5, <2>6
<1>3. n \in Reached
  <2> HIDE DEF Reached
  <2>1. \A m \in 0..n : m \in Reached
    BY <1>1, <1>2, InductionUpTo
  <2> QED
    BY <2>1
<1> QED
  BY <1>3 DEF Follows

TradesFrom(p, x, n, h) ==
    /\ h[0] = p
    /\ \A i \in 1..n : h[i] = RecordTrade(h[i - 1], x[i], 0)
    /\ TradesRecorded(p, x, n) = h[n]

LEMMA TradesOneByOne ==
  ASSUME NEW p \in Figures, NEW n \in Nat, NEW x \in [1..n -> Int]
  PROVE  \E h \in [0..n -> Figures] : TradesFrom(p, x, n, h)
<1>0. ASSUME NEW i \in 1..n, NEW q \in Figures
      PROVE  RecordTrade(q, x[i], 0) \in Figures
  <2>1. x[i] \in Int /\ 0 \in Int /\ 0 \in Nat
    OBVIOUS
  <2>2. RecordTrade(q, x[i], 0) = Counted(q, x[i], 0, 0, 0)
    BY <2>1, TradeCounted
  <2> QED
    BY <2>1, <2>2, CountedTyped
<1> DEFINE f == [i \in 1..n |-> [q \in Figures |-> RecordTrade(q, x[i], 0)]]
<1>1. f \in [1..n -> [Figures -> Figures]]
  BY <1>0
<1>2. \A i \in 1..n, q \in Figures : f[i][q] = RecordTrade(q, x[i], 0)
  OBVIOUS
<1> HIDE DEF f
<1>3. PICK w \in [0..n -> Figures] : Follows(w, p, f, n)
  BY <1>1, RecursionExists
<1>4. w = [i \in 0..n |-> IF i = 0 THEN p ELSE RecordTrade(w[i - 1], x[i], 0)]
  <2>1. ASSUME NEW i \in 0..n
        PROVE  w[i] = IF i = 0 THEN p ELSE RecordTrade(w[i - 1], x[i], 0)
    <3>1. CASE i = 0
      BY <1>3, <3>1 DEF Follows
    <3>2. CASE i # 0
      <4>1. i \in 1..n /\ i - 1 \in 0..n
        BY <3>2
      <4> QED
        BY <1>2, <1>3, <3>2, <4>1 DEF Follows
    <3> QED
      BY <3>1, <3>2
  <2> QED
    BY <2>1
<1> DEFINE g == CHOOSE g : g = [i \in 0..n |-> IF i = 0 THEN p ELSE RecordTrade(g[i - 1], x[i], 0)]
<1>5. g = [i \in 0..n |-> IF i = 0 THEN p ELSE RecordTrade(g[i - 1], x[i], 0)]
  BY <1>4
<1>6. TradesRecorded(p, x, n) = g[n]
  BY <1>5 DEF TradesRecorded
<1> HIDE DEF g
<1>7. g[0] = p /\ \A i \in 1..n : g[i] = RecordTrade(g[i - 1], x[i], 0)
  <2>1. \A i \in 0..n : g[i] = IF i = 0 THEN p ELSE RecordTrade(g[i - 1], x[i], 0)
    BY <1>5
  <2> QED
    BY <2>1
<1>8. g \in [0..n -> Figures]
  <2> DEFINE T == {i \in 0..n : g[i] \in Figures}
  <2>1. 0 \in T
    BY <1>7
  <2>2. ASSUME NEW m \in 1..n, m - 1 \in T
        PROVE  m \in T
    <3>1. m \in 0..n /\ g[m - 1] \in Figures /\ g[m] = RecordTrade(g[m - 1], x[m], 0)
      BY <1>7, <2>2
    <3> QED
      BY <1>0, <3>1
  <2>3. \A m \in 0..n : m \in T
    <3> HIDE DEF T
    <3> QED
      BY <2>1, <2>2, InductionUpTo
  <2>4. DOMAIN g = 0..n /\ g = [i \in DOMAIN g |-> g[i]]
    BY <1>5
  <2> QED
    BY <2>3, <2>4
<1> QED
  BY <1>6, <1>7, <1>8 DEF TradesFrom

Replayable(tx, n) ==
    /\ Len(tx) = n
    /\ \A i \in 1..n, q \in Replays : EventReplayed(q, tx[i], tx) \in Replays

EventsFrom(r, tx, n, g) ==
    /\ g[0] = r
    /\ \A i \in 1..n : g[i] = EventReplayed(g[i - 1], tx[i], tx)
    /\ EventsReplayed(r, tx) = g[n]

LEMMA EventsOneByOne ==
  ASSUME NEW r \in Replays, NEW tx, NEW n \in Nat, Replayable(tx, n)
  PROVE  \E g \in [0..n -> Replays] : EventsFrom(r, tx, n, g)
<1>0. Len(tx) = n /\ \A i \in 1..n, q \in Replays : EventReplayed(q, tx[i], tx) \in Replays
  BY DEF Replayable
<1> DEFINE f == [i \in 1..n |-> [q \in Replays |-> EventReplayed(q, tx[i], tx)]]
<1>1. f \in [1..n -> [Replays -> Replays]]
  BY <1>0
<1>2. \A i \in 1..n, q \in Replays : f[i][q] = EventReplayed(q, tx[i], tx)
  OBVIOUS
<1> HIDE DEF f
<1>3. PICK w \in [0..n -> Replays] : Follows(w, r, f, n)
  BY <1>1, RecursionExists
<1>4. w = [i \in 0..n |-> IF i = 0 THEN r ELSE EventReplayed(w[i - 1], tx[i], tx)]
  <2>1. ASSUME NEW i \in 0..n
        PROVE  w[i] = IF i = 0 THEN r ELSE EventReplayed(w[i - 1], tx[i], tx)
    <3>1. CASE i = 0
      BY <1>3, <3>1 DEF Follows
    <3>2. CASE i # 0
      <4>1. i \in 1..n /\ i - 1 \in 0..n
        BY <3>2
      <4> QED
        BY <1>2, <1>3, <3>2, <4>1 DEF Follows
    <3> QED
      BY <3>1, <3>2
  <2> QED
    BY <2>1
<1> DEFINE g == CHOOSE g : g = [i \in 0..n |->
                                  IF i = 0 THEN r ELSE EventReplayed(g[i - 1], tx[i], tx)]
<1>5. g = [i \in 0..n |-> IF i = 0 THEN r ELSE EventReplayed(g[i - 1], tx[i], tx)]
  BY <1>4
<1>6. EventsReplayed(r, tx) = g[n]
  BY <1>0, <1>5 DEF EventsReplayed
<1> HIDE DEF g
<1>7. g[0] = r /\ \A i \in 1..n : g[i] = EventReplayed(g[i - 1], tx[i], tx)
  <2>1. \A i \in 0..n : g[i] = IF i = 0 THEN r ELSE EventReplayed(g[i - 1], tx[i], tx)
    BY <1>5
  <2> QED
    BY <2>1
<1>8. g \in [0..n -> Replays]
  <2> DEFINE T == {i \in 0..n : g[i] \in Replays}
  <2>1. 0 \in T
    BY <1>7
  <2>2. ASSUME NEW m \in 1..n, m - 1 \in T
        PROVE  m \in T
    <3>1. m \in 0..n /\ g[m - 1] \in Replays
          /\ g[m] = EventReplayed(g[m - 1], tx[m], tx)
      BY <1>7, <2>2
    <3> QED
      BY <1>0, <3>1
  <2>3. \A m \in 0..n : m \in T
    <3> HIDE DEF T
    <3> QED
      BY <2>1, <2>2, InductionUpTo
  <2>4. DOMAIN g = 0..n /\ g = [i \in DOMAIN g |-> g[i]]
    BY <1>5
  <2> QED
    BY <2>3, <2>4
<1> QED
  BY <1>6, <1>7, <1>8 DEF EventsFrom

(* A transaction of one event that is not of a reconcile. *)
LEMMA SingleReplayed ==
  ASSUME NEW r \in Replays, NEW e, e.name # "PositionReconciled",
         NEW s \in Replays, s = EventReplayed(r, e, <<e>>)
  PROVE  Replayed(r, <<e>>) = s
<1> DEFINE tx == <<e>>
           w  == [i \in 0..1 |-> IF i = 0 THEN r ELSE s]
<1>1. Len(tx) = 1 /\ tx[1] = e /\ DOMAIN tx = {1}
  OBVIOUS
<1>2. w = [i \in 0..1 |-> IF i = 0 THEN r ELSE EventReplayed(w[i - 1], tx[i], tx)]
  <2>1. \A i \in 0..1 : i # 0 => i = 1
    OBVIOUS
  <2> QED
    BY <2>1
<1> DEFINE g == CHOOSE g : g = [i \in 0..1 |->
                                  IF i = 0 THEN r ELSE EventReplayed(g[i - 1], tx[i], tx)]
<1>3. g = [i \in 0..1 |-> IF i = 0 THEN r ELSE EventReplayed(g[i - 1], tx[i], tx)]
  <2> HIDE DEF tx, w
  <2> QED
    BY <1>2
<1>4. EventsReplayed(r, tx) = g[1]
  BY <1>1, <1>3 DEF EventsReplayed
<1>5. g[1] = s
  <2> HIDE DEF g, tx
  <2>1. g[0] = r /\ g[1] = EventReplayed(g[0], tx[1], tx)
    BY <1>3
  <2> QED
    BY <1>1, <2>1 DEF tx
<1>6. \A m \in MandateIds : ~Unprovable(tx, m)
  <2> SUFFICES ASSUME NEW m \in MandateIds PROVE ClosedTogether(tx, m) = 0
    BY DEF Unprovable
  <2>1. {i \in DOMAIN tx : tx[i] = PositionReconciled(m)} = {}
    BY <1>1 DEF PositionReconciled
  <2> QED
    BY <2>1, FS_EmptySet DEF ClosedTogether
<1> HIDE DEF g, tx
<1>7. DOMAIN r.pnl = MandateIds
  BY DEF Replays
<1>8. Replayed(r, tx) = [s EXCEPT !.unprovable = @ \cup {}]
  <2>1. {m \in DOMAIN r.pnl : Unprovable(tx, m)} = {}
    BY <1>6, <1>7
  <2> QED
    BY <1>4, <1>5, <2>1 DEF Replayed
<1>9. [s EXCEPT !.unprovable = @ \cup {}] = s
  BY DEF Replays
<1> QED
  BY <1>8, <1>9 DEF tx

-----------------------------------------------------------------------------
(* A reconcile: a batch of n trades, each with its event and its mark *)

Batch(m, n, x) ==
    [j \in 1..2 * n |-> IF j % 2 = 1 THEN TradeRecorded(m, x[(j + 1) \div 2], 0)
                        ELSE PositionReconciled(m)]

IsBatch(b, m, n, x) ==
    /\ Len(b) = 2 * n /\ DOMAIN b = 1..2 * n
    /\ \A i \in 1..n : /\ 2 * i - 1 \in 1..2 * n /\ 2 * i \in 1..2 * n
                       /\ b[2 * i - 1] = TradeRecorded(m, x[i], 0)
                       /\ b[2 * i] = PositionReconciled(m)
    /\ \A j \in 1..2 * n : \E i \in 1..n : j = 2 * i - 1 \/ j = 2 * i

LEMMA BatchEvents ==
  ASSUME NEW m, NEW n \in Nat, NEW x
  PROVE  IsBatch(Batch(m, n, x), m, n, x)
<1> DEFINE b == Batch(m, n, x)
<1>1. DOMAIN b = 1..2 * n /\ 2 * n \in Nat
  BY DEF Batch
<1>2. Len(b) = 2 * n
  <2>1. \A k \in Nat : DOMAIN b = 1..k => Len(b) = k
    <3> DEFINE S == {b[j] : j \in 1..2 * n}
    <3>1. b = [j \in 1..2 * n |-> b[j]]
      BY DEF Batch
    <3>2. b \in Seq(S)
      <4> HIDE DEF b
      <4> QED
        BY <1>1, <3>1
    <3> HIDE DEF b, S
    <3> QED
      BY <3>2
  <2> HIDE DEF b
  <2> QED
    BY <1>1, <2>1
<1>3. ASSUME NEW i \in 1..n
      PROVE  /\ 2 * i - 1 \in 1..2 * n /\ 2 * i \in 1..2 * n
             /\ b[2 * i - 1] = TradeRecorded(m, x[i], 0)
             /\ b[2 * i] = PositionReconciled(m)
  <2>1. 2 * i - 1 \in 1..2 * n /\ 2 * i \in 1..2 * n
    OBVIOUS
  <2>2. (2 * i - 1) % 2 = 1 /\ ((2 * i - 1) + 1) \div 2 = i /\ (2 * i) % 2 = 0
    OBVIOUS
  <2> QED
    BY <2>1, <2>2 DEF Batch
<1>4. ASSUME NEW j \in 1..2 * n
      PROVE  \E i \in 1..n : j = 2 * i - 1 \/ j = 2 * i
  <2> DEFINE i == (j + 1) \div 2
  <2>1. i \in 1..n /\ (j = 2 * i - 1 \/ j = 2 * i)
    OBVIOUS
  <2> QED
    BY <2>1
<1> HIDE DEF b
<1>5. IsBatch(b, m, n, x)
  BY <1>1, <1>2, <1>3, <1>4 DEF IsBatch
<1> QED
  BY <1>5 DEF b

LEMMA BatchClosed ==
  ASSUME NEW m, NEW n \in Nat, NEW x, NEW k, NEW b, IsBatch(b, m, n, x)
  PROVE  ClosedTogether(b, k) = IF k = m THEN n ELSE 0
<1> DEFINE marks == {j \in DOMAIN b : b[j] = PositionReconciled(k)}
<1>1. /\ DOMAIN b = 1..2 * n
      /\ \A i \in 1..n : /\ 2 * i - 1 \in 1..2 * n /\ 2 * i \in 1..2 * n
                         /\ b[2 * i - 1] = TradeRecorded(m, x[i], 0)
                         /\ b[2 * i] = PositionReconciled(m)
      /\ \A j \in 1..2 * n : \E i \in 1..n : j = 2 * i - 1 \/ j = 2 * i
  BY DEF IsBatch
<1>2. \A y, h : TradeRecorded(m, y, h) # PositionReconciled(k)
  BY DEF TradeRecorded, PositionReconciled
<1>3. PositionReconciled(m) = PositionReconciled(k) <=> m = k
  BY DEF PositionReconciled
<1>4. CASE k # m
  <2>1. marks = {}
    BY <1>1, <1>2, <1>3, <1>4
  <2> QED
    BY <1>4, <2>1, FS_EmptySet DEF ClosedTogether
<1>5. CASE k = m
  <2> DEFINE even == {2 * i : i \in 1..n}
  <2>1. \A i \in 1..n : 2 * i \in marks
    BY <1>1, <1>5
  <2>2. ASSUME NEW j \in marks PROVE \E i \in 1..n : j = 2 * i
    <3>1. j \in 1..2 * n /\ b[j] = PositionReconciled(m)
      BY <1>1, <1>5
    <3>2. PICK i \in 1..n : j = 2 * i - 1 \/ j = 2 * i
      BY <1>1, <3>1
    <3>3. b[2 * i - 1] # PositionReconciled(m)
      BY <1>1, <1>2, <1>5
    <3> QED
      BY <3>1, <3>2, <3>3
  <2>3. marks = even
    <3> HIDE DEF marks
    <3> QED
      BY <2>1, <2>2
  <2> HIDE DEF marks
  <2> DEFINE f == [i \in 1..n |-> 2 * i]
  <2>4. f \in Bijection(1..n, marks)
    <3>1. f \in [1..n -> marks]
      BY <2>3
    <3>2. \A i, j \in 1..n : f[i] = f[j] => i = j
      OBVIOUS
    <3>3. \A y \in marks : \E i \in 1..n : f[i] = y
      BY <2>3
    <3> HIDE DEF f
    <3> QED
      BY <3>1, <3>2, <3>3 DEF Bijection, Injection, Surjection, IsInjective
  <2>5. ExistsBijection(1..n, marks)
    BY <2>4 DEF ExistsBijection
  <2>6. IsFiniteSet(1..n) /\ Cardinality(1..n) = n
    <3>1. IsFiniteSet(1..n) /\ Cardinality(1..n) = IF 1 > n THEN 0 ELSE n - 1 + 1
      BY FS_Interval
    <3> QED
      BY <3>1
  <2>7. Cardinality(marks) = n
    BY <2>5, <2>6, FS_Bijection
  <2> QED
    BY <1>5, <2>7 DEF ClosedTogether, marks
<1> QED
  BY <1>4, <1>5

(* Only the first trade of a batch can have a result. *)
LEMMA BatchTotal ==
  ASSUME NEW m, NEW n \in Nat \ {0}, NEW x \in [1..n -> Int], \A i \in 1..n : i # 1 => x[i] = 0,
         NEW b, IsBatch(b, m, n, x)
  PROVE  RecordedTogether(b, m) = x[1]
<1> DEFINE f == [i \in 1..2 * n |-> IF b[i].name = "TradeRecorded" /\ b[i].mandate = m
                                    THEN b[i].pnl ELSE 0]
           z == [i \in 1..2 * n |-> 0]
<1>1. RecordedTogether(b, m) = SumTo(f, 2 * n)
  BY DEF RecordedTogether, IsBatch
<1>2. ASSUME NEW i \in 1..n
      PROVE  f[2 * i - 1] = x[i] /\ f[2 * i] = 0
  <2>1. /\ 2 * i - 1 \in 1..2 * n /\ 2 * i \in 1..2 * n
        /\ b[2 * i - 1] = TradeRecorded(m, x[i], 0) /\ b[2 * i] = PositionReconciled(m)
    BY DEF IsBatch
  <2> DEFINE j == 2 * i - 1
             k == 2 * i
  <2>2. j \in 1..2 * n /\ k \in 1..2 * n /\ b[j] = TradeRecorded(m, x[i], 0)
        /\ b[k] = PositionReconciled(m)
    BY <2>1
  <2> HIDE DEF j, k
  <2>3. f[j] = x[i] /\ f[k] = 0
    BY <2>2 DEF TradeRecorded, PositionReconciled
  <2> QED
    BY <2>3 DEF j, k
<1>3. \A j \in 1..2 * n : f[j] = IF j = 1 THEN x[1] ELSE 0
  <2> SUFFICES ASSUME NEW j \in 1..2 * n PROVE f[j] = IF j = 1 THEN x[1] ELSE 0
    OBVIOUS
  <2> HIDE DEF f
  <2>1. PICK i \in 1..n : j = 2 * i - 1 \/ j = 2 * i
    BY DEF IsBatch
  <2>2. CASE j = 2 * i - 1
    <3>1. f[j] = x[i] /\ (j = 1 <=> i = 1)
      BY <1>2, <2>2
    <3> QED
      BY <3>1
  <2>3. CASE j = 2 * i
    <3>1. f[j] = 0
      BY <1>2, <2>3
    <3>2. j # 1
      <4>1. i \in Nat /\ i >= 1
        OBVIOUS
      <4> QED
        BY ONLY <2>3, <4>1
    <3> QED
      BY <3>1, <3>2
  <2> QED
    BY <2>1, <2>2, <2>3
<1>4. f = [z EXCEPT ![1] = x[1]]
  <2>1. f = [i \in 1..2 * n |-> f[i]]
    OBVIOUS
  <2> HIDE DEF f
  <2> QED
    BY <1>3, <2>1
<1>5. z \in [1..2 * n -> Int] /\ (\A i \in 1..2 * n : z[i] = 0) /\ 2 * n \in Nat
      /\ 1 \in 1..2 * n /\ x[1] \in Int
  OBVIOUS
<1> HIDE DEF f, z
<1>6. SumTo(z, 2 * n) = 0
  BY <1>5, SumZero
<1>7. SumTo(f, 2 * n) = SumTo(z, 2 * n) - z[1] + x[1]
  BY <1>4, <1>5, SumUpdate
<1> QED
  BY <1>1, <1>5, <1>6, <1>7

(* Where the two stand after i trades of a batch of n, of total t so far.  *)
Midway(g, h, p, r, m, n, i, t) ==
    /\ g \in Replays /\ h \in Figures
    /\ SameTrades(g.d, h)
    /\ g.d.untimed = p.untimed + i /\ h.untimed = p.untimed + n
    /\ g.d.ambiguous = p.ambiguous + (IF n > 1 THEN i ELSE 0)
    /\ h.ambiguous = p.ambiguous + (IF n > 1 THEN n ELSE 0)
    /\ g.d.settledInProfit = r.d.settledInProfit /\ h.settledInProfit = p.settledInProfit
    /\ g.known = r.known /\ g.unprovable = r.unprovable
    /\ g.pnl = [r.pnl EXCEPT ![m] = @ + t]
    /\ Net(h) = Net(p) + t

LEMMA BatchStep ==
  ASSUME NEW p \in Figures, NEW r \in Replays, NEW m \in MandateIds, NEW n \in Nat \ {0},
         NEW i \in Nat, NEW t \in Int, NEW y \in Int, NEW g, NEW h,
         Midway(g, h, p, r, m, n, i, t),
         NEW e, e = TradeReplayed(g, TradeRecorded(m, y, 0), n),
         NEW k, k = RecordTrade(h, y, 0)
  PROVE  Midway(e, k, p, r, m, n, i + 1, t + y)
<1>1. g \in Replays /\ h \in Figures /\ g.d \in Figures /\ 0 \in Int /\ 0 \in Nat /\ n \in Nat
  BY DEF Midway, Replays
<1>2. k = Counted(h, y, 0, 0, 0)
  BY <1>1, TradeCounted
<1>3. k \in Figures /\ Net(k) = Net(h) + y
  BY <1>1, <1>2, CountedTyped
<1> DEFINE more == IF n > 1 THEN 1 ELSE 0
<1>4. /\ e \in Replays /\ e.d = Counted(g.d, y, 0, 1, more)
      /\ e.known = g.known /\ e.unprovable = g.unprovable
      /\ e.pnl = [g.pnl EXCEPT ![m] = @ + y]
  <2>1. /\ e \in Replays
        /\ e.d = Counted(g.d, y, 0, IF n > 0 THEN 1 ELSE 0, IF n > 1 THEN 1 ELSE 0)
        /\ e.known = g.known /\ e.unprovable = g.unprovable
        /\ e.pnl = [g.pnl EXCEPT ![m] = @ + y]
    BY <1>1, TradeFollowed
  <2>2. n > 0
    OBVIOUS
  <2> QED
    BY <2>1, <2>2
<1>5. SameTrades(e.d, k)
  <2>1. SameTrades(g.d, h)
    BY DEF Midway
  <2> HIDE DEF more
  <2> QED
    BY <1>1, <1>2, <1>4, <2>1, CountedSame
<1>6. /\ e.d.untimed = g.d.untimed + 1 /\ e.d.ambiguous = g.d.ambiguous + more
      /\ e.d.settledInProfit = g.d.settledInProfit
      /\ k.untimed = h.untimed + 0 /\ k.ambiguous = h.ambiguous + 0
      /\ k.settledInProfit = h.settledInProfit
  <2> HIDE DEF more
  <2> QED
    BY ONLY <1>2, <1>4 DEF Counted
<1>7. /\ e.d.untimed = p.untimed + (i + 1) /\ k.untimed = p.untimed + n
      /\ e.d.ambiguous = p.ambiguous + (IF n > 1 THEN i + 1 ELSE 0)
      /\ k.ambiguous = p.ambiguous + (IF n > 1 THEN n ELSE 0)
  <2>1. /\ g.d.untimed = p.untimed + i /\ h.untimed = p.untimed + n
        /\ g.d.ambiguous = p.ambiguous + (IF n > 1 THEN i ELSE 0)
        /\ h.ambiguous = p.ambiguous + (IF n > 1 THEN n ELSE 0)
    BY DEF Midway
  <2>2. p.untimed \in Int /\ p.ambiguous \in Int
    BY DEF Figures
  <2> QED
    BY <1>6, <2>1, <2>2
<1>8. e.pnl = [r.pnl EXCEPT ![m] = @ + (t + y)]
  <2>1. g.pnl = [r.pnl EXCEPT ![m] = @ + t] /\ r.pnl \in [MandateIds -> Int]
    BY DEF Midway, Replays
  <2>2. (r.pnl[m] + t) + y = r.pnl[m] + (t + y)
    BY <2>1
  <2> QED
    BY <1>4, <2>1, <2>2
<1>9. Net(k) = Net(p) + (t + y)
  <2>1. Net(p) \in Int /\ Net(h) = Net(p) + t
    BY DEF Midway, Net, Figures
  <2> QED
    BY <1>3, <2>1
<1>10. /\ e.d.settledInProfit = r.d.settledInProfit /\ k.settledInProfit = p.settledInProfit
       /\ e.known = r.known /\ e.unprovable = r.unprovable
  BY <1>4, <1>6 DEF Midway
<1> QED
  BY <1>3, <1>4, <1>5, <1>7, <1>8, <1>9, <1>10 DEF Midway

OnlyFirst(x, n) == x \in [1..n -> Int] /\ \A i \in 1..n : i # 1 => x[i] = 0

BatchFigures(p, n) ==
    [p EXCEPT !.untimed = @ + n, !.ambiguous = IF n > 1 THEN @ + n ELSE @]

LEMMA BatchReplayed ==
  ASSUME NEW p, NEW r, Agree(p, r), NEW m \in MandateIds, NEW n \in Nat \ {0},
         NEW x, OnlyFirst(x, n), NEW b, IsBatch(b, m, n, x), NEW w, w = BatchFigures(p, n),
         NEW q, q = TradesRecorded(w, x, n), NEW s, s = Replayed(r, b)
  PROVE  /\ Agree(q, s) /\ Net(q) = Net(p) + x[1]
         /\ q.ambiguous = p.ambiguous + (IF n > 1 THEN n ELSE 0)
         /\ s.known = r.known /\ s.pnl = [r.pnl EXCEPT ![m] = @ + x[1]]
         /\ s.unprovable = r.unprovable \cup (IF n > 1 /\ x[1] = 0 THEN {m} ELSE {})
<1> DEFINE more == IF n > 1 THEN n ELSE 0
<1>0. x \in [1..n -> Int] /\ \A i \in 1..n : i # 1 => x[i] = 0
  BY DEF OnlyFirst
<1>1. p \in Figures /\ r \in Replays /\ n \in Nat /\ 1 \in 1..n /\ x[1] \in Int
      /\ 2 * n \in Nat /\ more \in Nat
  BY <1>0 DEF Agree
<1>2. /\ w \in Figures /\ SameTrades(w, p) /\ w.untimed = p.untimed + n
      /\ w.ambiguous = p.ambiguous + more /\ w.settledInProfit = p.settledInProfit
      /\ Net(w) = Net(p)
  <2>1. p.untimed \in Int /\ p.ambiguous \in Nat /\ n \in Int
    BY <1>1 DEF Figures
  <2>2. p.untimed + n \in Int /\ p.ambiguous + more \in Nat
    BY ONLY <1>1, <2>1
  <2>3. (IF n > 1 THEN p.ambiguous + n ELSE p.ambiguous) = p.ambiguous + more
    BY ONLY <1>1, <2>1
  <2>4. w = [p EXCEPT !.untimed = p.untimed + n, !.ambiguous = p.ambiguous + more]
    BY <2>3 DEF BatchFigures
  <2> HIDE DEF more
  <2> QED
    BY ONLY <1>1, <2>2, <2>4 DEF Figures, SameTrades, Net
<1>3. /\ Len(b) = 2 * n /\ DOMAIN b = 1..2 * n
      /\ \A i \in 1..n : /\ 2 * i - 1 \in 1..2 * n /\ 2 * i \in 1..2 * n
                         /\ b[2 * i - 1] = TradeRecorded(m, x[i], 0)
                         /\ b[2 * i] = PositionReconciled(m)
      /\ \A j \in 1..2 * n : \E i \in 1..n : j = 2 * i - 1 \/ j = 2 * i
  BY DEF IsBatch
<1>4. \A k : ClosedTogether(b, k) = IF k = m THEN n ELSE 0
  BY <1>1, BatchClosed
<1>5. ASSUME NEW i \in 1..n, NEW a
      PROVE  /\ EventReplayed(a, b[2 * i - 1], b) = TradeReplayed(a, TradeRecorded(m, x[i], 0), n)
             /\ EventReplayed(a, b[2 * i], b) = a
  <2>1. /\ TradeRecorded(m, x[i], 0).name = "TradeRecorded"
        /\ TradeRecorded(m, x[i], 0).mandate = m
        /\ PositionReconciled(m).name = "PositionReconciled"
    BY DEF TradeRecorded, PositionReconciled
  <2> QED
    BY <1>3, <1>4, <2>1 DEF EventReplayed
<1>6. ASSUME NEW j \in 1..2 * n, NEW a \in Replays
      PROVE  EventReplayed(a, b[j], b) \in Replays
  <2>1. PICK i \in 1..n : j = 2 * i - 1 \/ j = 2 * i
    BY <1>3
  <2>2. TradeReplayed(a, TradeRecorded(m, x[i], 0), n) \in Replays
    <3>1. x[i] \in Int /\ 0 \in Int
      BY <1>0
    <3> QED
      BY <1>1, <3>1, TradeFollowed
  <2> QED
    BY <1>5, <2>1, <2>2
<1>7. PICK h \in [0..n -> Figures] : TradesFrom(w, x, n, h)
  BY ONLY <1>0, <1>1, <1>2, TradesOneByOne
<1>8. PICK g \in [0..2 * n -> Replays] : EventsFrom(r, b, 2 * n, g)
  <2>1. Replayable(b, 2 * n)
    BY <1>3, <1>6 DEF Replayable
  <2> QED
    BY ONLY <1>1, <2>1, EventsOneByOne
<1> DEFINE t(i) == IF i = 0 THEN 0 ELSE x[1]
           T == {i \in 0..n : Midway(g[2 * i], h[i], p, r, m, n, i, t(i))}
<1>9. 0 \in T
  <2>1. r.d \in Figures /\ r.pnl \in [MandateIds -> Int]
    BY <1>1 DEF Replays
  <2>2. r.pnl = [r.pnl EXCEPT ![m] = @ + 0]
    <3>1. r.pnl[m] + 0 = r.pnl[m]
      BY ONLY <2>1, m \in MandateIds
    <3> QED
      BY ONLY <2>1, <3>1
  <2>3. SameTrades(r.d, w)
    <3>1. SameTrades(r.d, p)
      BY DEF Agree
    <3> QED
      BY ONLY <1>2, <3>1 DEF SameTrades
  <2>4. Net(w) = Net(p) + 0 /\ r.d.untimed = p.untimed + 0
        /\ r.d.ambiguous = p.ambiguous + (IF n > 1 THEN 0 ELSE 0)
    <3>1. r.d.untimed = p.untimed /\ r.d.ambiguous = p.ambiguous
      BY DEF Agree
    <3>2. Net(p) \in Int /\ p.untimed \in Int /\ p.ambiguous \in Int
      BY ONLY <1>1 DEF Net, Figures
    <3> QED
      BY ONLY <1>2, <3>1, <3>2
  <2>5. 2 * 0 = 0 /\ 0 \in 0..n /\ t(0) = 0
    OBVIOUS
  <2>6. CASE r.d.settledInProfit = r.d.settledInProfit
    BY <1>1, <1>2, <1>7, <1>8, <2>2, <2>3, <2>4, <2>5 DEF Midway, TradesFrom, EventsFrom
  <2> QED
    BY <2>6
<1>10. ASSUME NEW i \in 1..n, i - 1 \in T
       PROVE  i \in T
  <2> DEFINE y == x[i]
             u == t(i - 1)
             before == g[2 * (i - 1)]
             after  == g[2 * i]
             past   == h[i - 1]
             now1   == h[i]
  <2>1. Midway(before, past, p, r, m, n, i - 1, u)
    BY <1>10
  <2>2. after = TradeReplayed(before, TradeRecorded(m, y, 0), n)
    <3>1. /\ 2 * i - 1 \in 1..2 * n /\ 2 * i \in 1..2 * n
          /\ (2 * i) - 1 = 2 * i - 1 /\ (2 * i - 1) - 1 = 2 * (i - 1)
      OBVIOUS
    <3>2. /\ g[2 * i] = EventReplayed(g[2 * i - 1], b[2 * i], b)
          /\ g[2 * i - 1] = EventReplayed(g[2 * (i - 1)], b[2 * i - 1], b)
      BY <1>8, <3>1 DEF EventsFrom
    <3> QED
      BY <1>5, <3>2
  <2>3. now1 = RecordTrade(past, y, 0)
    BY <1>7 DEF TradesFrom
  <2>4. y \in Int /\ u \in Int /\ i - 1 \in Nat /\ i \in 0..n /\ (i - 1) + 1 = i
        /\ u + y = t(i)
    <3>1. i - 1 = 0 \/ i # 1
      OBVIOUS
    <3>2. i # 1 => x[i] = 0 /\ i - 1 # 0 /\ i # 0
      BY <1>0
    <3> QED
      BY <1>0, <1>1, <3>1, <3>2
  <2> HIDE DEF y, u, before, after, past, now1, t
  <2>5. Midway(after, now1, p, r, m, n, (i - 1) + 1, u + y)
    BY <1>1, <2>1, <2>2, <2>3, <2>4, BatchStep
  <2>6. Midway(after, now1, p, r, m, n, i, t(i))
    BY <2>4, <2>5
  <2> QED
    BY <2>4, <2>6 DEF after, now1
<1>11. Midway(g[2 * n], h[n], p, r, m, n, n, x[1])
  <2> HIDE DEF T
  <2>1. \A i \in 0..n : i \in T
    BY <1>1, <1>9, <1>10, InductionUpTo
  <2>2. n \in 0..n /\ n # 0
    OBVIOUS
  <2> QED
    BY <2>1, <2>2 DEF T
<1> HIDE DEF t, T
<1>12. q = h[n] /\ EventsReplayed(r, b) = g[2 * n]
  BY <1>7, <1>8 DEF TradesFrom, EventsFrom
<1> DEFINE e == g[2 * n]
           k == h[n]
           added == {a \in DOMAIN r.pnl : Unprovable(b, a)}
<1>13. added = (IF n > 1 /\ x[1] = 0 THEN {m} ELSE {})
  <2>1. DOMAIN r.pnl = MandateIds
    BY <1>1 DEF Replays
  <2>2. RecordedTogether(b, m) = x[1]
    BY <1>0, BatchTotal
  <2>3. \A a : Unprovable(b, a) <=> a = m /\ n > 1 /\ x[1] = 0
    BY <1>4, <2>2 DEF Unprovable
  <2> QED
    BY <2>1, <2>3
<1>14. s = [e EXCEPT !.unprovable = @ \cup added]
  BY <1>12 DEF Replayed
<1>15. Midway(e, k, p, r, m, n, n, x[1]) /\ q = k
  BY <1>11, <1>12
<1> HIDE DEF e, k, added
<1>16. /\ s \in Replays /\ s.d = e.d /\ s.known = e.known /\ s.pnl = e.pnl
       /\ s.unprovable = e.unprovable \cup added
  <2>1. added \in SUBSET MandateIds
    BY <1>13
  <2>2. e \in Replays
    BY <1>15 DEF Midway
  <2> QED
    BY <1>14, <2>1, <2>2 DEF Replays
<1>17. Agree(k, s)
  <2>1. /\ SameTrades(e.d, k) /\ k \in Figures /\ e.d.untimed = k.untimed
        /\ e.d.ambiguous = k.ambiguous
        /\ e.d.settledInProfit = r.d.settledInProfit /\ k.settledInProfit = p.settledInProfit
        /\ e.unprovable = r.unprovable
    BY <1>15 DEF Midway
  <2>2. s.unprovable = {} => r.unprovable = {}
    BY <1>16, <2>1
  <2> QED
    BY <1>16, <2>1, <2>2 DEF Agree
<1> QED
  BY <1>13, <1>15, <1>16, <1>17 DEF Midway

-----------------------------------------------------------------------------
(* One transaction: its effect on the record, and its event *)

LEMMA SingleTogether ==
  ASSUME NEW e, e.name # "PositionReconciled", NEW m
  PROVE  ClosedTogether(<<e>>, m) = 0
<1> DEFINE tx == <<e>>
<1>1. tx[1] = e /\ DOMAIN tx = {1}
  OBVIOUS
<1>2. {i \in DOMAIN tx : tx[i] = PositionReconciled(m)} = {}
  BY <1>1 DEF PositionReconciled
<1> QED
  BY <1>2, FS_EmptySet DEF ClosedTogether

LEMMA TradeEmitted ==
  ASSUME NEW p, NEW r, Agree(p, r), NEW m \in MandateIds, NEW x \in Int, NEW h \in Int,
         NEW q, q = RecordTrade(p, x, h), NEW s, s = Replayed(r, <<TradeRecorded(m, x, h)>>)
  PROVE  /\ Agree(q, s) /\ Net(q) = Net(p) + x /\ q.ambiguous = p.ambiguous
         /\ s.known = r.known /\ s.unprovable = r.unprovable
         /\ s.pnl = [r.pnl EXCEPT ![m] = @ + x]
<1> DEFINE e == TradeRecorded(m, x, h)
           a == TradeReplayed(r, e, 0)
<1>1. e.name = "TradeRecorded" /\ e.mandate = m
  BY DEF TradeRecorded
<1>2. ClosedTogether(<<e>>, m) = 0
  BY <1>1, SingleTogether
<1>3. EventReplayed(r, e, <<e>>) = a
  BY <1>1, <1>2 DEF EventReplayed
<1> HIDE DEF a
<1>4. /\ Agree(q, a) /\ Net(q) = Net(p) + x /\ q.ambiguous = p.ambiguous
      /\ a.known = r.known /\ a.unprovable = r.unprovable
      /\ a.pnl = [r.pnl EXCEPT ![m] = @ + x]
  BY TradeAgrees DEF a
<1>5. a \in Replays /\ r \in Replays
  BY <1>4 DEF Agree
<1>6. s = Replayed(r, <<e>>)
  OBVIOUS
<1> HIDE DEF e
<1>7. s = a
  BY <1>1, <1>3, <1>5, <1>6, SingleReplayed
<1> QED
  BY <1>4, <1>7

LEMMA PartialEmitted ==
  ASSUME NEW p, NEW r, Agree(p, r), NEW m \in MandateIds, NEW x \in Int,
         NEW q, q = RecordPartial(p, x), NEW s, s = Replayed(r, <<PartialCloseRecorded(m, x)>>)
  PROVE  /\ Agree(q, s) /\ Net(q) = Net(p) + x /\ q.ambiguous = p.ambiguous
         /\ s.known = r.known /\ s.unprovable = r.unprovable
         /\ s.pnl = [r.pnl EXCEPT ![m] = @ + x]
<1> DEFINE e == PartialCloseRecorded(m, x)
           a == PartialReplayed(r, e)
<1>1. e.name = "PartialCloseRecorded"
  BY DEF PartialCloseRecorded
<1>2. EventReplayed(r, e, <<e>>) = a
  BY <1>1 DEF EventReplayed
<1> HIDE DEF a
<1>3. /\ Agree(q, a) /\ Net(q) = Net(p) + x /\ q.ambiguous = p.ambiguous
      /\ a.known = r.known /\ a.unprovable = r.unprovable
      /\ a.pnl = [r.pnl EXCEPT ![m] = @ + x]
  BY PartialAgrees DEF a
<1>4. a \in Replays /\ r \in Replays
  BY <1>3 DEF Agree
<1>5. s = Replayed(r, <<e>>)
  OBVIOUS
<1> HIDE DEF e
<1>6. s = a
  BY <1>1, <1>2, <1>4, <1>5, SingleReplayed
<1> QED
  BY <1>3, <1>6

LEMMA ObservedEmitted ==
  ASSUME NEW p, NEW r, Agree(p, r), NEW m, m \in r.known, NEW x \in Int,
         NEW q, q = [p EXCEPT !.maxDrawdown = Larger(@, x)],
         NEW s, s = Replayed(r, <<EquityObserved(m, x)>>)
  PROVE  /\ Agree(q, s) /\ Net(q) = Net(p) /\ q.ambiguous = p.ambiguous
         /\ s.known = r.known /\ s.unprovable = r.unprovable /\ s.pnl = r.pnl
<1> DEFINE e == EquityObserved(m, x)
           a == ObservedReplayed(r, e)
<1>1. e.name = "EquityObserved"
  BY DEF EquityObserved
<1>2. EventReplayed(r, e, <<e>>) = a
  BY <1>1 DEF EventReplayed
<1> HIDE DEF a
<1>3. /\ Agree(q, a) /\ Net(q) = Net(p) /\ q.ambiguous = p.ambiguous
      /\ a.known = r.known /\ a.unprovable = r.unprovable /\ a.pnl = r.pnl
  BY ObservedAgrees DEF a
<1>4. a \in Replays /\ r \in Replays
  BY <1>3 DEF Agree
<1>5. s = Replayed(r, <<e>>)
  OBVIOUS
<1> HIDE DEF e
<1>6. s = a
  BY <1>1, <1>2, <1>4, <1>5, SingleReplayed
<1> QED
  BY <1>3, <1>6

LEMMA FundedEmitted ==
  ASSUME NEW p, NEW r, Agree(p, r), NEW m \in MandateIds,
         NEW q, q = FundedFigures(p),
         NEW s, s = Replayed(r, <<MandateFunded(m)>>)
  PROVE  /\ Agree(q, s) /\ Net(q) = Net(p) /\ q.ambiguous = p.ambiguous
         /\ s.known = r.known \cup {m} /\ s.unprovable = r.unprovable /\ s.pnl = r.pnl
<1> DEFINE e == MandateFunded(m)
           a == FundedReplayed(r, e)
<1>1. e.name = "MandateFunded"
  BY DEF MandateFunded
<1>2. EventReplayed(r, e, <<e>>) = a
  BY <1>1 DEF EventReplayed
<1> HIDE DEF a
<1>3. /\ Agree(q, a) /\ Net(q) = Net(p) /\ q.ambiguous = p.ambiguous
      /\ a.known = r.known \cup {m} /\ a.unprovable = r.unprovable /\ a.pnl = r.pnl
  BY FundedAgrees DEF a
<1>4. a \in Replays /\ r \in Replays
  BY <1>3 DEF Agree
<1>5. s = Replayed(r, <<e>>)
  OBVIOUS
<1> HIDE DEF e
<1>6. s = a
  BY <1>1, <1>2, <1>4, <1>5, SingleReplayed
<1> QED
  BY <1>3, <1>6

LEMMA SettledEmitted ==
  ASSUME NEW p, NEW r, Agree(p, r), NEW m \in MandateIds, NEW made,
         m \notin r.unprovable => r.pnl[m] = made,
         NEW q, q = SettledFigures(p, made),
         NEW s, s = Replayed(r, <<MandateSettled(m)>>)
  PROVE  /\ Agree(q, s) /\ Net(q) = Net(p) /\ q.ambiguous = p.ambiguous
         /\ s.known = r.known /\ s.unprovable = r.unprovable /\ s.pnl = r.pnl
<1> DEFINE e == MandateSettled(m)
           a == SettledReplayed(r, e)
<1>1. e.name = "MandateSettled"
  BY DEF MandateSettled
<1>2. EventReplayed(r, e, <<e>>) = a
  BY <1>1 DEF EventReplayed
<1> HIDE DEF a
<1>3. /\ Agree(q, a) /\ Net(q) = Net(p) /\ q.ambiguous = p.ambiguous
      /\ a.known = r.known /\ a.unprovable = r.unprovable /\ a.pnl = r.pnl
  BY SettledAgrees DEF a
<1>4. a \in Replays /\ r \in Replays
  BY <1>3 DEF Agree
<1>5. s = Replayed(r, <<e>>)
  OBVIOUS
<1> HIDE DEF e
<1>6. s = a
  BY <1>1, <1>2, <1>4, <1>5, SingleReplayed
<1> QED
  BY <1>3, <1>6

-----------------------------------------------------------------------------
(* The record beside the mandates' results *)

Recorded(p, r, made, st) ==
    /\ Agree(p, r)
    /\ \A m \in MandateIds : st[m] # "none" => m \in r.known
    /\ \A m \in MandateIds : m \notin r.unprovable => r.pnl[m] = made[m]
    /\ Net(p) <= SumTo(made, Mandated)
    /\ p.ambiguous = 0 => Net(p) = SumTo(made, Mandated)

(* A step after which the record has y more, and c more ambiguous trades. *)
Told(p, r, q, s, m, y, c) ==
    /\ Agree(q, s) /\ Net(q) = Net(p) + y /\ q.ambiguous = p.ambiguous + c
    /\ r.known \subseteq s.known /\ r.unprovable \subseteq s.unprovable
    /\ s.pnl = [r.pnl EXCEPT ![m] = @ + y]

Raised(made, m, x, after) == after = [made EXCEPT ![m] = @ + x]

(* It adds x to the result of mandate m: more than it records only if it   *)
(* calls trades ambiguous and the mandate unprovable.                      *)
LEMMA RecordedMoves ==
  ASSUME NEW p, NEW r, NEW made \in [MandateIds -> Int], NEW st, Recorded(p, r, made, st),
         NEW m \in MandateIds, NEW x \in Int, NEW y \in Int, NEW c \in Nat,
         NEW q, NEW s, Told(p, r, q, s, m, y, c), NEW after, Raised(made, m, x, after),
         y <= x, c = 0 => y = x, y # x => m \in s.unprovable
  PROVE  Recorded(q, s, after, st)
<1>0. /\ Agree(q, s) /\ Net(q) = Net(p) + y /\ q.ambiguous = p.ambiguous + c
      /\ r.known \subseteq s.known /\ r.unprovable \subseteq s.unprovable
      /\ s.pnl = [r.pnl EXCEPT ![m] = @ + y] /\ after = [made EXCEPT ![m] = @ + x]
  BY DEF Told, Raised
<1>1. /\ Agree(p, r) /\ p \in Figures /\ r \in Replays /\ r.pnl \in [MandateIds -> Int]
      /\ Net(p) \in Int /\ p.ambiguous \in Nat
  BY DEF Recorded, Agree, Replays, Figures, Net
<1>2. /\ Net(p) <= SumTo(made, Mandated)
      /\ p.ambiguous = 0 => Net(p) = SumTo(made, Mandated)
  BY DEF Recorded
<1>3. \A k \in MandateIds : st[k] # "none" => k \in s.known
  BY <1>0 DEF Recorded
<1>4. ASSUME NEW k \in MandateIds, k \notin s.unprovable
      PROVE  s.pnl[k] = after[k]
  <2>1. r.pnl[k] = made[k]
    BY <1>0, <1>4 DEF Recorded
  <2>2. s.pnl[k] = IF k = m THEN r.pnl[k] + y ELSE r.pnl[k]
    BY <1>0, <1>1
  <2>3. k = m => y = x
    BY <1>4
  <2> QED
    BY <1>0, <2>1, <2>2, <2>3
<1>5. SumTo(after, Mandated) = SumTo(made, Mandated) + x /\ SumTo(made, Mandated) \in Int
  <2> DEFINE v == made[m] + x
  <2>1. Mandated \in Nat /\ made \in [1..Mandated -> Int] /\ m \in 1..Mandated
        /\ made[m] \in Int /\ v \in Int
    BY MandateAssumption DEF MandateIds
  <2>2. after = [made EXCEPT ![m] = v]
    BY <1>0
  <2>3. SumTo(made, Mandated) \in Int
    BY <2>1, SumInt
  <2> HIDE DEF v
  <2>4. SumTo(after, Mandated) = SumTo(made, Mandated) - made[m] + v
    <3>1. SumTo([made EXCEPT ![m] = v], Mandated) = SumTo(made, Mandated) - made[m] + v
      BY ONLY <2>1, SumUpdate
    <3> QED
      BY ONLY <2>2, <3>1
  <2> QED
    BY ONLY <2>1, <2>3, <2>4 DEF v
<1>6. Net(q) <= SumTo(after, Mandated)
  BY <1>0, <1>1, <1>2, <1>5
<1>7. q.ambiguous = 0 => Net(q) = SumTo(after, Mandated)
  BY <1>0, <1>1, <1>2, <1>5
<1> QED
  BY <1>0, <1>3, <1>4, <1>6, <1>7 DEF Recorded

(* A step that closes nothing. *)
LEMMA RecordedStays ==
  ASSUME NEW p, NEW r, NEW made, NEW st, Recorded(p, r, made, st),
         NEW q, NEW s, Agree(q, s), Net(q) = Net(p), q.ambiguous = p.ambiguous,
         r.known \subseteq s.known, s.unprovable = r.unprovable, s.pnl = r.pnl,
         NEW tt, \A k \in MandateIds : tt[k] # "none" => st[k] # "none" \/ k \in s.known
  PROVE  Recorded(q, s, made, tt)
BY DEF Recorded

RecInv == Recorded(profile, replay, realized, state)

LEMMA InitRecorded == Init => RecInv
<1> SUFFICES ASSUME Init PROVE RecInv
  OBVIOUS
<1>1. /\ profile = NoRecord /\ replay = NothingReplayed(MandateIds)
      /\ realized = [m \in MandateIds |-> 0] /\ state = [m \in MandateIds |-> "none"]
  BY DEF Init
<1>2. NoRecord \in Figures
  BY DEF NoRecord, Figures
<1>3. NothingReplayed(MandateIds) \in Replays
  BY <1>2 DEF NothingReplayed, Replays
<1>4. SumTo(realized, Mandated) = 0
  <2>1. Mandated \in Nat /\ realized \in [1..Mandated -> Int] /\ \A i \in 1..Mandated : realized[i] = 0
    BY <1>1, MandateAssumption DEF MandateIds
  <2> QED
    BY <2>1, SumZero
<1>5. Agree(profile, replay)
  BY <1>1, <1>2, <1>3 DEF Agree, NothingReplayed, SameTrades
<1>6. Net(profile) = 0
  BY <1>1 DEF NoRecord, Net
<1>7. \A m \in MandateIds : state[m] = "none" /\ replay.pnl[m] = realized[m]
  BY <1>1 DEF NothingReplayed
<1>8. Net(profile) <= SumTo(realized, Mandated)
  BY <1>4, <1>6
<1> QED
  BY <1>4, <1>5, <1>6, <1>7, <1>8 DEF RecInv, Recorded

LEMMA UnrecordedKeeps ==
  ASSUME RecInv, UNCHANGED <<profile, replay, realized>>,
         \A k \in MandateIds : state'[k] # "none" => state[k] # "none"
  PROVE  RecInv'
BY DEF RecInv, Recorded

LEMMA FundMandateRecorded ==
  ASSUME AllAccounted, RecInv, NEW m \in MandateIds, FundMandate(m)
  PROVE  RecInv'
<1>1. /\ profile' = FundedFigures(profile)
      /\ replay' = Replayed(replay, <<MandateFunded(m)>>)
      /\ realized' = realized /\ state' = [state EXCEPT ![m] = "Active"]
  BY DEF FundMandate, Emitted, FundedFigures
<1>2. Recorded(profile, replay, realized, state) /\ Agree(profile, replay)
  BY DEF RecInv, Recorded
<1>3. /\ Agree(profile', replay') /\ Net(profile') = Net(profile)
      /\ profile'.ambiguous = profile.ambiguous
      /\ replay'.known = replay.known \cup {m} /\ replay'.unprovable = replay.unprovable
      /\ replay'.pnl = replay.pnl
  BY ONLY <1>1, <1>2, FundedEmitted, m \in MandateIds
<1>4. \A k \in MandateIds : state'[k] # "none" => state[k] # "none" \/ k \in replay'.known
  <2>1. state \in [MandateIds -> States]
    BY DEF AllAccounted, PaidTyped
  <2> QED
    BY <1>1, <1>3, <2>1
<1>5. replay.known \subseteq replay'.known
  BY <1>3
<1>6. Recorded(profile', replay', realized, state')
  BY ONLY <1>2, <1>3, <1>4, <1>5, RecordedStays
<1> QED
  BY <1>1, <1>6 DEF RecInv

LEMMA ClaimRecorded ==
  ASSUME AllAccounted, RecInv, NEW m \in MandateIds, ClaimSettlement(m)
  PROVE  RecInv'
<1>1. /\ profile' = SettledFigures(profile, realized[m])
      /\ replay' = Replayed(replay, <<MandateSettled(m)>>)
      /\ realized' = realized /\ state' = [state EXCEPT ![m] = "Settled"] /\ state[m] # "none"
  BY DEF ClaimSettlement, SettledWith, Emitted, SettledFigures, Stopped
<1>2. /\ Recorded(profile, replay, realized, state) /\ Agree(profile, replay)
      /\ m \notin replay.unprovable => replay.pnl[m] = realized[m]
  BY DEF RecInv, Recorded
<1>3. /\ Agree(profile', replay') /\ Net(profile') = Net(profile)
      /\ profile'.ambiguous = profile.ambiguous
      /\ replay'.known = replay.known /\ replay'.unprovable = replay.unprovable
      /\ replay'.pnl = replay.pnl
  BY ONLY <1>1, <1>2, SettledEmitted, m \in MandateIds
<1>4. \A k \in MandateIds : state'[k] # "none" => state[k] # "none" \/ k \in replay'.known
  <2>1. state \in [MandateIds -> States]
    BY DEF AllAccounted, PaidTyped
  <2> QED
    BY <1>1, <2>1
<1>5. replay.known \subseteq replay'.known
  BY <1>3
<1>6. Recorded(profile', replay', realized, state')
  BY ONLY <1>2, <1>3, <1>4, <1>5, RecordedStays
<1> QED
  BY <1>1, <1>6 DEF RecInv

LEMMA ObserveRecorded ==
  ASSUME AllAccounted, RecInv, NEW m \in MandateIds, NEW d \in Drawdowns, NEW daily,
         ObserveMandateEquity(m, d, daily)
  PROVE  RecInv'
<1>1. /\ profile' = [profile EXCEPT !.maxDrawdown = Larger(@, d)]
      /\ replay' = Replayed(replay, <<EquityObserved(m, d)>>)
      /\ realized' = realized /\ state[m] # "none"
  BY DEF ObserveMandateEquity, Emitted
<1>2. /\ Recorded(profile, replay, realized, state) /\ Agree(profile, replay)
      /\ m \in replay.known /\ d \in Int
  BY <1>1, MandateAssumption DEF RecInv, Recorded
<1>3. /\ Agree(profile', replay') /\ Net(profile') = Net(profile)
      /\ profile'.ambiguous = profile.ambiguous
      /\ replay'.known = replay.known /\ replay'.unprovable = replay.unprovable
      /\ replay'.pnl = replay.pnl
  BY ONLY <1>1, <1>2, ObservedEmitted
<1>4. \A k \in MandateIds : state'[k] # "none" => state[k] # "none" \/ k \in replay'.known
  <2>1. state \in [MandateIds -> States]
    BY DEF AllAccounted, PaidTyped
  <2>2. \A k \in MandateIds : k # m => state'[k] = state[k]
    BY <2>1 DEF ObserveMandateEquity
  <2> QED
    BY <1>1, <2>2
<1>5. replay.known \subseteq replay'.known
  BY <1>3
<1>6. Recorded(profile', replay', realized, state')
  BY ONLY <1>2, <1>3, <1>4, <1>5, RecordedStays
<1> QED
  BY <1>1, <1>6 DEF RecInv

LEMMA ClosedRecorded ==
  ASSUME IInv, RecInv, NEW m \in MandateIds, NEW k \in Keys, NEW credit \in Credits,
         Closed(m, k, credit)
  PROVE  RecInv'
<1> DEFINE x == credit - Cost(pos[m][k])
<1>1. /\ profile' = RecordTrade(profile, x, HeldSlots)
      /\ replay' = Replayed(replay, <<TradeRecorded(m, x, HeldSlots)>>)
      /\ realized' = [realized EXCEPT ![m] = @ + x] /\ state' = state
  BY DEF Closed, ClosedAs, Emitted
<1>2. x \in Int /\ HeldSlots \in Int
  <2>1. pos[m][k] \in Holding
    BY DEF IInv, Typed
  <2>2. Cost(pos[m][k]) \in Int
    BY <2>1 DEF Cost, Holding
  <2> QED
    BY <2>2, MandateAssumption
<1> HIDE DEF x
<1>3. /\ Recorded(profile, replay, realized, state) /\ Agree(profile, replay)
      /\ realized \in [MandateIds -> Int]
  BY DEF RecInv, Recorded, IInv, Typed
<1>4. /\ Agree(profile', replay') /\ Net(profile') = Net(profile) + x
      /\ profile'.ambiguous = profile.ambiguous
      /\ replay'.known = replay.known /\ replay'.unprovable = replay.unprovable
      /\ replay'.pnl = [replay.pnl EXCEPT ![m] = @ + x]
  BY ONLY <1>1, <1>2, <1>3, TradeEmitted, m \in MandateIds
<1>5. /\ Told(profile, replay, profile', replay', m, x, 0) /\ Raised(realized, m, x, realized')
      /\ x <= x /\ 0 \in Nat
  <2>1. profile'.ambiguous = profile.ambiguous + 0
    BY <1>3, <1>4 DEF Agree, Figures
  <2> QED
    BY <1>1, <1>2, <1>4, <2>1 DEF Told, Raised
<1>6. Recorded(profile', replay', realized', state)
  BY ONLY <1>2, <1>3, <1>5, RecordedMoves, m \in MandateIds
<1> QED
  BY <1>1, <1>6 DEF RecInv

LEMMA ReduceRecorded ==
  ASSUME IInv, RecInv, NEW m \in MandateIds, NEW k \in Keys, NEW delta \in 1..OpenSize,
         NEW credit \in Credits, FundedReduce(m, k, delta, credit)
  PROVE  RecInv'
<1> DEFINE out == MarginOut(pos[m][k], delta)
           x   == credit - out
<1>1. out \in Int /\ x \in Int
  <2>1. pos[m][k] \in Holding /\ 0 < delta /\ delta < pos[m][k].size
    BY DEF IInv, Typed, FundedReduce
  <2>2. out \in Int
    <3>1. /\ pos[m][k].margin \in Int /\ pos[m][k].size \in Nat \ {0} /\ delta \in Int
      BY <2>1 DEF Holding
    <3>2. (pos[m][k].margin * delta) \div pos[m][k].size \in Int
      BY ONLY <3>1, ShareInt
    <3> QED
      BY <3>2 DEF MarginOut
  <2> QED
    BY <2>2, MandateAssumption
<1>2. /\ profile' = RecordPartial(profile, x)
      /\ replay' = Replayed(replay, <<PartialCloseRecorded(m, x)>>)
      /\ realized' = [realized EXCEPT ![m] = @ + credit - out] /\ state' = state
  BY DEF FundedReduce, Emitted
<1>3. /\ Recorded(profile, replay, realized, state) /\ Agree(profile, replay)
      /\ realized \in [MandateIds -> Int]
  BY DEF RecInv, Recorded, IInv, Typed
<1>4. realized' = [realized EXCEPT ![m] = @ + x]
  <2>1. credit \in Int /\ realized[m] \in Int
    BY <1>3, MandateAssumption
  <2> HIDE DEF out
  <2> QED
    BY <1>1, <1>2, <2>1
<1> HIDE DEF x, out
<1>5. /\ Agree(profile', replay') /\ Net(profile') = Net(profile) + x
      /\ profile'.ambiguous = profile.ambiguous
      /\ replay'.known = replay.known /\ replay'.unprovable = replay.unprovable
      /\ replay'.pnl = [replay.pnl EXCEPT ![m] = @ + x]
  BY ONLY <1>1, <1>2, <1>3, PartialEmitted, m \in MandateIds
<1>6. /\ Told(profile, replay, profile', replay', m, x, 0) /\ Raised(realized, m, x, realized')
      /\ x <= x /\ 0 \in Nat
  <2>1. profile'.ambiguous = profile.ambiguous + 0
    BY <1>3, <1>5 DEF Agree, Figures
  <2> QED
    BY <1>1, <1>4, <1>5, <2>1 DEF Told, Raised
<1>7. Recorded(profile', replay', realized', state)
  BY ONLY <1>1, <1>3, <1>6, RecordedMoves, m \in MandateIds
<1> QED
  BY <1>2, <1>7 DEF RecInv

LEMMA ReconcileRecorded ==
  ASSUME IInv, RecInv, NEW m \in MandateIds, Reconcile(m)
  PROVE  RecInv'
<1> DEFINE n == Cardinality(Gone(m))
           x == Unreconciled(m)
           results == Attributed(n, x)
           w == BatchFigures(profile, n)
           b == Batch(m, n, results)
           y == results[1]
           c == IF n > 1 THEN n ELSE 0
<1>1. /\ profile' = TradesRecorded(w, results, n) /\ replay' = Replayed(replay, b)
      /\ realized' = [realized EXCEPT ![m] = @ + x] /\ state' = state /\ Gone(m) # {}
  BY DEF Reconcile, ReconciledBook, ReconciledRecord, Emitted, Batch, BatchFigures
<1>2. n \in Nat \ {0}
  <2>1. Gone(m) \subseteq Booked(m)
    BY DEF Gone
  <2>2. IsFiniteSet(Gone(m))
    BY <2>1, BookedFinite, FS_Subset
  <2> QED
    BY <1>1, <2>2, FS_EmptySet, FS_CardinalityType
<1>3. x \in Int
  <2>1. /\ LiveCost(m) \in Int /\ free[m] \in Int /\ last[m] \in Int /\ booked[m] \in Int
    BY CostInt DEF IInv, Typed
  <2> QED
    BY <2>1 DEF Unreconciled
<1> HIDE DEF n, x
<1>4. /\ results \in [1..n -> Int] /\ \A i \in 1..n : i # 1 => results[i] = 0
      /\ y = (IF n = 1 \/ x <= 0 THEN x ELSE 0)
  BY <1>2, <1>3 DEF Attributed
<1>5. IsBatch(b, m, n, results)
  BY <1>2, BatchEvents
<1>6. w = BatchFigures(profile, n) /\ OnlyFirst(results, n)
  BY <1>4 DEF OnlyFirst
<1>7. /\ Recorded(profile, replay, realized, state) /\ Agree(profile, replay)
      /\ realized \in [MandateIds -> Int]
  BY DEF RecInv, Recorded, IInv, Typed
<1> HIDE DEF w, b, results
<1>8. /\ Agree(profile', replay') /\ Net(profile') = Net(profile) + y
      /\ profile'.ambiguous = profile.ambiguous + c
      /\ replay'.known = replay.known
      /\ replay'.pnl = [replay.pnl EXCEPT ![m] = @ + y]
      /\ replay'.unprovable = replay.unprovable \cup (IF n > 1 /\ y = 0 THEN {m} ELSE {})
  BY ONLY <1>1, <1>2, <1>4, <1>5, <1>6, <1>7, BatchReplayed, m \in MandateIds
<1> HIDE DEF y
<1>9. /\ y \in Int /\ y <= x /\ c \in Nat /\ (c = 0 => y = x)
      /\ (y # x => n > 1 /\ y = 0)
  BY ONLY <1>2, <1>3, <1>4
<1> HIDE DEF c
<1>10. Told(profile, replay, profile', replay', m, y, c) /\ Raised(realized, m, x, realized')
  BY <1>1, <1>8 DEF Told, Raised
<1>11. y # x => m \in replay'.unprovable
  BY <1>8, <1>9
<1>12. Recorded(profile', replay', realized', state)
  BY ONLY <1>3, <1>7, <1>9, <1>10, <1>11, RecordedMoves, m \in MandateIds
<1> QED
  BY <1>1, <1>12 DEF RecInv

LEMMA NextRecorded == IInv /\ AllAccounted /\ RecInv /\ [Next]_vars => RecInv'
<1> SUFFICES ASSUME IInv, AllAccounted, RecInv, [Next]_vars PROVE RecInv'
  OBVIOUS
<1>0. ASSUME UNCHANGED <<profile, replay, realized, state>> PROVE RecInv'
  BY <1>0, UnrecordedKeeps
<1>1. CASE UNCHANGED vars
  BY <1>0, <1>1 DEF vars
<1>2. ASSUME NEW m \in MandateIds, Investor(m) PROVE RecInv'
  <2>1. CASE FundMandate(m)
    BY <2>1, FundMandateRecorded
  <2>2. CASE \E a \in DepositAmounts : FundSolfxCollateral(m, a)
    BY <1>0, <2>2 DEF FundSolfxCollateral, Silent
  <2>3. CASE RequestSettlement(m)
    <3>1. state \in [MandateIds -> States]
      BY DEF AllAccounted, PaidTyped
    <3>2. \A k \in MandateIds : state'[k] # "none" => state[k] # "none"
      BY <2>3, <3>1 DEF RequestSettlement
    <3> QED
      BY <2>3, <3>2, UnrecordedKeeps DEF RequestSettlement, Silent
  <2>4. CASE ClaimSettlement(m)
    BY <2>4, ClaimRecorded
  <2> QED
    BY <1>2, <2>1, <2>2, <2>3, <2>4 DEF Investor
<1>3. ASSUME NEW m \in MandateIds, NEW orders, StopsBecome(m, orders) PROVE RecInv'
  BY <1>0, <1>3 DEF StopsBecome, Silent
<1>4. ASSUME NEW m \in MandateIds, Trader(m) PROVE RecInv'
  <2>1. CASE \E k \in Keys, id \in OrderIds : FundedOpen(m, k, id)
    BY <1>0, <2>1 DEF FundedOpen, OpenWithStop, Silent
  <2>2. CASE \E k \in Keys, credit \in Credits : FundedClose(m, k, credit)
    BY <2>2, ClosedRecorded DEF FundedClose
  <2>3. CASE \E o \in stops[m] : CancelStop(m, o)
    BY <1>3, <2>3 DEF CancelStop
  <2> QED
    BY <1>4, <2>1, <2>2, <2>3 DEF Trader
<1>5. ASSUME NEW m \in MandateIds, Outside(m) PROVE RecInv'
  BY <1>0, <1>5 DEF Outside, StopFires, TakenOutside, ClosedOutside, Silent
<1>6. ASSUME NEW m \in MandateIds, Keeper(m) PROVE RecInv'
  <2>1. CASE \E d \in Drawdowns, daily \in BOOLEAN : ObserveMandateEquity(m, d, daily)
    BY <2>1, ObserveRecorded
  <2>2. CASE WindDownSome(m)
    BY <2>2, ClosedRecorded DEF WindDownSome, WindDown
  <2>3. CASE Reconcile(m)
    BY <2>3, ReconcileRecorded
  <2> QED
    BY <1>6, <2>1, <2>2, <2>3 DEF Keeper
<1>7. ASSUME NEW m \in MandateIds, Extra(m) PROVE RecInv'
  <2>1. CASE \E k \in Keys, delta \in 1..OpenSize, credit \in Credits :
               FundedReduce(m, k, delta, credit)
    BY <2>1, ReduceRecorded
  <2>2. CASE \E k \in Keys, delta \in 1..OpenSize, credit \in Credits :
               TakeProfitFills(m, k, delta, credit)
    BY <1>0, <2>2 DEF TakeProfitFills, Silent
  <2>3. CASE \E k \in Keys, a \in MarginMoves : FundedAddMargin(m, k, a)
    BY <1>0, <2>3 DEF FundedAddMargin, AdjustMargin, Silent
  <2>4. CASE \E k \in Keys, a \in MarginMoves : FundedRemoveMargin(m, k, a)
    BY <1>0, <2>4 DEF FundedRemoveMargin, AdjustMargin, Silent
  <2>5. CASE \E o \in stops[m], id \in OrderIds : FundedMoveStop(m, o, id)
    BY <1>3, <2>5 DEF FundedMoveStop
  <2>6. CASE Gift(m)
    BY <1>0, <2>6 DEF Gift, Silent
  <2> QED
    BY <1>7, <2>1, <2>2, <2>3, <2>4, <2>5, <2>6 DEF Extra
<1>8. CASE Next
  <2>1. PICK m \in MandateIds : Investor(m) \/ Trader(m) \/ Outside(m) \/ Keeper(m) \/ Extra(m)
    BY <1>8 DEF Next
  <2> QED
    BY <1>2, <1>4, <1>5, <1>6, <1>7, <2>1
<1> QED
  BY <1>1, <1>8

LEMMA SpecRecorded == Spec => []RecInv
<1>1. Init => RecInv
  BY InitRecorded
<1>2. IInv /\ AllAccounted /\ RecInv /\ [Next]_vars => RecInv'
  BY NextRecorded
<1> QED
  BY <1>1, <1>2, SpecInv, SpecAccounted, PTL DEF Spec

(* record_trade, record_partial, reconcile_position: for every number of   *)
(* mandates and of positions that SolFX closed together, the trader's net  *)
(* record is never better than what all closes made, once everything is    *)
(* reconciled, and exactly that while no trade is called ambiguous.        *)
THEOREM RecordNeverAhead == Spec => []RecordNeverFlatters
<1>1. IInv /\ RecInv => RecordNeverFlatters
  <2> SUFFICES ASSUME IInv, RecInv, \A m \in MandateIds : Unreconciled(m) = 0
               PROVE  /\ Net(profile) <= SumTo(truth, Mandated)
                      /\ profile.ambiguous = 0 => Net(profile) = SumTo(truth, Mandated)
    BY DEF RecordNeverFlatters, Net
  <2>1. truth = realized
    <3>1. /\ truth \in [MandateIds -> Int] /\ realized \in [MandateIds -> Int]
          /\ \A m \in MandateIds : truth[m] = realized[m] + Unreconciled(m)
      BY DEF IInv, Typed, ResultsTracked
    <3>2. \A m \in MandateIds : truth[m] = realized[m]
      BY <3>1
    <3> QED
      BY <3>1, <3>2
  <2> QED
    BY <2>1 DEF RecInv, Recorded
<1> QED
  BY <1>1, SpecInv, SpecRecorded, PTL

(* verify.ts: folding the events of the transactions, each as a whole,     *)
(* always yields the record the program keeps; the profits settled too,    *)
(* while no batch hid whether it was one.                                  *)
THEOREM ReplayAlwaysAgrees == Spec => []ReplayAgrees
<1>1. RecInv => ReplayAgrees
  <2> SUFFICES ASSUME RecInv, NEW f \in DOMAIN NoRecord,
                      f # "settledInProfit" \/ replay.unprovable = {}
               PROVE  replay.d[f] = profile[f]
    BY DEF ReplayAgrees
  <2>1. Agree(profile, replay)
    BY DEF RecInv, Recorded
  <2>2. f \in {"trades", "wins", "losses", "grossProfit", "grossLoss", "largestWin",
               "largestLoss", "holdSlots", "untimed", "ambiguous", "maxDrawdown", "funded",
               "active", "settledInProfit"}
    BY DEF NoRecord
  <2> QED
    BY <2>1, <2>2 DEF Agree, SameTrades
<1> QED
  BY <1>1, SpecRecorded, PTL
=============================================================================
