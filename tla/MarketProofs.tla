---------------------------- MODULE MarketProofs ----------------------------
(***************************************************************************)
(* A market's session and its trigger orders.                              *)
(*                                                                         *)
(* The gap window and the fail-closed crank, for every week, window, kind  *)
(* of feed and set of statuses the admin uses.  GapIsServed is not         *)
(* inductive: a market in its gap window must owe no more of it than the   *)
(* age of the status still leaves, and one that may open again without a   *)
(* gap must owe nothing.                                                   *)
(*                                                                         *)
(* An order is bound to its position by the slot the position opened in,   *)
(* for any number of addresses, orders, prices and slots.                  *)
(*                                                                         *)
(* The countdown to the close has a closed form: it is the                 *)
(* distance to the first tick that is closed.                              *)
(***************************************************************************)
EXTENDS MarketSession, TriggerOrders, TLAPS

GapInv ==
    kind = "SpotFx" =>
        /\ status = "GapWindow" => gapLeft <= GapWindowTicks - age
        /\ status \in {"Active", "ReduceOnly"} => gapLeft = 0

SessionInv == TypeOK /\ GapInv

(* What a crank makes of a session-bound market. *)
LEMMA SpotFxCases ==
  ASSUME NEW open \in BOOLEAN, status \in {"Active", "ReduceOnly", "Halted", "GapWindow"}
  PROVE  /\ SpotFxStatus(open) \in {"Active", "ReduceOnly", "Halted", "GapWindow"}
         /\ ~ open => SpotFxStatus(open) = "Halted"
         /\ SpotFxStatus(open) = "Active" =>
              \/ status \in {"Active", "ReduceOnly"}
              \/ status = "GapWindow" /\ age >= GapWindowTicks
         /\ SpotFxStatus(open) = "ReduceOnly" => status \in {"Active", "ReduceOnly"}
         /\ SpotFxStatus(open) = "GapWindow" => status \in {"Halted", "GapWindow"}
         /\ SpotFxStatus(open) = "GapWindow" /\ status = "GapWindow" =>
              ~ (age >= GapWindowTicks)
<1>1. CASE ~ open
  BY <1>1 DEF SpotFxStatus
<1>2. CASE open /\ status = "Active"
  BY <1>2 DEF SpotFxStatus
<1>3. CASE open /\ status = "ReduceOnly"
  BY <1>3 DEF SpotFxStatus
<1>4. CASE open /\ status = "Halted"
  BY <1>4 DEF SpotFxStatus
<1>5. CASE open /\ status = "GapWindow"
  BY <1>5 DEF SpotFxStatus
<1> QED
  BY <1>1, <1>2, <1>3, <1>4, <1>5

(* What any crank makes of a market: the status it finds is one it knows.  *)
LEMMA CrankCases ==
  ASSUME TypeOK, NEW read \in BOOLEAN, CrankMarketSession(read)
  PROVE  /\ status \in {"Active", "ReduceOnly", "Halted", "GapWindow"}
         /\ status' = NextStatus(read)
         /\ kind = "SpotFx" => status' = SpotFxStatus(Open(read)) /\ Open(read) \in BOOLEAN
         /\ kind # "SpotFx" => /\ kind = "Crypto"
                               /\ status' = IF Live(read) THEN "Active" ELSE "Halted"
<1>1. status \in {"Active", "ReduceOnly", "Halted", "GapWindow"}
  BY DEF TypeOK, CrankMarketSession
<1>2. status' = NextStatus(read)
  BY DEF CrankMarketSession, StampedStatus
<1>3. Open(read) \in BOOLEAN
  BY DEF Open
<1>4. kind \in {"SpotFx", "Crypto"}
  BY SessionAssumption DEF TypeOK
<1> QED
  BY <1>1, <1>2, <1>3, <1>4 DEF NextStatus

LEMMA SessionStarts == SessionInit => SessionInv
<1> SUFFICES ASSUME SessionInit PROVE SessionInv
  OBVIOUS
<1>1. GapWindowTicks \in 0..GapWindowTicks /\ 0 \in 0..GapWindowTicks
  BY SessionAssumption
<1>2. TypeOK
  BY <1>1 DEF SessionInit, TypeOK
<1>3. GapInv
  BY DEF SessionInit, GapInv
<1> QED
  BY <1>2, <1>3 DEF SessionInv

LEMMA CrankStep ==
  ASSUME SessionInv, NEW read \in BOOLEAN, CrankMarketSession(read)
  PROVE  SessionInv'
<1>1. /\ TypeOK /\ GapInv /\ GapWindowTicks \in Nat \ {0}
      /\ kind' = kind /\ opensAt' = opensAt /\ closesAt' = closesAt /\ clock' = clock
      /\ feed' = feed /\ halted' = halted
      /\ age' = (IF status' # status THEN 0 ELSE age)
      /\ gapLeft' = (IF status = "Halted" /\ status' = "GapWindow" THEN GapWindowTicks
                     ELSE gapLeft)
  BY SessionAssumption DEF SessionInv, CrankMarketSession, StampedStatus, calendar
<1>2. /\ status \in {"Active", "ReduceOnly", "Halted", "GapWindow"}
      /\ kind = "SpotFx" => status' = SpotFxStatus(Open(read)) /\ Open(read) \in BOOLEAN
      /\ kind # "SpotFx" => status' \in {"Active", "Halted"}
  BY <1>1, CrankCases
<1>3. kind = "SpotFx" =>
        /\ status' \in {"Active", "ReduceOnly", "Halted", "GapWindow"}
        /\ status' = "Active" => \/ status \in {"Active", "ReduceOnly"}
                                 \/ status = "GapWindow" /\ age >= GapWindowTicks
        /\ status' = "ReduceOnly" => status \in {"Active", "ReduceOnly"}
        /\ status' = "GapWindow" => status \in {"Halted", "GapWindow"}
  BY <1>2, SpotFxCases
<1>4. age \in 0..GapWindowTicks /\ gapLeft \in 0..GapWindowTicks
  BY <1>1 DEF TypeOK
<1>5. TypeOK'
  <2>1. /\ status' \in {"Initialized", "Active", "ReduceOnly", "Halted", "GapWindow", "Delisted"}
        /\ age' \in 0..GapWindowTicks /\ gapLeft' \in 0..GapWindowTicks
    BY <1>1, <1>2, <1>3, <1>4
  <2> QED
    BY <1>1, <2>1 DEF TypeOK
<1>6. GapInv'
  <2> SUFFICES ASSUME kind = "SpotFx"
               PROVE  /\ status' = "GapWindow" => gapLeft' <= GapWindowTicks - age'
                      /\ status' \in {"Active", "ReduceOnly"} => gapLeft' = 0
    BY <1>1 DEF GapInv
  <2>1. /\ status = "GapWindow" => gapLeft <= GapWindowTicks - age
        /\ status \in {"Active", "ReduceOnly"} => gapLeft = 0
    BY <1>1 DEF GapInv
  <2> QED
    BY <1>1, <1>3, <1>4, <2>1
<1> QED
  BY <1>5, <1>6 DEF SessionInv

LEMMA SessionStep == SessionInv /\ [SessionNext]_sessionVars => SessionInv'
<1> SUFFICES ASSUME SessionInv, [SessionNext]_sessionVars PROVE SessionInv'
  OBVIOUS
<1>1. /\ Week \in Nat \ {0} /\ GapWindowTicks \in Nat \ {0}
      /\ age \in 0..GapWindowTicks /\ gapLeft \in 0..GapWindowTicks /\ clock \in 0..Week - 1
  BY SessionAssumption DEF SessionInv, TypeOK, Times
<1>2. CASE \E read \in BOOLEAN : CrankMarketSession(read)
  BY <1>2, CrankStep
<1>3. CASE CrankMarketPrice
  BY <1>1, <1>3 DEF SessionInv, TypeOK, GapInv, CrankMarketPrice, StampedStatus, calendar
<1>4. CASE HaltMarket
  BY <1>4 DEF SessionInv, TypeOK, GapInv, HaltMarket, calendar
<1>5. CASE \E s \in AdminStatuses : SetMarketStatus(s)
  BY <1>1, <1>5, SessionAssumption DEF SessionInv, TypeOK, GapInv, SetMarketStatus, calendar
<1>6. CASE Tick
  <2>1. /\ kind' = kind /\ opensAt' = opensAt /\ closesAt' = closesAt /\ feed' = feed
        /\ status' = status /\ halted' = halted /\ clock' = (clock + 1) % Week
        /\ age' = (IF age < GapWindowTicks THEN age + 1 ELSE age)
        /\ gapLeft' = (IF gapLeft > 0 THEN gapLeft - 1 ELSE 0)
    BY <1>6 DEF Tick, calendar
  <2>2. clock' \in 0..Week - 1
    BY <1>1, <2>1
  <2>3. age' \in 0..GapWindowTicks /\ gapLeft' \in 0..GapWindowTicks
    BY <1>1, <2>1
  <2>4. TypeOK'
    BY <2>1, <2>2, <2>3 DEF SessionInv, TypeOK, Times
  <2>5. GapInv'
    BY <1>1, <2>1 DEF SessionInv, GapInv
  <2> QED
    BY <2>4, <2>5 DEF SessionInv
<1>7. CASE \E f \in {"dead", "calm", "wild"} : FeedBecomes(f)
  BY <1>7 DEF SessionInv, TypeOK, GapInv, FeedBecomes, calendar
<1>8. CASE UNCHANGED sessionVars
  BY <1>8 DEF SessionInv, TypeOK, GapInv, sessionVars
<1> QED
  BY <1>2, <1>3, <1>4, <1>5, <1>6, <1>7, <1>8 DEF SessionNext

(* The cranks never let new positions in before a reopened session has     *)
(* served its gap window in full.                                          *)
THEOREM GapAlwaysServed == SessionSpec => [](TypeOK /\ GapIsServed)
<1>1. SessionInv => TypeOK /\ GapIsServed
  <2> SUFFICES ASSUME SessionInv PROVE TypeOK /\ GapIsServed
    OBVIOUS
  <2>1. AllowsOpen(status) => status = "Active"
    BY DEF SessionInv, TypeOK, AllowsOpen
  <2> QED
    BY <2>1 DEF SessionInv, GapInv, GapIsServed
<1> QED
  BY <1>1, SessionStarts, SessionStep, PTL DEF SessionSpec

(* No crank of the session leaves a market open to new positions that its  *)
(* feed or its calendar says is closed.                                    *)
THEOREM CrankAlwaysFailsClosed == SessionSpec => CrankFailsClosed
<1>1. SessionInv /\ [SessionNext]_sessionVars =>
        [(\E read \in BOOLEAN : CrankMarketSession(read)) /\ AllowsOpen(status')
           => feed # "dead" /\ SessionIsOpen]_sessionVars
  <2> SUFFICES ASSUME SessionInv, NEW read \in BOOLEAN, CrankMarketSession(read),
                      AllowsOpen(status')
               PROVE  feed # "dead" /\ SessionIsOpen
    OBVIOUS
  <2>1. TypeOK
    BY DEF SessionInv
  <2>2. status' # "Halted"
    BY DEF AllowsOpen
  <2>3. CASE kind = "SpotFx"
    <3>1. Open(read)
      BY <2>1, <2>2, <2>3, CrankCases, SpotFxCases
    <3> QED
      BY <3>1 DEF Open, Live
  <2>4. CASE kind # "SpotFx"
    <3>1. Live(read) /\ kind = "Crypto"
      BY <2>1, <2>2, <2>4, CrankCases
    <3> QED
      BY <3>1 DEF Live, SessionIsOpen
  <2> QED
    BY <2>3, <2>4
<1> QED
  BY <1>1, SessionStarts, SessionStep, PTL DEF SessionSpec, CrankFailsClosed

(* The countdown.  A tick d after t is t + d, or that much of next week. *)
LEMMA WeekWraps ==
  ASSUME NEW w \in Nat \ {0}, NEW t \in 0..w - 1, NEW d \in 0..w
  PROVE  (t + d) % w = IF t + d < w THEN t + d ELSE t + d - w
<1> DEFINE n == t + d
           k == n \div w
           r == n % w
<1>1. n \in Nat /\ n < 2 * w
  OBVIOUS
<1>2. r \in 0..w - 1 /\ k \in Int /\ n = w * k + r
  <2> HIDE DEF n
  <2> QED
    BY <1>1
<1> HIDE DEF k, r
<1>3. w * k > -w /\ w * k < 2 * w
  BY <1>1, <1>2
<1>4. k \in {0, 1}
  <2>1. ASSUME k <= -1 PROVE FALSE
    <3>1. w * k <= w * (-1)
      BY <1>2, <2>1
    <3> QED
      BY <1>2, <1>3, <3>1
  <2>2. ASSUME k >= 2 PROVE FALSE
    <3>1. w * k >= w * 2
      BY <1>2, <2>2
    <3> QED
      BY <1>2, <1>3, <3>1
  <2> QED
    BY <1>2, <2>1, <2>2
<1>5. r = n \/ r = n - w
  BY <1>1, <1>2, <1>4
<1> QED
  BY <1>1, <1>2, <1>5 DEF r

(* The least element of a set of numbers. *)
LEMMA LeastIs ==
  ASSUME NEW S \in SUBSET Int, NEW n \in S, \A d \in S : n <= d
  PROVE  Min(S) = n
<1>1. \A x \in S : (\A y \in S : x <= y) => x = n
  OBVIOUS
<1>2. /\ Min(S) \in S
      /\ \A y \in S : Min(S) <= y
  BY DEF Min
<1> QED
  BY <1>1, <1>2

LEMMA Countdown ==
  ASSUME TypeOK
  PROVE  CountdownAgrees
<1> SUFFICES ASSUME opensAt # closesAt, CalendarIsOpen(clock)
             PROVE  CalendarUntilClose(clock) =
                      Min({d \in 1..Week : ~CalendarIsOpen((clock + d) % Week)})
  BY DEF CountdownAgrees, CalendarUntilClose
<1> DEFINE n == CalendarUntilClose(clock)
           S == {d \in 1..Week : ~CalendarIsOpen((clock + d) % Week)}
<1>1. /\ Week \in Nat \ {0} /\ opensAt \in 0..Week - 1 /\ closesAt \in 0..Week - 1
      /\ clock \in 0..Week - 1
  BY SessionAssumption DEF TypeOK, Times
<1>2. clock # closesAt
  BY <1>1 DEF CalendarIsOpen
<1>3. n = IF closesAt > clock THEN closesAt - clock ELSE Week - clock + closesAt
  BY <1>1, <1>2 DEF CalendarUntilClose
<1> HIDE DEF n
<1>4. n \in 1..Week
  BY <1>1, <1>2, <1>3
<1>5. ASSUME NEW d \in 1..Week
      PROVE  (clock + d) % Week = IF clock + d < Week THEN clock + d ELSE clock + d - Week
  <2>1. d \in 0..Week
    BY <1>1
  <2> QED
    BY <1>1, <2>1, WeekWraps, Zenon
<1>6. ~ CalendarIsOpen((clock + n) % Week)
  <2>1. (clock + n) % Week = closesAt
    BY <1>1, <1>3, <1>4, <1>5
  <2>2. ~ CalendarIsOpen(closesAt)
    BY <1>1 DEF CalendarIsOpen
  <2> QED
    BY <2>1, <2>2
<1>7. ASSUME NEW d \in 1..Week, d < n
      PROVE  CalendarIsOpen((clock + d) % Week)
  <2> DEFINE at == (clock + d) % Week
  <2>1. at = IF clock + d < Week THEN clock + d ELSE clock + d - Week
    BY <1>5
  <2>2. \/ opensAt < closesAt /\ opensAt <= clock /\ clock < closesAt
        \/ opensAt > closesAt /\ (opensAt <= clock \/ clock < closesAt)
    BY DEF CalendarIsOpen
  <2> HIDE DEF at
  <2>3. \/ opensAt < closesAt /\ opensAt <= at /\ at < closesAt
        \/ opensAt > closesAt /\ (opensAt <= at \/ at < closesAt)
    BY <1>1, <1>3, <1>7, <2>1, <2>2
  <2>4. CalendarIsOpen(at)
    BY <2>3 DEF CalendarIsOpen
  <2> QED
    BY <2>4 DEF at
<1>8. n \in S
  BY <1>4, <1>6
<1>9. \A d \in S : n <= d
  BY <1>1, <1>4, <1>7
<1>10. S \in SUBSET Int
  OBVIOUS
<1> HIDE DEF S
<1>11. Min(S) = n
  BY <1>8, <1>9, <1>10, LeastIs
<1> QED
  BY <1>11 DEF S, n

(* For every week and every window, wrapped or not, the countdown ends at  *)
(* the first tick that is not open.                                        *)
THEOREM CountdownAlwaysAgrees == SessionSpec => []CountdownAgrees
<1>1. SessionInv => CountdownAgrees
  BY Countdown DEF SessionInv
<1> QED
  BY <1>1, SessionStarts, SessionStep, PTL DEF SessionSpec

-----------------------------------------------------------------------------
(* Trigger orders. *)

(* The copies agree with the history: an open position carries the slot of *)
(* the last opening at its address, an order that of the opening it was    *)
(* placed for.                                                             *)
Rests(k) == orders[k] # NoOrder

BornTyped ==
    /\ slot \in Nat
    /\ pos \in [Addresses -> [open : BOOLEAN, dir : Directions \cup {"Long"}, opened : Nat]]
    /\ orders \in [Keys -> [kind : Kinds \cup {"StopLoss"}, level : Nat, opened : Nat, of : Nat]]
    /\ born \in [Addresses -> Seq(Nat)]

PositionsBorn ==
    \A a \in Addresses : pos[a].open =>
        /\ Len(born[a]) > 0
        /\ pos[a].opened = born[a][Len(born[a])]

OrderBorn(k) ==
    /\ orders[k].of \in 1..Len(born[k[1]])
    /\ orders[k].opened = born[k[1]][orders[k].of]

OrdersBorn == \A k \in Keys : Rests(k) => OrderBorn(k)

TriggerInv == BornTyped /\ PositionsBorn /\ OrdersBorn

LEMMA TriggerInit == Init => TriggerInv
<1> SUFFICES ASSUME Init PROVE TriggerInv
  OBVIOUS
<1>1. BornTyped
  BY DEF Init, BornTyped, NoPosition, NoOrder
<1>2. PositionsBorn
  BY DEF Init, PositionsBorn, NoPosition
<1>3. OrdersBorn
  BY DEF Init, OrdersBorn, OrderBorn, Rests
<1> QED
  BY <1>1, <1>2, <1>3 DEF TriggerInv

(* A key's first part is the address. *)
LEMMA KeyAddress == \A k \in Keys : k[1] \in Addresses
  BY DEF Keys

(* What leaves openings and orders alone, and positions open no new ones. *)
LEMMA PositionsShrink ==
  ASSUME TriggerInv, UNCHANGED <<orders, born>>, slot' \in Nat,
         \A a \in Addresses : pos'[a] \in {pos[a], NoPosition},
         pos' \in [Addresses -> [open : BOOLEAN, dir : Directions \cup {"Long"}, opened : Nat]]
  PROVE  TriggerInv'
<1>1. BornTyped'
  BY DEF TriggerInv, BornTyped
<1>2. PositionsBorn'
  BY DEF TriggerInv, PositionsBorn, NoPosition
<1>3. OrdersBorn'
  BY DEF TriggerInv, OrdersBorn, OrderBorn, Rests
<1> QED
  BY <1>1, <1>2, <1>3 DEF TriggerInv

(* The same with an order gone. *)
LEMMA OrderGoes ==
  ASSUME TriggerInv, NEW k \in Keys, orders' = [orders EXCEPT ![k] = NoOrder],
         UNCHANGED <<slot, born>>,
         \A a \in Addresses : pos'[a] \in {pos[a], NoPosition},
         pos' \in [Addresses -> [open : BOOLEAN, dir : Directions \cup {"Long"}, opened : Nat]]
  PROVE  TriggerInv'
<1>1. BornTyped'
  BY DEF TriggerInv, BornTyped, NoOrder
<1>2. PositionsBorn'
  BY DEF TriggerInv, PositionsBorn, NoPosition
<1>3. OrdersBorn'
  <2> SUFFICES ASSUME NEW l \in Keys, Rests(l)' PROVE OrderBorn(l)'
    BY DEF OrdersBorn
  <2> QED
    BY DEF TriggerInv, OrdersBorn, OrderBorn, Rests, BornTyped
<1> QED
  BY <1>1, <1>2, <1>3 DEF TriggerInv

(* reduce gives what the two lemmas ask for. *)
LEMMA ReduceShrinks ==
  ASSUME TriggerInv, NEW a \in Addresses, Reduce(a) \/ pos' = [pos EXCEPT ![a] = NoPosition]
  PROVE  /\ \A b \in Addresses : pos'[b] \in {pos[b], NoPosition}
         /\ pos' \in [Addresses -> [open : BOOLEAN, dir : Directions \cup {"Long"}, opened : Nat]]
<1>1. pos' = pos \/ pos' = [pos EXCEPT ![a] = NoPosition]
  BY DEF Reduce
<1>2. CASE pos' = pos
  BY <1>2 DEF TriggerInv, BornTyped
<1>3. CASE pos' = [pos EXCEPT ![a] = NoPosition]
  <2>1. NoPosition \in [open : BOOLEAN, dir : Directions \cup {"Long"}, opened : Nat]
    BY DEF NoPosition
  <2> QED
    BY <1>3, <2>1 DEF TriggerInv, BornTyped
<1> QED
  BY <1>1, <1>2, <1>3

LEMMA OpenStep ==
  ASSUME TriggerInv, NEW a \in Addresses, NEW d \in Directions, OpenPosition(a, d)
  PROVE  TriggerInv'
<1>1. BornTyped'
  BY DEF TriggerInv, BornTyped, OpenPosition, market, keeper
<1>2. PositionsBorn'
  BY DEF TriggerInv, BornTyped, PositionsBorn, OpenPosition
<1>3. OrdersBorn'
  <2> SUFFICES ASSUME NEW k \in Keys, Rests(k)' PROVE OrderBorn(k)'
    BY DEF OrdersBorn
  <2>1. orders' = orders /\ Rests(k) /\ k[1] \in Addresses
    BY KeyAddress DEF OpenPosition, Rests
  <2>2. /\ orders[k].of \in 1..Len(born[k[1]])
        /\ orders[k].opened = born[k[1]][orders[k].of]
    BY <2>1 DEF TriggerInv, OrdersBorn, OrderBorn
  <2>3. CASE k[1] = a
    <3>1. born'[k[1]] = Append(born[k[1]], slot) /\ born[k[1]] \in Seq(Nat)
      BY <2>3, <2>1 DEF OpenPosition, TriggerInv, BornTyped
    <3>2. /\ Len(born'[k[1]]) = Len(born[k[1]]) + 1
          /\ \A i \in 1..Len(born[k[1]]) : born'[k[1]][i] = born[k[1]][i]
      BY <3>1
    <3> QED
      BY <2>1, <2>2, <3>1, <3>2 DEF OrderBorn
  <2>4. CASE k[1] # a
    BY <2>1, <2>2, <2>4 DEF OpenPosition, TriggerInv, BornTyped, OrderBorn
  <2> QED
    BY <2>3, <2>4
<1> QED
  BY <1>1, <1>2, <1>3 DEF TriggerInv

LEMMA PlaceStep ==
  ASSUME TriggerOrdersAssumption, TriggerInv, NEW k \in Keys, NEW what \in Kinds,
         NEW level \in Levels, PlaceTriggerOrder(k, what, level)
  PROVE  TriggerInv'
<1> k[1] \in Addresses
  BY KeyAddress
<1>1. BornTyped'
  <2>1. pos[k[1]].opened \in Nat /\ born[k[1]] \in Seq(Nat)
    BY DEF TriggerInv, BornTyped
  <2>2. pos[k[1]].opened \in Nat /\ Len(born[k[1]]) \in Nat /\ level \in Nat
    BY <2>1 DEF TriggerOrdersAssumption
  <2> DEFINE new == [kind |-> what, level |-> level, opened |-> pos[k[1]].opened,
                     of |-> Len(born[k[1]])]
  <2>3. orders' = [orders EXCEPT ![k] = new]
    BY DEF PlaceTriggerOrder
  <2>4. new \in [kind : Kinds \cup {"StopLoss"}, level : Nat, opened : Nat, of : Nat]
    BY <2>2
  <2> HIDE DEF new
  <2>5. orders' \in [Keys -> [kind : Kinds \cup {"StopLoss"}, level : Nat, opened : Nat, of : Nat]]
    BY <2>4, <2>3 DEF TriggerInv, BornTyped
  <2> QED
    BY <2>5 DEF TriggerInv, BornTyped, PlaceTriggerOrder, market
<1>2. PositionsBorn'
  BY DEF TriggerInv, PositionsBorn, PlaceTriggerOrder
<1>3. OrdersBorn'
  <2> SUFFICES ASSUME NEW l \in Keys, Rests(l)' PROVE OrderBorn(l)'
    BY DEF OrdersBorn
  <2>1. born' = born
    BY DEF PlaceTriggerOrder
  <2>2. CASE l = k
    <3>1. /\ orders'[k].of = Len(born[k[1]])
          /\ orders'[k].opened = pos[k[1]].opened
          /\ pos[k[1]].open
      BY DEF PlaceTriggerOrder, TriggerInv, BornTyped
    <3>2. Len(born[k[1]]) > 0 /\ pos[k[1]].opened = born[k[1]][Len(born[k[1]])]
      BY <3>1 DEF TriggerInv, PositionsBorn
    <3>3. Len(born[k[1]]) \in Nat
      BY DEF TriggerInv, BornTyped
    <3> QED
      BY <2>1, <2>2, <3>1, <3>2, <3>3 DEF OrderBorn
  <2>3. CASE l # k
    BY <2>1, <2>3 DEF PlaceTriggerOrder, TriggerInv, OrdersBorn, OrderBorn, Rests, BornTyped
  <2> QED
    BY <2>2, <2>3
<1> QED
  BY <1>1, <1>2, <1>3 DEF TriggerInv

LEMMA ChainStep ==
  ASSUME TriggerOrdersAssumption, TriggerInv, Chain
  PROVE  TriggerInv'
<1>1. CASE \E a \in Addresses, d \in Directions : OpenPosition(a, d)
  BY <1>1, OpenStep
<1>2. CASE \E a \in Addresses : ReducePosition(a)
  BY <1>2, ReduceShrinks, PositionsShrink DEF ReducePosition, market, TriggerInv, BornTyped
<1>3. CASE \E a \in Addresses : TakePosition(a)
  BY <1>3, ReduceShrinks, PositionsShrink DEF TakePosition, market, TriggerInv, BornTyped
<1>4. CASE \E k \in Keys, what \in Kinds, level \in Levels : PlaceTriggerOrder(k, what, level)
  BY <1>4, PlaceStep
<1>5. CASE \E k \in Keys : CancelTriggerOrder(k)
  BY <1>5, OrderGoes DEF CancelTriggerOrder, market, TriggerInv, BornTyped
<1>6. CASE \E k \in Keys : ExecuteTriggerOrder(k)
  BY <1>6, ReduceShrinks, OrderGoes, KeyAddress DEF ExecuteTriggerOrder, Fill, market
<1>7. CASE NextSlot
  BY <1>7, PositionsShrink DEF NextSlot, TriggerInv, BornTyped
<1>8. CASE PriceMoves
  BY <1>8, PositionsShrink DEF PriceMoves, TriggerInv, BornTyped
<1> QED
  BY <1>1, <1>2, <1>3, <1>4, <1>5, <1>6, <1>7, <1>8 DEF Chain

(* The keeper touches the chain only with what it sends. *)
LEMMA KeeperStep ==
  ASSUME TriggerInv, Keeper
  PROVE  TriggerInv'
<1>1. CASE \E k \in Keys : Send(k)
  BY <1>1, ReduceShrinks, OrderGoes, KeyAddress DEF Send, Fill, market
<1>2. CASE UNCHANGED chain
  BY <1>2 DEF chain, market, TriggerInv, BornTyped, PositionsBorn, OrdersBorn, OrderBorn, Rests
<1> QED
  BY <1>1, <1>2 DEF Keeper, ReadPositions, ReadTriggers, ReadPrices, RefreshFails,
     RefreshPrices, BookAges, Collect, SendFails

LEMMA TriggerStep ==
  ASSUME TriggerOrdersAssumption, TriggerInv, [Next]_vars
  PROVE  TriggerInv'
<1>1. CASE UNCHANGED vars
  BY <1>1 DEF vars, TriggerInv, BornTyped, PositionsBorn, OrdersBorn, OrderBorn, Rests
<1> QED
  BY <1>1, ChainStep, KeeperStep DEF Next

(* A step that takes an order with the position it closed is a fill. *)
LEMMA FilledIsDue ==
  ASSUME TriggerInv, [Next]_vars, NEW k \in Keys, Filled(k)
  PROVE  Due(k)
<1> USE DEF Filled
<1>1. orders[k] # NoOrder /\ orders'[k] = NoOrder /\ pos' # pos /\ orders' # orders
  OBVIOUS
<1>2. \E l \in Keys : Fill(l)
  BY <1>1 DEF Next, Chain, Keeper, vars, chain, market, keeper, OpenPosition, ReducePosition,
     TakePosition, PlaceTriggerOrder, CancelTriggerOrder, ExecuteTriggerOrder, NextSlot,
     PriceMoves, ReadPositions, ReadTriggers, ReadPrices, RefreshFails, RefreshPrices,
     BookAges, Collect, Send, SendFails
<1>3. PICK l \in Keys : Fill(l)
  BY <1>2
<1>4. l = k
  BY <1>1, <1>3 DEF Fill, TriggerInv, BornTyped
<1> QED
  BY <1>3, <1>4 DEF Fill

LEMMA FilledWithinSlot ==
  ASSUME TriggerInv, [Next]_vars, NEW k \in Keys, Filled(k)
  PROVE  born[k[1]][orders[k].of] = born[k[1]][Len(born[k[1]])]
<1>1. Due(k)
  BY FilledIsDue
<1>2. /\ orders[k] # NoOrder /\ pos[k[1]].open
      /\ orders[k].opened = pos[k[1]].opened
  BY <1>1 DEF Due, Met
<1>3. orders[k].opened = born[k[1]][orders[k].of]
  BY <1>2 DEF TriggerInv, OrdersBorn, OrderBorn, Rests
<1>4. pos[k[1]].opened = born[k[1]][Len(born[k[1]])]
  BY <1>2, KeyAddress DEF TriggerInv, PositionsBorn
<1> QED
  BY <1>2, <1>3, <1>4

(* Whatever closes, liquidations and openings come between, an order that  *)
(* fills a position it was not placed for fills one that opened in the     *)
(* slot its own did (execute_trigger_order, position_opened_at_slot).      *)
THEOREM OrdersBoundToSlot == Spec => InheritsOnlyWithinSlot
<1>1. Init => TriggerInv
  BY TriggerInit
<1>2. TriggerInv /\ [Next]_vars => TriggerInv'
  BY TriggerStep, TriggerOrdersAssumption
<1>3. TriggerInv /\ [Next]_vars =>
        [\A k \in Keys : Filled(k) =>
            born[k[1]][orders[k].of] = born[k[1]][Len(born[k[1]])]]_vars
  BY FilledWithinSlot
<1> QED
  BY <1>1, <1>2, <1>3, PTL DEF Spec, InheritsOnlyWithinSlot
=============================================================================
