---------------------------- MODULE TriggerOrders ----------------------------
(***************************************************************************)
(* Take-profits and stop-losses: the orders that rest on chain             *)
(* (solfx-core, trigger.rs) and the keeper that fires them from a mirror   *)
(* of the chain (solfx-keeper, services.rs and book.rs).                   *)
(*                                                                         *)
(* The address of a position is used again after it closed, and its orders *)
(* stay.  Anyone may fill an order that is met; the keeper reads markets,  *)
(* positions, orders and prices one call after the other, collects what    *)
(* looks ready and sends at most KeeperCap of it, one after the other,     *)
(* while the chain moves on.  Any of its calls may fail.                   *)
(*                                                                         *)
(* One market, whose status allows trades.  Of a size only zero matters    *)
(* here: whether a close or a fill leaves a rest is open, what it pays is  *)
(* the matter of module Trading.  A price of 0 is one that fails the gate  *)
(* of trades.  Rents are left out.  A transaction whose answer is lost and *)
(* that lands is one that somebody else sent.                              *)
(***************************************************************************)
EXTENDS Naturals, Sequences, FiniteSets

CONSTANTS
    Addresses,  \* of positions: (user, market, nonce)
    Ids,        \* order_id
    Prices,     \* of the oracle; 0 for one that no trade may use
    Levels,     \* trigger prices
    Directions, Kinds,
    MinHold,    \* Market::min_hold_slots
    KeeperCap,  \* MAX_ACTIONS_PER_PASS
    MaxSlot,    \* bound: where the slots stop
    MaxOpens    \* bound: positions ever opened at an address

ASSUME TriggerOrdersAssumption ==
    /\ Addresses \subseteq Nat /\ Ids \subseteq Nat
    /\ Prices \subseteq Nat /\ Levels \subseteq Nat \ {0}
    /\ Directions \subseteq {"Long", "Short"}
    /\ Kinds \subseteq {"TakeProfit", "StopLoss"}
    /\ MinHold \in Nat /\ KeeperCap \in Nat \ {0}

VARIABLES
    slot, price,
    pos,      \* Position, by address
    orders,   \* TriggerOrder, by address and id
    born,     \* history: the slots in which the positions of an address opened
    book,     \* the keeper's mirror, as far as it decides what is ready
    reading,  \* the call of the full refresh that is next, "no" between two
    fresh,    \* book_is_fresh
    plan      \* the orders the pass has still to send

vars == <<slot, price, pos, orders, born, book, reading, fresh, plan>>
market == <<slot, price>>
keeper == <<book, reading, fresh, plan>>

Keys == Addresses \X Ids

NoPosition == [open |-> FALSE, dir |-> "Long", opened |-> 0]

(* of is history: which of the address's positions the order was made for. *)
NoOrder == [kind |-> "StopLoss", level |-> 0, opened |-> 0, of |-> 0]

Priced == price # 0

(* TriggerKind::is_met *)
IsMet(kind, d, level, p) ==
    IF (kind = "TakeProfit") = (d = "Long") THEN p >= level ELSE p <= level

Init ==
    /\ slot = 1
    /\ price \in Prices
    /\ pos = [a \in Addresses |-> NoPosition]
    /\ orders = [k \in Keys |-> NoOrder]
    /\ born = [a \in Addresses |-> <<>>]
    /\ book = [price |-> 0, dirs |-> [a \in {} |-> ""], triggers |-> [k \in {} |-> NoOrder]]
    /\ reading = "no"
    /\ fresh = FALSE
    /\ plan = {}

-----------------------------------------------------------------------------
(* The chain *)

OpenPosition(a, d) ==
    /\ Priced
    /\ ~ pos[a].open
    /\ Len(born[a]) < MaxOpens
    /\ pos' = [pos EXCEPT ![a] = [open |-> TRUE, dir |-> d, opened |-> slot]]
    /\ born' = [born EXCEPT ![a] = Append(@, slot)]
    /\ UNCHANGED <<market, orders, keeper>>

(* reduce leaves a rest, or the account is gone with the whole position.   *)
(* The orders stay.                                                        *)
Reduce(a) ==
    /\ pos[a].open /\ Priced
    /\ slot - pos[a].opened >= MinHold
    /\ pos' \in {pos, [pos EXCEPT ![a] = NoPosition]}

(* decrease_position and close_position, by the owner *)
ReducePosition(a) ==
    /\ Reduce(a)
    /\ UNCHANGED <<market, orders, born, keeper>>

(* liquidate_position or auto_deleverage, at prices and at times when a    *)
(* trade is refused, and whatever the hold                                 *)
TakePosition(a) ==
    /\ pos[a].open
    /\ pos' = [pos EXCEPT ![a] = NoPosition]
    /\ UNCHANGED <<market, orders, born, keeper>>

(* place_trigger_order: only what is not met already. *)
PlaceTriggerOrder(k, kind, level) ==
    LET p == pos[k[1]]
    IN  /\ p.open /\ Priced
        /\ orders[k] = NoOrder
        /\ ~ IsMet(kind, p.dir, level, price)
        /\ orders' = [orders EXCEPT ![k] =
                [kind |-> kind, level |-> level, opened |-> p.opened, of |-> Len(born[k[1]])]]
        /\ UNCHANGED <<market, pos, born, keeper>>

(* cancel_trigger_order: its owner, at any time *)
CancelTriggerOrder(k) ==
    /\ orders[k] # NoOrder
    /\ orders' = [orders EXCEPT ![k] = NoOrder]
    /\ UNCHANGED <<market, pos, born, keeper>>

Met(k) ==
    /\ orders[k] # NoOrder /\ pos[k[1]].open
    /\ Priced
    /\ slot - pos[k[1]].opened >= MinHold
    /\ IsMet(orders[k].kind, pos[k[1]].dir, orders[k].level, price)

(* A mutant: the order is bound to the address alone. *)
UnboundDue(k) == Met(k)

(* What execute_trigger_order asks for, the hold of reduce included. *)
Due(k) == Met(k) /\ orders[k].opened = pos[k[1]].opened

Fill(k) ==
    /\ Due(k)
    /\ Reduce(k[1])
    /\ orders' = [orders EXCEPT ![k] = NoOrder]
    /\ UNCHANGED <<market, born>>

(* execute_trigger_order, whoever sends it *)
ExecuteTriggerOrder(k) == Fill(k) /\ UNCHANGED keeper

NextSlot ==
    /\ slot < MaxSlot
    /\ slot' = slot + 1
    /\ UNCHANGED <<price, pos, orders, born, keeper>>

PriceMoves ==
    /\ price' \in Prices
    /\ UNCHANGED <<slot, pos, orders, born, keeper>>

Chain ==
    \/ \E a \in Addresses :
        \/ \E d \in Directions : OpenPosition(a, d)
        \/ ReducePosition(a)
        \/ TakePosition(a)
    \/ \E k \in Keys :
        \/ \E kind \in Kinds, level \in Levels : PlaceTriggerOrder(k, kind, level)
        \/ CancelTriggerOrder(k)
        \/ ExecuteTriggerOrder(k)
    \/ NextSlot
    \/ PriceMoves

-----------------------------------------------------------------------------
(* The keeper *)

chain == <<market, pos, orders, born>>

(* Book::refresh holds the lock from its first call to its last. *)
ReadPositions ==
    /\ reading = "no"
    /\ reading' = "triggers"
    /\ book' = [book EXCEPT !.dirs = [a \in {b \in Addresses : pos[b].open} |-> pos[a].dir]]
    /\ UNCHANGED <<chain, fresh, plan>>

ReadTriggers ==
    /\ reading = "triggers"
    /\ reading' = "prices"
    /\ book' = [book EXCEPT !.triggers = [k \in {l \in Keys : orders[l] # NoOrder} |->
                                        [kind |-> orders[k].kind, level |-> orders[k].level]]]
    /\ UNCHANGED <<chain, fresh, plan>>

ReadPrices ==
    /\ reading = "prices"
    /\ reading' = "no"
    /\ fresh' = TRUE
    /\ book' = [book EXCEPT !.price = price]
    /\ UNCHANGED <<chain, plan>>

(* A call fails: what was read stays, what was not is as old as before. *)
RefreshFails ==
    /\ reading # "no"
    /\ reading' = "no"
    /\ UNCHANGED <<chain, book, fresh, plan>>

(* refresh_prices between two full refreshes does not make the book fresh. *)
RefreshPrices ==
    /\ reading = "no"
    /\ book' = [book EXCEPT !.price = price]
    /\ UNCHANGED <<chain, reading, fresh, plan>>

BookAges ==
    /\ fresh' = FALSE
    /\ UNCHANGED <<chain, book, reading, plan>>

(* collect_ready_triggers, which does not ask whose order it is *)
Ready ==
    {k \in DOMAIN book.triggers :
        /\ book.price # 0
        /\ k[1] \in DOMAIN book.dirs
        /\ IsMet(book.triggers[k].kind, book.dirs[k[1]], book.triggers[k].level, book.price)}

(* A mutant: the first orders by address, the same in every pass. *)
SortedBatches ==
    LET Ahead(k) == {l \in Ready : l[1] < k[1] \/ (l[1] = k[1] /\ l[2] < k[2])}
    IN  {{k \in Ready : Cardinality(Ahead(k)) < KeeperCap}}

(* take(MAX_ACTIONS_PER_PASS) of a hash map's order, new with every book *)
Batches == {b \in SUBSET Ready : Cardinality(b) = KeeperCap \/ (b = Ready /\ Cardinality(b) < KeeperCap)}

(* A trigger pass begins with the book of the moment. *)
Collect(k) ==
    /\ reading = "no" /\ fresh /\ plan = {}
    /\ plan' \in {b \in Batches : k \in b}
    /\ UNCHANGED <<chain, book, reading, fresh>>

(* A transaction of the pass: it fills the order ... *)
Send(k) ==
    /\ k \in plan
    /\ Fill(k)
    /\ plan' = plan \ {k}
    /\ UNCHANGED <<book, reading, fresh>>

(* ... or it is refused or lost.  The next pass would try again. *)
SendFails(k) ==
    /\ k \in plan
    /\ plan' = plan \ {k}
    /\ UNCHANGED <<chain, book, reading, fresh>>

Keeper ==
    \/ ReadPositions \/ ReadTriggers \/ ReadPrices
    \/ RefreshFails
    \/ RefreshPrices
    \/ BookAges
    \/ \E k \in Keys : Collect(k) \/ Send(k) \/ SendFails(k)

Next == Chain \/ Keeper

(* The timers keep firing and a pass comes before a new book is old; calls *)
(* fail any number of times, but not for ever; with the map's order drawn  *)
(* anew for every book, every order is some time among the first.          *)
Fairness ==
    /\ SF_vars(ReadPositions) /\ SF_vars(ReadTriggers) /\ SF_vars(ReadPrices)
    /\ \A k \in Keys : SF_vars(Collect(k)) /\ SF_vars(Send(k)) /\ WF_vars(Send(k) \/ SendFails(k))

Spec == Init /\ [][Next]_vars /\ Fairness

-----------------------------------------------------------------------------
(* An order went together with the position it closed. *)
Filled(k) ==
    /\ orders[k] # NoOrder /\ orders'[k] = NoOrder
    /\ pos[k[1]].open /\ ~ pos'[k[1]].open

(* "Binds the order to this position, not merely to its address"           *)
(* (place_trigger_order), as the slot does it: through any sequence of     *)
(* closes, liquidations and openings, an order that fills a later position *)
(* fills one that opened in the very slot its own did.                     *)
InheritsOnlyWithinSlot ==
    [][\A k \in Keys : Filled(k) =>
        born[k[1]][orders[k].of] = born[k[1]][Len(born[k[1]])]]_vars

(* "two positions cannot occupy one address in the same slot, since the    *)
(* first must be closed and the minimum-hold rule forbids reopening that   *)
(* fast" (TriggerOrder::position_opened_at_slot): an order fills the       *)
(* position it was placed for and no other.                                *)
FillsItsOwnPosition ==
    [][\A k \in Keys : Filled(k) => orders[k].of = Len(born[k[1]])]_vars

(* An order that is due does not stay so: a mirror read in pieces, failed  *)
(* calls, orders that are refused for ever and the cap of a pass delay the *)
(* fill and do not prevent it (trigger_pass, Book::refresh).               *)
DueOrderIsServed == \A k \in Keys : Due(k) ~> ~ Due(k)
=============================================================================
