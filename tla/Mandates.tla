------------------------------ MODULE Mandates ------------------------------
(***************************************************************************)
(* noxfunds: a mandate's money and positions, and the trader's record.     *)
(*                                                                         *)
(* An investor's principal sits in the mandate's vault and in a SolFX      *)
(* account that only the mandate may sign for.  The mandate keeps its own  *)
(* mirror of that account: which positions are open (slots), what they     *)
(* cost (booked_margin_fees) and what free collateral should be            *)
(* (last_free_collateral).  SolFX changes the account behind its back: a   *)
(* stop, a take-profit, a liquidation or a deleveraging closes a position  *)
(* with no call of noxfunds.  reconcile_position then recovers the result  *)
(* from the difference of the two.                                         *)
(*                                                                         *)
(* Position addresses are reused: a position is named by its address and   *)
(* its birth, the code's opened_at_slot.  Every instruction is its own     *)
(* transaction.  The pause flag only forbids what is optional here         *)
(* (fund, deposit, open, remove margin) and is left out; so are prices:    *)
(* what a close credits and what an observation finds are inputs.          *)
(***************************************************************************)
EXTENDS TrackRecord

CONSTANTS
    Mandated,        \* mandates 1..Mandated of one trader
    Addresses,       \* addresses 1..Addresses of positions, for one mandate
    MaxPositions,    \* rules.max_concurrent_positions
    MaxTotal,        \* rules.max_total_notional
    MaxDrawdown,     \* rules.max_drawdown_bps
    MaxActive,       \* the tier's max_concurrent_mandates
    Principal, OpenSize, OpenMargin, OpenFee, OpenNotional,
    OrderIds,        \* ids of stop orders at one position
    DepositAmounts,  \* amounts moved into SolFX
    MarginMoves,     \* amounts of margin added or removed
    Credits,         \* what a whole or partial close may return
    Drawdowns,       \* what an observation may find
    HeldSlots,       \* the hold of a measured trade
    WholeBps, FeeBps, TraderBps,
    MaxOpens,        \* bound of this model: positions opened
    MaxExtras        \* bound of this model: partial closes, margin moves, stop
                     \* moves and gifts, together

ASSUME MandateAssumption ==
    /\ Mandated \in Nat /\ Addresses \in Nat
    /\ Principal \in Nat /\ OpenMargin \in Nat /\ OpenFee \in Nat
    /\ OpenSize \in Nat \ {0} /\ OpenNotional \in Nat
    /\ DepositAmounts \subseteq Nat /\ MarginMoves \subseteq Nat /\ Credits \subseteq Nat
    /\ Drawdowns \subseteq Nat /\ HeldSlots \in Nat
    /\ WholeBps \in Nat \ {0} /\ FeeBps \in 0..WholeBps /\ TraderBps \in 0..WholeBps

MandateIds == 1..Mandated
Keys == 1..Addresses

VARIABLES
    state,          \* Mandate::state, "none" before fund_mandate
    slots,          \* Mandate::slots: the keys booked, with their notional
    openPositions,  \* Mandate::open_positions
    openNotional,   \* Mandate::open_notional
    last,           \* Mandate::last_free_collateral
    booked,         \* Mandate::booked_margin_fees
    realized,       \* Mandate::realized_pnl
    vault,          \* the mandate's own USDC account
    free,           \* SolFX: UserAccount::free_collateral
    pos,            \* SolFX: the position at each address, size 0 when none
    stops,          \* SolFX: the resting stop orders
    opens,          \* how many positions were opened; also the next birth
    profile,        \* TraderProfile
    replay,         \* what verify.ts derives from the events so far
    extras,         \* how many of the steps that MaxExtras bounds were taken
    truth,          \* ghost: the result of everything closed, wherever
    gifts,          \* ghost: USDC sent to the vault by anyone
    paid            \* ghost: what settlement paid, and to whom

vars == <<state, slots, openPositions, openNotional, last, booked, realized, vault, free,
          pos, stops, opens, profile, replay, extras, truth, gifts, paid>>

book == <<slots, openPositions, openNotional>>
venue == <<free, pos, stops>>
record == <<profile, replay>>
ends == <<gifts, paid>>

NoPosition == [size |-> 0, margin |-> 0, fee |-> 0, birth |-> 0]
Unbooked == [open |-> FALSE, notional |-> 0]
NothingPaid == [investor |-> 0, trader |-> 0, protocol |-> 0]

TypeOK ==
    /\ state \in [MandateIds -> {"none", "Active", "Breached", "WindingDown", "Settled"}]
    /\ slots \in [MandateIds -> [Keys -> [open : BOOLEAN, notional : Nat]]]
    /\ openPositions \in [MandateIds -> Nat]
    /\ openNotional \in [MandateIds -> Nat]
    /\ last \in [MandateIds -> Int]
    /\ booked \in [MandateIds -> Nat]
    /\ realized \in [MandateIds -> Int]
    /\ vault \in [MandateIds -> Nat]
    /\ free \in [MandateIds -> Nat]
    /\ pos \in [MandateIds -> [Keys -> [size : Nat, margin : Nat, fee : Nat, birth : Nat]]]
    /\ stops \in [MandateIds -> SUBSET [key : Keys, id : OrderIds, birth : 1..MaxOpens]]
    /\ opens \in 0..MaxOpens
    /\ profile \in [DOMAIN NoRecord -> Nat]
    /\ replay.d \in [DOMAIN NoRecord -> Nat]
    /\ truth \in [MandateIds -> Int]
    /\ extras \in 0..MaxExtras
    /\ gifts \in [MandateIds -> Nat]
    /\ paid \in [MandateIds -> [investor : Nat, trader : Nat, protocol : Nat]]

Init ==
    /\ state = [m \in MandateIds |-> "none"]
    /\ slots = [m \in MandateIds |-> [k \in Keys |-> Unbooked]]
    /\ openPositions = [m \in MandateIds |-> 0]
    /\ openNotional = [m \in MandateIds |-> 0]
    /\ last = [m \in MandateIds |-> 0]
    /\ booked = [m \in MandateIds |-> 0]
    /\ realized = [m \in MandateIds |-> 0]
    /\ vault = [m \in MandateIds |-> 0]
    /\ free = [m \in MandateIds |-> 0]
    /\ pos = [m \in MandateIds |-> [k \in Keys |-> NoPosition]]
    /\ stops = [m \in MandateIds |-> {}]
    /\ opens = 0
    /\ profile = NoRecord
    /\ replay = NothingReplayed(MandateIds)
    /\ extras = 0
    /\ truth = [m \in MandateIds |-> 0]
    /\ gifts = [m \in MandateIds |-> 0]
    /\ paid = [m \in MandateIds |-> NothingPaid]

Live(m, k) == pos[m][k].size > 0
Booked(m) == {k \in Keys : slots[m][k].open}
Gone(m) == {k \in Booked(m) : ~Live(m, k)}
Stopped(m) == state[m] \in {"Breached", "WindingDown"}

(* What opening a position took out of free collateral and it still holds. *)
Cost(p) == p.margin + p.fee
LiveCost(m) == SumTo([k \in Keys |-> Cost(pos[m][k])], Addresses)

(* Gone or shrunk on SolFX, and not yet in the mandate's own figures.      *)
Unreconciled(m) == (free[m] - last[m]) - (booked[m] - LiveCost(m))

Emitted(events) == replay' = Replayed(replay, events)
Silent == UNCHANGED replay

-----------------------------------------------------------------------------
(* The investor *)

(* fund_mandate *)
FundMandate(m) ==
    /\ state[m] = "none"
    /\ profile.active < MaxActive
    /\ state' = [state EXCEPT ![m] = "Active"]
    /\ vault' = [vault EXCEPT ![m] = Principal]
    /\ profile' = [profile EXCEPT !.funded = @ + 1, !.active = @ + 1]
    /\ Emitted(<<MandateFunded(m)>>)
    /\ UNCHANGED <<book, venue, last, booked, realized, opens, truth, ends>>

(* fund_solfx_collateral: by anyone, in every state. *)
FundSolfxCollateral(m, amount) ==
    /\ amount <= vault[m]
    /\ vault' = [vault EXCEPT ![m] = @ - amount]
    /\ free' = [free EXCEPT ![m] = @ + amount]
    /\ last' = [last EXCEPT ![m] = @ + amount]
    /\ Silent
    /\ UNCHANGED <<state, book, booked, realized, pos, stops, opens, profile, truth, ends>>

(* request_settlement: only from Active, so that a breach stays on record. *)
RequestSettlement(m) ==
    /\ state[m] = "Active"
    /\ state' = [state EXCEPT ![m] = "WindingDown"]
    /\ Silent
    /\ UNCHANGED <<book, venue, last, booked, realized, vault, opens, profile, truth, ends>>

(* The vault is a token account: anyone can send to it. *)
Gift(m) ==
    /\ state[m] \notin {"none", "Settled"}
    /\ gifts' = [gifts EXCEPT ![m] = @ + 1]
    /\ vault' = [vault EXCEPT ![m] = @ + 1]
    /\ Silent
    /\ UNCHANGED <<state, book, venue, last, booked, realized, opens, profile, truth, paid>>

(* split: the fee is a ceiling of the gross profit, the trader's share a   *)
(* floor of the net, and the investor has the remainder.                   *)
Split(final) ==
    LET gross    == Larger(final - Principal, 0)
        protocol == -((-(gross * FeeBps)) \div WholeBps)
        trader   == ((gross - protocol) * TraderBps) \div WholeBps
    IN  [investor |-> final - protocol - trader, trader |-> trader, protocol |-> protocol]

(* claim_settlement with the amount of the vault it divides. *)
SettledWith(m, final) ==
    /\ Stopped(m)
    /\ openPositions[m] = 0
    /\ state' = [state EXCEPT ![m] = "Settled"]
    /\ last' = [last EXCEPT ![m] = @ - free[m]]
    /\ free' = [free EXCEPT ![m] = 0]
    /\ paid' = [paid EXCEPT ![m] = Split(final)]
    /\ vault' = [vault EXCEPT ![m] = @ + free[m] - final]
    /\ profile' = [profile EXCEPT
                     !.active = Larger(0, @ - 1),
                     !.settledInProfit = IF realized[m] > 0 THEN @ + 1 ELSE @]
    /\ Emitted(<<MandateSettled(m)>>)
    /\ UNCHANGED <<book, booked, realized, pos, stops, opens, truth, gifts>>

(* A mutant: the vault is read before the withdrawal. *)
StaleClaimSettlement(m) == SettledWith(m, vault[m])

ClaimSettlement(m) == SettledWith(m, vault[m] + free[m])

-----------------------------------------------------------------------------
(* The trader *)

(* funded_open_position and funded_fill_entry_order: the rules, the open   *)
(* and the stop in one instruction.  SolFX refuses an address or an order  *)
(* id in use; book refuses a slot still open.                              *)
OpenWithStop(m, k, stop) ==
    /\ state[m] = "Active"
    /\ openPositions[m] < MaxPositions
    /\ openNotional[m] + OpenNotional <= MaxTotal
    /\ opens < MaxOpens
    /\ ~Live(m, k)
    /\ free[m] >= OpenMargin + OpenFee
    /\ ~slots[m][k].open
    /\ opens' = opens + 1
    /\ pos' = [pos EXCEPT ![m][k] = [size |-> OpenSize, margin |-> OpenMargin,
                                     fee |-> OpenFee, birth |-> opens + 1]]
    /\ free' = [free EXCEPT ![m] = @ - (OpenMargin + OpenFee)]
    /\ stops' = [stops EXCEPT ![m] = @ \cup stop]
    /\ slots' = [slots EXCEPT ![m][k] = [open |-> TRUE, notional |-> OpenNotional]]
    /\ openPositions' = [openPositions EXCEPT ![m] = @ + 1]
    /\ openNotional' = [openNotional EXCEPT ![m] = @ + OpenNotional]
    /\ booked' = [booked EXCEPT ![m] = @ + OpenMargin + OpenFee]
    /\ last' = [last EXCEPT ![m] = @ - (OpenMargin + OpenFee)]
    /\ Silent
    /\ UNCHANGED <<state, realized, vault, profile, truth, ends>>

FundedOpen(m, k, id) ==
    /\ ~\E o \in stops[m] : o.key = k /\ o.id = id
    /\ OpenWithStop(m, k, {[key |-> k, id |-> id, birth |-> opens + 1]})

(* unbook: the slot of k, and the notional it was booked at. *)
Unbook(m, k) ==
    /\ slots' = [slots EXCEPT ![m][k] = Unbooked]
    /\ openPositions' = [openPositions EXCEPT ![m] = @ - 1]
    /\ openNotional' = [openNotional EXCEPT ![m] = @ - slots[m][k].notional]

(* A close noxfunds makes itself, of the position at k: its result is the  *)
(* credit less the margin it held and the fee it paid to open.             *)
ClosedAs(m, k, unbooked, credit, result) ==
    /\ Live(m, k)
    /\ slots[m][unbooked].open
    /\ free' = [free EXCEPT ![m] = @ + credit]
    /\ pos' = [pos EXCEPT ![m][k] = NoPosition]
    /\ Unbook(m, unbooked)
    /\ booked' = [booked EXCEPT ![m] = @ - Cost(pos[m][k])]
    /\ last' = [last EXCEPT ![m] = @ + credit]
    /\ realized' = [realized EXCEPT ![m] = @ + result]
    /\ truth' = [truth EXCEPT ![m] = @ + credit - Cost(pos[m][k])]
    /\ profile' = RecordTrade(profile, result, HeldSlots)
    /\ Emitted(<<TradeRecorded(m, result, HeldSlots)>>)
    /\ UNCHANGED <<state, vault, stops, opens, ends>>

(* Mutants: the fee paid to open is forgotten, as it once was; another     *)
(* slot is released than the position's, as it once could be.              *)
FeelessClosed(m, k, credit) == ClosedAs(m, k, k, credit, credit - pos[m][k].margin)
OtherSlotClosed(m, k, credit) ==
    \E named \in Keys : ClosedAs(m, k, named, credit, credit - Cost(pos[m][k]))

Closed(m, k, credit) == ClosedAs(m, k, k, credit, credit - Cost(pos[m][k]))

(* funded_close_position *)
FundedClose(m, k, credit) == Closed(m, k, credit)

(* The margin a partial close of delta takes out of a position. *)
MarginOut(p, delta) == (p.margin * delta) \div p.size

(* funded_reduce_position: strictly partial; the money counts, no trade    *)
(* does.                                                                   *)
FundedReduce(m, k, delta, credit) ==
    LET p         == pos[m][k]
        marginOut == MarginOut(p, delta)
        released  == (slots[m][k].notional * delta) \div p.size
    IN  /\ 0 < delta /\ delta < p.size
        /\ slots[m][k].open
        /\ free' = [free EXCEPT ![m] = @ + credit]
        /\ pos' = [pos EXCEPT ![m][k].size = @ - delta, ![m][k].margin = @ - marginOut]
        /\ slots' = [slots EXCEPT ![m][k].notional = @ - released]
        /\ openNotional' = [openNotional EXCEPT ![m] = @ - released]
        /\ booked' = [booked EXCEPT ![m] = @ - marginOut]
        /\ last' = [last EXCEPT ![m] = @ + credit]
        /\ realized' = [realized EXCEPT ![m] = @ + credit - marginOut]
        /\ truth' = [truth EXCEPT ![m] = @ + credit - marginOut]
        /\ profile' = RecordPartial(profile, credit - marginOut)
        /\ Emitted(<<PartialCloseRecorded(m, credit - marginOut)>>)
        /\ UNCHANGED <<state, openPositions, vault, stops, opens, ends>>

(* adjust, by an amount that is negative when margin is removed *)
AdjustMargin(m, k, amount) ==
    /\ Live(m, k)
    /\ amount <= free[m]
    /\ pos[m][k].margin + amount > 0
    /\ free' = [free EXCEPT ![m] = @ - amount]
    /\ pos' = [pos EXCEPT ![m][k].margin = @ + amount]
    /\ booked' = [booked EXCEPT ![m] = @ + amount]
    /\ last' = [last EXCEPT ![m] = @ - amount]
    /\ Silent
    /\ UNCHANGED <<state, book, realized, vault, stops, opens, profile, truth, ends>>

FundedAddMargin(m, k, amount) == AdjustMargin(m, k, amount)

FundedRemoveMargin(m, k, amount) == state[m] = "Active" /\ AdjustMargin(m, k, -amount)

(* Orders are cancelled or replaced: nothing but stops changes. *)
StopsBecome(m, orders) ==
    /\ stops' = [stops EXCEPT ![m] = orders]
    /\ Silent
    /\ UNCHANGED <<state, book, last, booked, realized, vault, free, pos, opens, profile,
                   truth, ends>>

(* funded_move_stop: the new one is placed, then the old one cancelled. *)
FundedMoveStop(m, old, id) ==
    /\ Live(m, old.key)
    /\ ~\E o \in stops[m] : o.key = old.key /\ o.id = id
    /\ StopsBecome(m, (stops[m] \cup {[key |-> old.key, id |-> id,
                                        birth |-> pos[m][old.key].birth]}) \ {old})

(* A mutant: a stop may be cancelled under an open position, as it once    *)
(* could be.                                                               *)
AnyCancelStop(m, old) == StopsBecome(m, stops[m] \ {old})

(* funded_cancel_stop, wind_down_cancel_stop: only once the position it    *)
(* protects is gone.                                                       *)
CancelStop(m, old) ==
    /\ ~Live(m, old.key)
    /\ StopsBecome(m, stops[m] \ {old})

-----------------------------------------------------------------------------
(* SolFX, behind the mandate's back *)

(* The position at k closes whole, with no call of noxfunds. *)
ClosedOutside(m, k, credit, orders) ==
    /\ Live(m, k)
    /\ free' = [free EXCEPT ![m] = @ + credit]
    /\ pos' = [pos EXCEPT ![m][k] = NoPosition]
    /\ stops' = [stops EXCEPT ![m] = orders]
    /\ truth' = [truth EXCEPT ![m] = @ + credit - Cost(pos[m][k])]
    /\ Silent
    /\ UNCHANGED <<state, book, last, booked, realized, vault, opens, profile, ends>>

(* execute_trigger_order of a stop: only against the position it was       *)
(* placed for, whatever now has its address.                               *)
StopFires(m, o, credit) ==
    /\ o.birth = pos[m][o.key].birth
    /\ ClosedOutside(m, o.key, credit, stops[m] \ {o})

(* liquidate, adl, or a take-profit of the whole position *)
TakenOutside(m, k, credit) == ClosedOutside(m, k, credit, stops[m])

(* A take-profit of a part of the position *)
TakeProfitFills(m, k, delta, credit) ==
    LET p == pos[m][k]
    IN  /\ delta < p.size
        /\ free' = [free EXCEPT ![m] = @ + credit]
        /\ pos' = [pos EXCEPT ![m][k].size = @ - delta,
                              ![m][k].margin = @ - MarginOut(p, delta)]
        /\ truth' = [truth EXCEPT ![m] = @ + credit - MarginOut(p, delta)]
        /\ Silent
        /\ UNCHANGED <<state, book, last, booked, realized, vault, stops, opens, profile, ends>>

-----------------------------------------------------------------------------
(* The keepers; anyone may call these *)

(* observe_mandate_equity: every open slot's position has to be supplied.  *)
ObserveMandateEquity(m, drawdown, dailyLossExceeded) ==
    /\ state[m] # "none"
    /\ Gone(m) = {}
    /\ profile' = [profile EXCEPT !.maxDrawdown = Larger(@, drawdown)]
    /\ state' = [state EXCEPT
                   ![m] = IF @ = "Active" /\ (drawdown > MaxDrawdown \/ dailyLossExceeded)
                          THEN "Breached" ELSE @]
    /\ Emitted(<<EquityObserved(m, drawdown)>>)
    /\ UNCHANGED <<book, venue, last, booked, realized, vault, opens, truth, ends>>

(* A mutant: a breached mandate is left to its trader. *)
EndedWindDown(m, k, credit) == state[m] = "WindingDown" /\ Closed(m, k, credit)

(* wind_down_position *)
WindDown(m, k, credit) == Stopped(m) /\ Closed(m, k, credit)

(* A mutant: each of n gone positions is credited with the whole result.   *)
RepeatedAttributed(n, total) == [i \in 1..n |-> total]

(* The result recorded for each of n gone positions: the combined one goes *)
(* to the first when it is the only one or a loss, and is else withheld.   *)
Attributed(n, total) == [i \in 1..n |-> IF i = 1 /\ (n = 1 \/ total <= 0) THEN total ELSE 0]

(* The mandate's side of a reconcile: every slot whose position is gone is *)
(* released, and the figures are what SolFX says.                          *)
ReconciledBook(m) ==
    LET gone == Gone(m)
    IN  /\ gone # {}
        /\ openPositions' = [openPositions EXCEPT ![m] = @ - Cardinality(gone)]
        /\ slots' = [slots EXCEPT ![m] = [k \in Keys |-> IF k \in gone THEN Unbooked ELSE @[k]]]
        /\ openNotional' = [openNotional EXCEPT
                              ![m] = @ - SumTo([k \in Keys |-> IF k \in gone
                                                               THEN slots[m][k].notional ELSE 0],
                                               Addresses)]
        /\ booked' = [booked EXCEPT ![m] = LiveCost(m)]
        /\ last' = [last EXCEPT ![m] = free[m]]
        /\ realized' = [realized EXCEPT ![m] = @ + Unreconciled(m)]

(* Its side of the record: one trade for each. *)
ReconciledRecord(m) ==
    LET n       == Cardinality(Gone(m))
        results == Attributed(n, Unreconciled(m))
        counted == [profile EXCEPT !.untimed = @ + n,
                                   !.ambiguous = IF n > 1 THEN @ + n ELSE @]
        events  == [j \in 1..2 * n |-> IF j % 2 = 1
                                       THEN TradeRecorded(m, results[(j + 1) \div 2], 0)
                                       ELSE PositionReconciled(m)]
    IN  /\ profile' = TradesRecorded(counted, results, n)
        /\ Emitted(events)

(* reconcile_position *)
Reconcile(m) ==
    /\ ReconciledBook(m)
    /\ ReconciledRecord(m)
    /\ UNCHANGED <<state, venue, vault, opens, truth, ends>>

-----------------------------------------------------------------------------
Investor(m) ==
    \/ FundMandate(m)
    \/ \E a \in DepositAmounts : FundSolfxCollateral(m, a)
    \/ RequestSettlement(m)
    \/ ClaimSettlement(m)

Trader(m) ==
    \/ \E k \in Keys, id \in OrderIds : FundedOpen(m, k, id)
    \/ \E k \in Keys, credit \in Credits : FundedClose(m, k, credit)
    \/ \E o \in stops[m] : CancelStop(m, o)

Outside(m) ==
    \/ \E o \in stops[m], credit \in Credits : StopFires(m, o, credit)
    \/ \E k \in Keys, credit \in Credits : TakenOutside(m, k, credit)

WindDownSome(m) == \E k \in Keys, credit \in Credits : WindDown(m, k, credit)

Keeper(m) ==
    \/ \E d \in Drawdowns, daily \in BOOLEAN : ObserveMandateEquity(m, d, daily)
    \/ WindDownSome(m)
    \/ Reconcile(m)

Extra(m) ==
    \/ \E k \in Keys, delta \in 1..OpenSize, credit \in Credits : FundedReduce(m, k, delta, credit)
    \/ \E k \in Keys, delta \in 1..OpenSize, credit \in Credits :
          TakeProfitFills(m, k, delta, credit)
    \/ \E k \in Keys, a \in MarginMoves : FundedAddMargin(m, k, a)
    \/ \E k \in Keys, a \in MarginMoves : FundedRemoveMargin(m, k, a)
    \/ \E o \in stops[m], id \in OrderIds : FundedMoveStop(m, o, id)
    \/ Gift(m)

Next ==
    \E m \in MandateIds :
        \/ (Investor(m) \/ Trader(m) \/ Outside(m) \/ Keeper(m)) /\ UNCHANGED extras
        \/ Extra(m) /\ extras < MaxExtras /\ extras' = extras + 1

(* The keeper's noxfunds pass (nox_crank.rs: plan_mandate) runs every      *)
(* thirty seconds: it reconciles a mandate with a gone position, or winds  *)
(* a stopped one down.  The first is named by its effect on the mandate,   *)
(* which no other step has.  Nothing claims the settlement by itself.      *)
Crank(m) == ReconciledBook(m) \/ WindDownSome(m)

Fairness == \A m \in MandateIds : WF_book(Crank(m))

Spec == Init /\ [][Next]_vars /\ Fairness

-----------------------------------------------------------------------------
(* R-3: what the mandate says it made, together with what reconcile would  *)
(* still find, is what every close made, wherever it happened: no order of *)
(* closes inside, closes outside, deposits and margin moves loses, invents *)
(* or counts twice a unit.                                                 *)
ResultsTracked == \A m \in MandateIds : truth[m] = realized[m] + Unreconciled(m)

(* R-5: a position SolFX holds is always in a slot, so that the drawdown   *)
(* crank, the limits and wind-down see it; and the counters agree with     *)
(* the slots.                                                              *)
PositionsTracked ==
    \A m \in MandateIds :
        /\ \A k \in Keys : Live(m, k) => slots[m][k].open
        /\ openPositions[m] = Cardinality(Booked(m))
        /\ openNotional[m] = SumTo([k \in Keys |-> slots[m][k].notional], Addresses)

(* R-4: for as long as it is open, a position has a stop of its own that   *)
(* would fire: not one left by an earlier position at its address.         *)
StopsHeld ==
    \A m \in MandateIds, k \in Keys :
        Live(m, k) => \E o \in stops[m] : o.key = k /\ o.birth = pos[m][k].birth

(* The record is never better than the money.  Once everything is          *)
(* reconciled, gross profit less gross loss is at most what all the closes *)
(* made, and exactly that while no trade had to be called ambiguous.       *)
RecordNeverFlatters ==
    LET made == SumTo(truth, Mandated)
        net  == profile.grossProfit - profile.grossLoss
    IN  (\A m \in MandateIds : Unreconciled(m) = 0)
          => /\ net <= made
             /\ profile.ambiguous = 0 => net = made

(* Whoever folds the events finds the record the program keeps.  Profits   *)
(* settled are compared while the replay calls no mandate unprovable.      *)
ReplayAgrees ==
    \A f \in DOMAIN NoRecord :
        f # "settledInProfit" \/ replay.unprovable = {} => replay.d[f] = profile[f]

(* Settlement divides the principal, the gifts and the result of every     *)
(* close, leaves nothing behind on SolFX, and the investor has at least    *)
(* the principal, or all of it when there is less.                         *)
SettledInFull ==
    \A m \in MandateIds :
        state[m] = "Settled" =>
            LET final == Principal + gifts[m] + truth[m]
            IN  /\ vault[m] = 0 /\ free[m] = 0 /\ LiveCost(m) = 0
                /\ paid[m].investor + paid[m].trader + paid[m].protocol = final
                /\ paid[m].investor >= (IF final < Principal THEN final ELSE Principal)

(* A breached or ended mandate gets flat without the trader, so that its   *)
(* settlement can be claimed.                                              *)
StoppedGetsFlat == \A m \in MandateIds : Stopped(m) ~> (openPositions[m] = 0)
=============================================================================
