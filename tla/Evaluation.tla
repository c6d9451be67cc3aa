------------------------------ MODULE Evaluation ------------------------------
(***************************************************************************)
(* The evaluations of noxfunds (instructions/evaluation.rs and             *)
(* eval_orders.rs): a trader stakes a deposit, trades a simulated balance  *)
(* in two stages and gets the stake back for passing both.  Positions are  *)
(* priced with the arithmetic of SolfxMath at the oracle's price, which    *)
(* moves between any two instructions; anyone may fire a stop, fill an     *)
(* order or mark the account.                                              *)
(*                                                                         *)
(* One trader and one market quoted in USD.  Each instruction is an action *)
(* and is atomic.  The pause only rejects and is left out; last_equity and *)
(* last_observed_at are read by no instruction.                            *)
(***************************************************************************)
EXTENDS SolfxMath, FiniteSets, Sums

CONSTANTS
    Sequels,        \* bound of this model: evaluations 1..Sequels (seq + 1)
    Slots,          \* addresses of virtual positions 1..Slots (market, nonce)
    OrderIds,       \* addresses of entry orders
    Purse,          \* the trader's USDC at the start
    AccountSize,    \* the simulated balance
    EvalStake,      \* EVAL_STAKE
    TargetBps,      \* EVAL_TARGET_BPS, by stage
    MaxDailyLoss, MaxDrawdown, MaxRisk,   \* EVAL_MAX_*_BPS
    MaxLeverage,    \* Market::effective_max_leverage
    MinTrades, MinDays,                   \* EVAL_MIN_TRADES, EVAL_MIN_DAYS
    MinHold, MinAvgHold,                  \* EVAL_MIN_HOLD_SECS, ..AVG..
    ConsistencyBps, \* EVAL_CONSISTENCY_BPS
    MaxOpen, MaxPending,                  \* EVAL_MAX_OPEN, EVAL_MAX_PENDING
    DayLength,      \* SECS_PER_DAY
    Spots,          \* oracle prices
    Levels,         \* prices that stops, targets and triggers are set at
    Sides, Sizes,   \* what the trader trades
    EntryKinds,     \* {"Limit", "Stop"}, or one of them
    Expiries,       \* when an entry order lapses; 0 for never
    Spreads,        \* spread, confidence and skew together, in bps
    OpenFeeRate, CloseFeeRate,
    Gifts,          \* what a stranger may send to a stake vault
    MaxTime, MaxBorrow, MaxTrades         \* bounds of this model

ASSUME EvaluationAssumption ==
    /\ Sequels \in Nat /\ Slots \in Nat /\ Purse \in Nat
    /\ AccountSize \in Nat \ {0} /\ EvalStake \in Nat \ {0}
    /\ TargetBps \in [1..2 -> Nat]
    /\ MaxDailyLoss \in Nat /\ MaxDrawdown \in Nat
    /\ MinHold \in Nat /\ DayLength \in Nat \ {0}
    /\ Spots \subseteq Nat \ {0} /\ Levels \subseteq Nat \ {0}
    /\ Sides \subseteq Directions /\ Sizes \subseteq Nat \ {0}
    /\ IsFiniteSet(OrderIds)
    /\ Spreads \subseteq 0..MaxTotalSpread /\ MaxTotalSpread <= Bps
    /\ OpenFeeRate \in Nat /\ CloseFeeRate \in Nat
    /\ Expiries \subseteq Nat /\ EntryKinds \subseteq {"Limit", "Stop"}
    /\ Gifts \subseteq Nat \ {0}

VARIABLES
    evals,      \* the Evaluation accounts of the trader, by sequence number
    pos,        \* VirtualPosition, by evaluation and address
    orders,     \* EvalEntryOrder, by evaluation and address
    vault,      \* the stake escrow of each evaluation
    wallet,     \* the trader's USDC
    treasury,   \* what was forfeited
    paidIn,     \* history: what each escrow was sent, stake and gifts
    evalsPassed,     \* TraderProfile::evaluations_passed
    spot,       \* the oracle's price
    borrow,     \* Market::cum_borrow_index
    now         \* the clock

vars == <<evals, pos, orders, vault, wallet, treasury, paidIn, evalsPassed,
          spot, borrow, now>>
money == <<vault, wallet, treasury, paidIn, evalsPassed>>
world == <<spot, borrow, now>>

Runs == 1..Sequels
Places == 1..Slots
Today == now \div DayLength

NoEvaluation == [state |-> "None", rule |-> "None", stage |-> 0, size |-> 0,
    balance |-> 0, peak |-> 0, day |-> 0, dayStart |-> 0, dayPnl |-> 0,
    bestDay |-> 0, trades |-> 0, wins |-> 0, losses |-> 0, grossProfit |-> 0,
    grossLoss |-> 0, voluntary |-> 0, held |-> 0, tradingDays |-> 0,
    lastTradeDay |-> -1, open |-> 0, pending |-> 0]
NoVirtual == [size |-> 0, dir |-> "Long", entry |-> 0, notional |-> 0, stop |-> 0,
    target |-> 0, fee |-> 0, borrow |-> 0, openedAt |-> 0]
NoOrder == [size |-> 0, dir |-> "Long", kind |-> "Limit", trigger |-> 0, stop |-> 0,
    target |-> 0, expires |-> 0, place |-> 0, stage |-> 0]

Open(s, k) == pos[s][k].size > 0
Rests(s, o) == orders[s][o].size > 0
Over(s) == evals[s].state \in {"Passed", "Failed"}

(* TriggerKind::is_met and is_placeable of the core; EntryKind::is_met. *)
StopMet(d, level, price) == IF d = "Long" THEN price <= level ELSE price >= level
TargetMet(d, level, price) == IF d = "Long" THEN price >= level ELSE price <= level
EntryMet(kind, d, level, price) ==
    IF (kind = "Limit") = (d = "Long") THEN price <= level ELSE price >= level

-----------------------------------------------------------------------------
(* The record of one evaluation, e, as a value. *)

FloorEquity(v) == Greater(v, 0)

LossBps(from, equity) ==
    MulDivCeil(SatSub(Greater(from, 1), equity), Bps, Greater(from, 1))
DrawdownBps(e, equity) == LossBps(e.peak, equity)
DailyLossBps(e, equity) == LossBps(e.dayStart, equity)

(* fail: only from Active. *)
Failed(e, rule) ==
    IF e.state # "Active" THEN e ELSE [e EXCEPT !.state = "Failed", !.rule = rule]

(* roll_day: the first instruction of a UTC day opens it. *)
RollDay(e, equity) ==
    IF Today = e.day THEN e
    ELSE [e EXCEPT !.day = Today, !.dayStart = equity, !.dayPnl = 0]

(* judge: the peak first, then both loss limits. *)
Judge(e, equity) ==
    LET p == [e EXCEPT !.peak = Greater(@, equity)]
    IN  IF DrawdownBps(p, equity) > MaxDrawdown THEN Failed(p, "Drawdown")
        ELSE IF DailyLossBps(p, equity) > MaxDailyLoss THEN Failed(p, "DailyLoss")
        ELSE p

(* reset_stage: everything but the resting orders. *)
ResetStage(e, stage, size) ==
    [NoEvaluation EXCEPT !.state = "Active", !.stage = stage, !.size = size,
        !.balance = size, !.peak = size, !.day = Today, !.dayStart = size,
        !.pending = e.pending]

(* realise: what closing p now would bring, the open fee apart. *)
Realised(p, spread) ==
    LET exit == ExecutionPrice(spot, spread, Resolve(p.dir, "Close"))
    IN  UpnlInQuote(p.size, p.entry, exit, p.dir)
        - FeeAmount(NotionalInQuote(p.size, exit), CloseFeeRate)
        - AccruedCarry(p.notional, borrow, p.borrow)

(* A closed trade in the balance and in the record.  A stop-out counts as  *)
(* a trade but not in the average time a trade is held.                    *)
Recorded(e, p, net, result, stopOut) ==
    [e EXCEPT !.balance = @ + net, !.trades = @ + 1, !.open = SatSub(@, 1),
              !.dayPnl = @ + result,
              !.bestDay = Greater(@, e.dayPnl + result),
              !.wins = IF result > 0 THEN @ + 1 ELSE @,
              !.losses = IF result > 0 THEN @ ELSE @ + 1,
              !.grossProfit = @ + Greater(result, 0),
              !.grossLoss = @ + Greater(-result, 0),
              !.voluntary = IF stopOut THEN @ ELSE @ + 1,
              !.held = IF stopOut THEN @ ELSE @ + (now - p.openedAt)]

(* Mutant of Booked: the result forgets the fee paid to open. *)
FeelessBooked(e, p, net, stopOut) ==
    LET sum == Recorded(RollDay(e, FloorEquity(e.balance)), p, net, net, stopOut)
    IN  IF sum.open = 0 THEN Judge(sum, FloorEquity(sum.balance)) ELSE sum

(* Mutant of Booked: only the equity crank judges. *)
UnjudgedBooked(e, p, net, stopOut) ==
    Recorded(RollDay(e, FloorEquity(e.balance)), p, net, net - p.fee, stopOut)

(* book_close: the result includes the fee paid to open; an account that   *)
(* is flat is judged at once.                                              *)
Booked(e, p, net, stopOut) ==
    LET sum == Recorded(RollDay(e, FloorEquity(e.balance)), p, net, net - p.fee, stopOut)
    IN  IF sum.open = 0 THEN Judge(sum, FloorEquity(sum.balance)) ELSE sum

-----------------------------------------------------------------------------
Init ==
    /\ evals = [s \in Runs |-> NoEvaluation]
    /\ pos = [s \in Runs |-> [k \in Places |-> NoVirtual]]
    /\ orders = [s \in Runs |-> [o \in OrderIds |-> NoOrder]]
    /\ vault = [s \in Runs |-> 0]
    /\ wallet = Purse
    /\ treasury = 0
    /\ paidIn = [s \in Runs |-> 0]
    /\ evalsPassed = 0
    /\ spot \in Spots
    /\ borrow = 0
    /\ now = 0

(* start_evaluation: the one before must exist and be over. *)
StartEvaluation(s) ==
    /\ evals[s].state = "None"
    /\ s > 1 => Over(s - 1)
    /\ wallet >= EvalStake
    /\ evals' = [evals EXCEPT ![s] = ResetStage(NoEvaluation, 1, AccountSize)]
    /\ wallet' = wallet - EvalStake
    /\ vault' = [vault EXCEPT ![s] = @ + EvalStake]
    /\ paidIn' = [paidIn EXCEPT ![s] = @ + EvalStake]
    /\ UNCHANGED <<pos, orders, treasury, evalsPassed, world>>

(* risk_bps: the loss at the stop, rounded up. *)
RiskBps(size, price, stop, balance) ==
    MulDivCeil(NotionalInQuote(size, Abs(price - stop)), Bps, Greater(balance, 1))

(* precheck_open and open_virtual, with o what is opened: stop and target  *)
(* on their sides of the oracle price, then every rule against the balance *)
(* before the fee.  free is whether an init finds the address unused.      *)
OpenVirtual(s, k, o, spread) ==
    LET e        == evals[s]
        entry    == ExecutionPrice(spot, spread, Resolve(o.dir, "Open"))
        notional == NotionalInQuote(o.size, entry)
        balance  == FloorEquity(e.balance)
        day      == RollDay(e, balance)
        fee      == FeeAmount(notional, OpenFeeRate)
    IN  /\ e.state = "Active"
        /\ e.open < MaxOpen
        /\ ~Open(s, k)
        /\ ~StopMet(o.dir, o.stop, spot)
        /\ o.target # 0 => ~TargetMet(o.dir, o.target, spot)
        /\ balance > 0
        /\ DrawdownBps(e, balance) <= MaxDrawdown
        /\ EffectiveLeverage(notional, balance) <= MaxLeverage
        /\ RiskBps(o.size, spot, o.stop, balance) <= MaxRisk
        /\ DailyLossBps(day, balance) <= MaxDailyLoss
        /\ evals' = [evals EXCEPT ![s] =
                [day EXCEPT !.balance = @ - fee, !.open = @ + 1,
                            !.tradingDays = IF e.lastTradeDay = Today THEN @ ELSE @ + 1,
                            !.lastTradeDay = Today,
                            !.pending = IF o.place = 0 THEN @ ELSE SatSub(@, 1)]]
        /\ pos' = [pos EXCEPT ![s][k] =
                [size |-> o.size, dir |-> o.dir, entry |-> entry,
                 notional |-> notional, stop |-> o.stop, target |-> o.target,
                 fee |-> fee, borrow |-> borrow, openedAt |-> now]]
        /\ UNCHANGED <<money, world>>

(* eval_open_position: a market order has no target and no order account. *)
EvalOpenPosition(s, k, d, size, stop, spread) ==
    /\ OpenVirtual(s, k, [NoOrder EXCEPT !.dir = d, !.size = size, !.stop = stop], spread)
    /\ UNCHANGED orders

(* The close itself: the position account is gone, the result is booked.   *)
(* (A choice from one value: TLC computes it once.)                        *)
Close(s, k, spread, stopOut) ==
    /\ Open(s, k)
    /\ \E net \in {Realised(pos[s][k], spread)} :
           evals' = [evals EXCEPT ![s] = Booked(@, pos[s][k], net, stopOut)]
    /\ pos' = [pos EXCEPT ![s][k] = NoVirtual]
    /\ UNCHANGED <<orders, money, world>>

HeldLongEnough(p) == now - p.openedAt >= MinHold

(* eval_close_position: also of an evaluation that is over. *)
EvalClosePosition(s, k, spread) ==
    HeldLongEnough(pos[s][k]) /\ Close(s, k, spread, FALSE)

(* eval_trigger_stop, by anyone, whatever the time held *)
EvalTriggerStop(s, k, spread) ==
    /\ StopMet(pos[s][k].dir, pos[s][k].stop, spot)
    /\ Close(s, k, spread, TRUE)

(* Mutant of EvalTriggerTakeProfit: a target is exempt from the hold. *)
EagerTakeProfit(s, k, spread) ==
    /\ pos[s][k].target > 0
    /\ TargetMet(pos[s][k].dir, pos[s][k].target, spot)
    /\ Close(s, k, spread, FALSE)

(* eval_trigger_take_profit, by anyone: a voluntary close *)
EvalTriggerTakeProfit(s, k, spread) ==
    /\ pos[s][k].target > 0
    /\ HeldLongEnough(pos[s][k])
    /\ TargetMet(pos[s][k].dir, pos[s][k].target, spot)
    /\ Close(s, k, spread, FALSE)

(* eval_set_take_profit: zero takes it away. *)
EvalSetTakeProfit(s, k, level) ==
    /\ Open(s, k)
    /\ level # 0 => ~TargetMet(pos[s][k].dir, level, spot)
    /\ pos' = [pos EXCEPT ![s][k].target = level]
    /\ UNCHANGED <<evals, orders, money, world>>

(* eval_move_stop: only tighter, only after the hold, never met already. *)
EvalMoveStop(s, k, level) ==
    /\ Open(s, k)
    /\ HeldLongEnough(pos[s][k])
    /\ IF pos[s][k].dir = "Long" THEN level > pos[s][k].stop ELSE level < pos[s][k].stop
    /\ ~StopMet(pos[s][k].dir, level, spot)
    /\ pos' = [pos EXCEPT ![s][k].stop = level]
    /\ UNCHANGED <<evals, orders, money, world>>

-----------------------------------------------------------------------------
(* Entry orders. *)

(* eval_place_entry_order: the bracket is judged around the trigger, the   *)
(* risk against today's balance; the fill judges everything again.         *)
EvalPlaceEntryOrder(s, o, order) ==
    LET e == evals[s]
    IN  /\ e.state = "Active"
        /\ e.pending < MaxPending
        /\ ~Rests(s, o)
        /\ order.expires = 0 \/ order.expires > now
        /\ ~StopMet(order.dir, order.stop, order.trigger)
        /\ order.target # 0 => ~TargetMet(order.dir, order.target, order.trigger)
        /\ RiskBps(order.size, order.trigger, order.stop, FloorEquity(e.balance)) <= MaxRisk
        /\ orders' = [orders EXCEPT ![s][o] = [order EXCEPT !.stage = e.stage]]
        /\ evals' = [evals EXCEPT ![s].pending = @ + 1]
        /\ UNCHANGED <<pos, money, world>>

Expired(order) == order.expires # 0 /\ now > order.expires

(* eval_fill_entry_order, by anyone: the rules of an open, then the limit  *)
(* against the execution price.                                            *)
EvalFillEntryOrder(s, o, spread) ==
    LET order == orders[s][o]
        entry == ExecutionPrice(spot, spread, Resolve(order.dir, "Open"))
    IN  /\ Rests(s, o)
        /\ ~Expired(order)
        /\ EntryMet(order.kind, order.dir, order.trigger, spot)
        /\ order.kind = "Limit" =>
               IF order.dir = "Long" THEN entry <= order.trigger ELSE entry >= order.trigger
        /\ OpenVirtual(s, order.place, order, spread)
        /\ orders' = [orders EXCEPT ![s][o] = NoOrder]

(* eval_cancel_entry_order: the trader at any time, anyone once it lapsed. *)
Lapsed(s, o) == Expired(orders[s][o]) \/ evals[s].state # "Active"

CancelBy(s, o, isTrader) ==
    /\ Rests(s, o)
    /\ isTrader \/ Lapsed(s, o)
    /\ orders' = [orders EXCEPT ![s][o] = NoOrder]
    /\ evals' = [evals EXCEPT ![s].pending = SatSub(@, 1)]
    /\ UNCHANGED <<pos, money, world>>

-----------------------------------------------------------------------------
(* The equity crank, the end of a stage and the stake. *)

Live(s) == {k \in Places : Open(s, k)}

(* What the positions in marked are worth, on top of the balance. *)
MarkedEquity(s, marked, spread) ==
    evals[s].balance
    + SumTo([k \in Places |-> IF k \in marked THEN Realised(pos[s][k], spread) ELSE 0], Slots)

(* Mutant of EvalObserveEquity: the mark judges the drawdown only. *)
DrawdownOnlyObserve(s, spread) ==
    \E marked \in SUBSET Live(s) :
        LET equity == FloorEquity(MarkedEquity(s, marked, spread))
            day    == RollDay(evals[s], equity)
            marks  == [day EXCEPT !.peak = Greater(@, equity)]
        IN  /\ evals[s].state # "None"
            /\ Cardinality(marked) = evals[s].open
            /\ evals' = [evals EXCEPT ![s] =
                    IF DrawdownBps(marks, equity) > MaxDrawdown
                    THEN Failed(marks, "Drawdown") ELSE marks]
            /\ UNCHANGED <<pos, orders, money, world>>

(* eval_observe_equity, by anyone, on as many distinct positions of the    *)
(* evaluation as its account says are open.  Its state is not asked for.   *)
EvalObserveEquity(s, spread) ==
    \E marked \in SUBSET Live(s) :
        /\ evals[s].state # "None"
        /\ Cardinality(marked) = evals[s].open
        /\ \E equity \in {FloorEquity(MarkedEquity(s, marked, spread))} :
               evals' = [evals EXCEPT ![s] = Judge(RollDay(@, equity), equity)]
        /\ UNCHANGED <<pos, orders, money, world>>

Target(e) == MulDivCeil(e.size, TargetBps[e.stage], Bps)

(* Mutant of Earned: orders may rest. *)
EarnedWithOrders(e) ==
    /\ e.state = "Active"
    /\ e.open = 0
    /\ FloorEquity(e.balance) >= e.size + Target(e)
    /\ e.trades >= MinTrades
    /\ e.tradingDays >= MinDays

(* The rules of claim_stage_pass.  Of the loss limits it asks the first.   *)
Earned(e) ==
    /\ e.state = "Active"
    /\ e.open = 0
    /\ e.pending = 0
    /\ DrawdownBps(e, FloorEquity(e.balance)) <= MaxDrawdown
    /\ FloorEquity(e.balance) >= e.size + Target(e)
    /\ e.trades >= MinTrades
    /\ e.tradingDays >= MinDays
    /\ e.voluntary > 0 => e.held \div e.voluntary >= MinAvgHold
    /\ Greater(e.bestDay, 0) <= MulDivFloor(Target(e), ConsistencyBps, Bps)

(* claim_stage_pass: stage 1 starts stage 2 afresh, *)
ClaimFirstStage(s) ==
    /\ evals[s].stage = 1
    /\ Earned(evals[s])
    /\ evals' = [evals EXCEPT ![s] = ResetStage(@, 2, @.size)]
    /\ UNCHANGED <<pos, orders, money, world>>

(* ... stage 2 ends the evaluation and refunds what the escrow holds. *)
ClaimSecondStage(s) ==
    /\ evals[s].stage = 2
    /\ Earned(evals[s])
    /\ evals' = [evals EXCEPT ![s].state = "Passed"]
    /\ evalsPassed' = evalsPassed + 1
    /\ wallet' = wallet + vault[s]
    /\ vault' = [vault EXCEPT ![s] = 0]
    /\ UNCHANGED <<pos, orders, treasury, paidIn, world>>

ClaimStagePass(s) == ClaimFirstStage(s) \/ ClaimSecondStage(s)

(* Mutant of ForfeitStake: any evaluation that is over forfeits. *)
HastyForfeit(s) ==
    /\ evals[s].state # "None"
    /\ vault[s] > 0
    /\ treasury' = treasury + vault[s]
    /\ vault' = [vault EXCEPT ![s] = 0]
    /\ UNCHANGED <<evals, pos, orders, wallet, paidIn, evalsPassed, world>>

(* forfeit_stake, by anyone *)
ForfeitStake(s) ==
    /\ evals[s].state = "Failed"
    /\ vault[s] > 0
    /\ treasury' = treasury + vault[s]
    /\ vault' = [vault EXCEPT ![s] = 0]
    /\ UNCHANGED <<evals, pos, orders, wallet, paidIn, evalsPassed, world>>

(* abandon_evaluation *)
AbandonEvaluation(s) ==
    /\ evals[s].state = "Active"
    /\ evals' = [evals EXCEPT ![s] = Failed(@, "Abandoned")]
    /\ UNCHANGED <<pos, orders, money, world>>

(* A token transfer to the escrow's address; nothing of the program runs. *)
Gift(s, amount) ==
    /\ evals[s].state # "None"
    /\ wallet >= amount
    /\ wallet' = wallet - amount
    /\ vault' = [vault EXCEPT ![s] = @ + amount]
    /\ paidIn' = [paidIn EXCEPT ![s] = @ + amount]
    /\ UNCHANGED <<evals, pos, orders, treasury, evalsPassed, world>>

-----------------------------------------------------------------------------
(* The world: the price, the carry index, the clock. *)

PriceMoves ==
    /\ spot' \in Spots
    /\ UNCHANGED <<evals, pos, orders, money, borrow, now>>

CarryAccrues ==
    /\ borrow < MaxBorrow
    /\ borrow' = borrow + 1
    /\ UNCHANGED <<evals, pos, orders, money, spot, now>>

Tick ==
    /\ now < MaxTime
    /\ now' = now + 1
    /\ UNCHANGED <<evals, pos, orders, money, spot, borrow>>

(* Bound of this model: opens, filled or not, in one stage. *)
MayOpen(s) == evals[s].trades + evals[s].open + evals[s].pending < MaxTrades

EntryOrders ==
    [size : Sizes, dir : Sides, kind : EntryKinds, trigger : Levels,
     stop : Levels, target : Levels \cup {0}, expires : Expiries,
     place : Places, stage : {0}]

Trades(s) ==
    \E k \in Places, spread \in Spreads :
        \/ \E d \in Sides, size \in Sizes, stop \in Levels :
               MayOpen(s) /\ EvalOpenPosition(s, k, d, size, stop, spread)
        \/ EvalClosePosition(s, k, spread)
        \/ EvalTriggerStop(s, k, spread)
        \/ EvalTriggerTakeProfit(s, k, spread)

Adjusts(s) ==
    \E k \in Places :
        \/ \E level \in Levels \cup {0} : EvalSetTakeProfit(s, k, level)
        \/ \E level \in Levels : EvalMoveStop(s, k, level)

Orders(s) ==
    \E o \in OrderIds :
        \/ \E order \in EntryOrders : MayOpen(s) /\ EvalPlaceEntryOrder(s, o, order)
        \/ \E spread \in Spreads : EvalFillEntryOrder(s, o, spread)
        \/ \E isTrader \in BOOLEAN : CancelBy(s, o, isTrader)

Ends(s) ==
    \/ StartEvaluation(s)
    \/ \E spread \in Spreads : EvalObserveEquity(s, spread)
    \/ ClaimStagePass(s)
    \/ ForfeitStake(s)
    \/ AbandonEvaluation(s)
    \/ \E amount \in Gifts : Gift(s, amount)

Next ==
    \/ \E s \in Runs : Trades(s) \/ Adjusts(s) \/ Orders(s) \/ Ends(s)
    \/ PriceMoves
    \/ CarryAccrues
    \/ Tick

(* The keeper's pass over an evaluation (plan_evaluation): the exits that  *)
(* are met, and only without any the mark.  That it cancels orders that    *)
(* lapsed is CancelBy, which no property needs it to do.                   *)
ExitMet(p) ==
    \/ StopMet(p.dir, p.stop, spot)
    \/ p.target > 0 /\ HeldLongEnough(p) /\ TargetMet(p.dir, p.target, spot)

Watch(s) ==
    /\ evals[s].state = "Active"
    /\ \E spread \in Spreads :
        \/ \E k \in Live(s) : EvalTriggerStop(s, k, spread) \/ EvalTriggerTakeProfit(s, k, spread)
        \/ /\ \A k \in Live(s) : ~ExitMet(pos[s][k])
           /\ Live(s) # {}
           /\ EvalObserveEquity(s, spread)

Fairness == \A s \in Runs : WF_vars(Watch(s))

Spec == Init /\ [][Next]_vars /\ Fairness

-----------------------------------------------------------------------------
Forfeited(s) == IF evals[s].state = "Failed" THEN paidIn[s] - vault[s] ELSE 0

(* "Refunded on a pass, forfeited on a failure, and there is no third      *)
(* door" (StartEvaluation::stake_vault): while an evaluation runs all that *)
(* was sent to its escrow is there, the stake at least; what the treasury  *)
(* got is exactly what left the escrows of the failed evaluations; and no  *)
(* money is made or lost.                                                  *)
StakesAccounted ==
    /\ wallet + treasury + SumTo(vault, Sequels) = Purse
    /\ \A s \in Runs : evals[s].state = "Active" =>
           vault[s] = paidIn[s] /\ vault[s] >= EvalStake
    /\ treasury = SumTo([s \in Runs |-> Forfeited(s)], Sequels)
    /\ evalsPassed = Cardinality({s \in Runs : evals[s].state = "Passed"})

(* The record is the money: the balance is the stage's capital, plus every *)
(* profit, less every loss and the open fees of what is still open.  And   *)
(* the counts are those of the accounts that exist, so that a mark can be  *)
(* complete and a claim cannot pass over a position or an order.           *)
RecordExact ==
    \A s \in Runs :
        /\ evals[s].balance = evals[s].size + evals[s].grossProfit - evals[s].grossLoss
                               - SumTo([k \in Places |-> pos[s][k].fee], Slots)
        /\ evals[s].wins + evals[s].losses = evals[s].trades
        /\ evals[s].open = Cardinality(Live(s))
        /\ evals[s].pending = Cardinality({o \in OrderIds : Rests(s, o)})

(* "A stage cannot be passed by an account that is past either" loss limit *)
(* (claim_stage_pass), which asks for the drawdown only: a flat account    *)
(* that still runs is within both.                                         *)
FlatWithinLimits ==
    \A s \in Runs : evals[s].state = "Active" /\ evals[s].open = 0 =>
        /\ DrawdownBps(evals[s], FloorEquity(evals[s].balance)) <= MaxDrawdown
        /\ DailyLossBps(evals[s], FloorEquity(evals[s].balance)) <= MaxDailyLoss

(* claim_stage_pass: an order placed in stage 1 does not fill into stage 2. *)
OrdersKeepToTheirStage ==
    \A s \in Runs, o \in OrderIds : Rests(s, o) => orders[s][o].stage = evals[s].stage

(* "No order is a way round the hold rules" (eval_orders.rs): a position   *)
(* that ends before the minimum hold ends at a loss.                       *)
EarlyExitLoses ==
    [][\A s \in Runs, k \in Places :
        Open(s, k) /\ pos'[s][k].size = 0 /\ ~HeldLongEnough(pos[s][k]) =>
            evals'[s].grossLoss > evals[s].grossLoss]_vars

(* What the keeper's pass has to find: an account that runs and is past a  *)
(* limit at the price of the moment, the day's loss measured from where    *)
(* the first instruction of the day found the account (roll_day).          *)
PastALimit(e, equity) ==
    \/ DrawdownBps(e, equity) > MaxDrawdown
    \/ e.day = Today /\ DailyLossBps(e, equity) > MaxDailyLoss

Breached(s) ==
    /\ evals[s].state = "Active"
    /\ \A spread \in Spreads :
        PastALimit(evals[s], FloorEquity(MarkedEquity(s, Live(s), spread)))

(* plan_evaluation: stops and targets first, and nothing else in the same  *)
(* pass.  A breach, of either limit, does not stay unseen although each    *)
(* exit puts the mark off to a later pass and leaves positions that nobody *)
(* judged: the account is failed, unless price or exits bring it back or a *)
(* new day starts its daily loss afresh.                                   *)
BreachIsSeen == \A s \in Runs : Breached(s) ~> ~Breached(s)
=============================================================================
