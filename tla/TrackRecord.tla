----------------------------- MODULE TrackRecord -----------------------------
(***************************************************************************)
(* A trader's record, twice.  The program keeps it in TraderProfile        *)
(* (noxfunds state.rs: record_trade, record_partial).  Anybody can fold it *)
(* again from the events of the program's transactions                     *)
(* (clients/js/src/nox/verify.ts: rederiveProfile), and compares the two   *)
(* (compareProfile).                                                       *)
(*                                                                         *)
(* An event is a record with a name and a mandate; only the events and the *)
(* fields that the replay reads are kept.  Tiers and evaluations passed,   *)
(* which both sides copy from one event, are left out.                     *)
(***************************************************************************)
EXTENDS Integers, FiniteSets, Sequences, Sums

(* What both sides count. *)
NoRecord ==
    [trades |-> 0, wins |-> 0, losses |-> 0, grossProfit |-> 0, grossLoss |-> 0,
     largestWin |-> 0, largestLoss |-> 0, holdSlots |-> 0, untimed |-> 0, ambiguous |-> 0,
     maxDrawdown |-> 0, funded |-> 0, active |-> 0, settledInProfit |-> 0]

Larger(a, b) == IF a >= b THEN a ELSE b

-----------------------------------------------------------------------------
(* The program *)

(* record_trade: zero counts as a loss. *)
RecordTrade(p, pnl, hold) ==
    LET q == [p EXCEPT !.trades = @ + 1, !.holdSlots = @ + hold]
    IN  IF pnl > 0
        THEN [q EXCEPT !.wins = @ + 1, !.grossProfit = @ + pnl,
                       !.largestWin = Larger(@, pnl)]
        ELSE [q EXCEPT !.losses = @ + 1, !.grossLoss = @ - pnl,
                       !.largestLoss = Larger(@, -pnl)]

(* n trades of no measured hold, one after the other. *)
TradesRecorded(p, pnls, n) ==
    LET after[i \in 0..n] == IF i = 0 THEN p ELSE RecordTrade(after[i - 1], pnls[i], 0)
    IN  after[n]

(* record_partial: the money counts, the trade does not. *)
RecordPartial(p, pnl) ==
    IF pnl > 0 THEN [p EXCEPT !.grossProfit = @ + pnl]
    ELSE [p EXCEPT !.grossLoss = @ - pnl]

-----------------------------------------------------------------------------
(* The events *)

TradeRecorded(m, pnl, hold) ==
    [name |-> "TradeRecorded", mandate |-> m, pnl |-> pnl, hold |-> hold]
PartialCloseRecorded(m, pnl) == [name |-> "PartialCloseRecorded", mandate |-> m, pnl |-> pnl]
PositionReconciled(m) == [name |-> "PositionReconciled", mandate |-> m]
EquityObserved(m, drawdown) == [name |-> "EquityObserved", mandate |-> m, drawdown |-> drawdown]
MandateFunded(m) == [name |-> "MandateFunded", mandate |-> m]
MandateSettled(m) == [name |-> "MandateSettled", mandate |-> m]

-----------------------------------------------------------------------------
(* The replay.  Its state: the record derived so far, the mandates seen,   *)
(* the result of each, and those whose profit the events cannot establish. *)

NothingReplayed(mandates) ==
    [d |-> NoRecord, known |-> {}, pnl |-> [m \in mandates |-> 0], unprovable |-> {}]

(* How many positions a reconcile of m in this transaction closed. *)
ClosedTogether(tx, m) ==
    Cardinality({i \in DOMAIN tx : tx[i] = PositionReconciled(m)})

(* TradeRecorded: in a transaction that reconciles the mandate the trade   *)
(* is untimed, and ambiguous if more than one was closed.                  *)
TradeReplayed(r, e, together) ==
    LET won  == e.pnl > 0
        d    == [r.d EXCEPT !.trades    = @ + 1,
                            !.holdSlots = @ + e.hold,
                            !.untimed   = IF together > 0 THEN @ + 1 ELSE @,
                            !.ambiguous = IF together > 1 THEN @ + 1 ELSE @]
        gain == [d EXCEPT !.wins = @ + 1, !.grossProfit = @ + e.pnl,
                          !.largestWin = Larger(@, e.pnl)]
        loss == [d EXCEPT !.losses = @ + 1, !.grossLoss = @ + (-e.pnl),
                          !.largestLoss = Larger(@, -e.pnl)]
    IN  [r EXCEPT !.d = IF won THEN gain ELSE loss, !.pnl[e.mandate] = @ + e.pnl]

PartialReplayed(r, e) ==
    [r EXCEPT !.d.grossProfit = IF e.pnl > 0 THEN @ + e.pnl ELSE @,
              !.d.grossLoss   = IF e.pnl > 0 THEN @ ELSE @ + (-e.pnl),
              !.pnl[e.mandate] = @ + e.pnl]

ObservedReplayed(r, e) ==
    IF e.mandate \in r.known THEN [r EXCEPT !.d.maxDrawdown = Larger(@, e.drawdown)] ELSE r

FundedReplayed(r, e) ==
    [r EXCEPT !.known = @ \cup {e.mandate}, !.d.funded = @ + 1, !.d.active = @ + 1]

SettledReplayed(r, e) ==
    [r EXCEPT !.d.active = Larger(0, @ - 1),
              !.d.settledInProfit = IF r.pnl[e.mandate] > 0 THEN @ + 1 ELSE @]

EventReplayed(r, e, tx) ==
    CASE e.name = "TradeRecorded"        -> TradeReplayed(r, e, ClosedTogether(tx, e.mandate))
      [] e.name = "PartialCloseRecorded" -> PartialReplayed(r, e)
      [] e.name = "EquityObserved"       -> ObservedReplayed(r, e)
      [] e.name = "MandateFunded"        -> FundedReplayed(r, e)
      [] e.name = "MandateSettled"       -> SettledReplayed(r, e)
      [] OTHER                           -> r

(* What the reconciles of m in a transaction recorded in total. *)
RecordedTogether(tx, m) ==
    SumTo([i \in 1..Len(tx) |-> IF tx[i].name = "TradeRecorded" /\ tx[i].mandate = m
                                THEN tx[i].pnl ELSE 0],
          Len(tx))

(* A mutant: nothing is said to be unprovable. *)
NeverUnprovable(tx, m) == FALSE

(* A batch of two or more recorded at zero hides whether it was a profit. *)
Unprovable(tx, m) == ClosedTogether(tx, m) > 1 /\ RecordedTogether(tx, m) = 0

(* The events of one transaction, in order. *)
EventsReplayed(r, tx) ==
    LET after[i \in 0..Len(tx)] ==
            IF i = 0 THEN r ELSE EventReplayed(after[i - 1], tx[i], tx)
    IN  after[Len(tx)]

Replayed(r, tx) ==
    [EventsReplayed(r, tx) EXCEPT
        !.unprovable = @ \cup {m \in DOMAIN r.pnl : Unprovable(tx, m)}]
=============================================================================
