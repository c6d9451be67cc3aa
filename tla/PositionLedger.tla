--------------------------- MODULE PositionLedger ---------------------------
(***************************************************************************)
(* What one position's profit is computed from: an average entry price,    *)
(* re-rounded at every top-up, and a profit rounded at every partial close.*)
(* Beside it runs the exact ledger of the same trades, in units of price   *)
(* times size, which no rounding touches.  Margin, fees and the pool are   *)
(* in Trading; here only the arithmetic of crates/solfx-math/src/pnl.rs is *)
(* followed, over whole sequences of calls.                                *)
(***************************************************************************)
EXTENDS SolfxMath

CONSTANTS
    Prices,      \* the execution prices trades may happen at
    FillSizes,   \* the base sizes a position is opened and increased in
    MaxTrades    \* bound of this model: the number of trades

ASSUME LedgerAssumption ==
    /\ Prices \subseteq Nat \ {0}
    /\ FillSizes \subseteq Nat \ {0}
    /\ MaxTrades \in Nat

VARIABLES
    direction,   \* the position's side, fixed while it is open
    size,        \* Position::size_base
    entryPrice,  \* Position::entry_price
    realised,    \* the profit and loss credited so far
    cash,        \* exact: sale proceeds less purchase costs, unrounded
    trades       \* the number of trades so far

vars == <<direction, size, entryPrice, realised, cash, trades>>

TypeOK ==
    /\ direction \in Directions
    /\ size \in Nat
    /\ entryPrice \in Nat
    /\ realised \in Int
    /\ cash \in Int
    /\ trades \in 0..MaxTrades

Init ==
    /\ direction = "Long"
    /\ size = 0
    /\ entryPrice = 0
    /\ realised = 0
    /\ cash = 0
    /\ trades = 0

(* open_position: the entry price is the execution price as it is. *)
Open(d, s, price) ==
    /\ size = 0
    /\ direction' = d
    /\ size' = s
    /\ entryPrice' = price
    /\ cash' = cash - Sign(d) * s * price
    /\ UNCHANGED realised

(* increase_position *)
Increase(s, price) ==
    /\ size > 0
    /\ size' = size + s
    /\ entryPrice' = WeightedEntryPrice(size, entryPrice, s, price, direction)
    /\ cash' = cash - Sign(direction) * s * price
    /\ UNCHANGED <<direction, realised>>

(* reduce: a partial or a full close realises the profit of what it closes. *)
Close(delta, price) ==
    /\ delta <= size
    /\ size' = size - delta
    /\ entryPrice' = IF delta = size THEN 0 ELSE entryPrice
    /\ realised' = realised + UpnlInQuote(delta, entryPrice, price, direction)
    /\ cash' = cash + Sign(direction) * delta * price
    /\ UNCHANGED direction

Next ==
    /\ trades < MaxTrades
    /\ trades' = trades + 1
    /\ \/ \E d \in Directions, s \in FillSizes, price \in Prices : Open(d, s, price)
       \/ \E s \in FillSizes, price \in Prices : Increase(s, price)
       \/ \E delta \in 1..size, price \in Prices : Close(delta, price)

Spec == Init /\ [][Next]_vars

-----------------------------------------------------------------------------
(* No sequence of opens, top-ups and partial closes credits the trader     *)
(* more than the trades were worth: what is realised, and what the open    *)
(* size would realise at its average entry, never exceed the exact ledger. *)
(* A rounding in the trader's favour would be a free edge repeated on      *)
(* every top-up.                                                           *)
RoundingNeverPays ==
    NotionalDivisor * realised <= cash + Sign(direction) * size * entryPrice
=============================================================================
