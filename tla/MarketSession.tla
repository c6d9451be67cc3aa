---------------------------- MODULE MarketSession ----------------------------
(***************************************************************************)
(* A market's status over time: the session crank, which follows the feed  *)
(* and a weekly calendar (keeper/session.rs), the price crank's breaker    *)
(* (keeper/price.rs), the guardian's halt and the admin's override.        *)
(*                                                                         *)
(* Time is a position in the week, in ticks.  The code keeps               *)
(* status_changed_at; its distance to now is only compared with the gap    *)
(* window, so here it stops counting there.  The session crank is          *)
(* permissionless and its price account optional.  The regime of a         *)
(* continuous index, which initialize_market rejects, is left out.         *)
(***************************************************************************)
EXTENDS Integers, FiniteSetsExt

CONSTANTS
    Week,           \* ticks in a week
    PreClose,       \* PRE_CLOSE_REDUCE_ONLY_SECONDS
    GapWindowTicks, \* GAP_WINDOW_SECONDS
    FeedKinds,          \* FeedKind: "SpotFx", "Crypto"
    AdminStatuses   \* what the admin sets, of what set_market_status allows

ASSUME SessionAssumption ==
    /\ Week \in Nat \ {0}
    /\ PreClose \in Nat
    /\ GapWindowTicks \in Nat \ {0}
    /\ FeedKinds \subseteq {"SpotFx", "Crypto"}
    /\ AdminStatuses \subseteq {"Initialized", "Active", "ReduceOnly", "Halted", "GapWindow", "Delisted"}

Times == 0..Week - 1

VARIABLES
    kind,      \* Market::feed_kind
    opensAt,   \* the session's opening, a position in the week
    closesAt,  \* the session's close
    clock,     \* now, as a position in the week
    age,       \* now - status_changed_at, up to the gap window
    feed,      \* "dead"; "calm"; or "wild": read, and beyond the breaker's limits
    status,    \* Market::status
    gapLeft,   \* ghost: what a reopened session still owes of its gap window
    halted     \* ghost: stopped by guardian, breaker or admin, and not by the
               \* admin released

sessionVars == <<kind, opensAt, closesAt, clock, age, feed, status, gapLeft, halted>>
calendar == <<kind, opensAt, closesAt>>

AllowsOpen(s) == s \in {"Active", "WeekendMode"}

(* The statuses of the continuous regime are never entered. *)
TypeOK ==
    /\ kind \in FeedKinds
    /\ opensAt \in Times /\ closesAt \in Times /\ clock \in Times
    /\ age \in 0..GapWindowTicks /\ gapLeft \in 0..GapWindowTicks
    /\ feed \in {"dead", "calm", "wild"}
    /\ status \in {"Initialized", "Active", "ReduceOnly", "Halted", "GapWindow", "Delisted"}
    /\ halted \in BOOLEAN

(* A new market has no status_changed_at: its age is all of time. *)
SessionInit ==
    /\ kind \in FeedKinds
    /\ opensAt \in Times /\ closesAt \in Times /\ clock \in Times
    /\ age = GapWindowTicks
    /\ feed = "dead"
    /\ status = "Initialized"
    /\ gapLeft = 0
    /\ halted = FALSE

-----------------------------------------------------------------------------
(* The calendar: a window that may wrap the week, or be the whole of it. *)

CalendarIsOpen(at) ==
    \/ opensAt = closesAt
    \/ opensAt < closesAt /\ opensAt <= at /\ at < closesAt
    \/ opensAt > closesAt /\ (opensAt <= at \/ at < closesAt)

(* A mutant: a close that lies in the next week counts from this one's end. *)
UnwrappedUntilClose(at) ==
    IF ~CalendarIsOpen(at) THEN -1
    ELSE IF closesAt >= at THEN closesAt - at ELSE Week - at

CalendarUntilClose(at) ==
    IF ~CalendarIsOpen(at) THEN -1
    ELSE IF closesAt >= at THEN closesAt - at ELSE Week - at + closesAt

(* Crypto has no session: always open, and never about to close. *)
SessionIsOpen == kind = "Crypto" \/ CalendarIsOpen(clock)
SecondsUntilClose == IF kind = "Crypto" THEN -1 ELSE CalendarUntilClose(clock)

(* Whether a crank that reads the feed, or one that is given none, finds   *)
(* the market open.                                                        *)
Live(read) == read /\ feed # "dead"

(* Mutants: one of the two signals is enough; the calendar alone decides. *)
EitherOpen(read) == Live(read) \/ SessionIsOpen
CalendarOpen(read) == SessionIsOpen

Open(read) == Live(read) /\ SessionIsOpen

-----------------------------------------------------------------------------
AboutToClose == 0 <= SecondsUntilClose /\ SecondsUntilClose <= PreClose

(* next_status for a session-bound feed *)
SpotFxStatus(open) ==
    CASE ~open                        -> "Halted"
      [] open /\ status = "Active"     -> IF AboutToClose THEN "ReduceOnly" ELSE "Active"
      [] open /\ status = "ReduceOnly" -> IF SecondsUntilClose > PreClose
                                          THEN "Active" ELSE "ReduceOnly"
      [] open /\ status = "Halted"     -> "GapWindow"
      [] open /\ status = "GapWindow"  -> IF age >= GapWindowTicks
                                          THEN "Active" ELSE "GapWindow"

(* next_status *)
NextStatus(read) ==
    IF kind = "SpotFx" THEN SpotFxStatus(Open(read))
    ELSE IF Live(read) THEN "Active" ELSE "Halted"

(* A mutant: the time a market entered its status is not written down. *)
UnstampedStatus(new) ==
    /\ status' = new
    /\ UNCHANGED age

(* The cranks stamp every change; admin and guardian do not. *)
StampedStatus(new) ==
    /\ status' = new
    /\ age' = IF new # status THEN 0 ELSE age

(* crank_market_session, with a price account or without *)
CrankMarketSession(read) ==
    /\ status \notin {"Initialized", "Delisted"}
    /\ StampedStatus(NextStatus(read))
    /\ gapLeft' = IF status = "Halted" /\ status' = "GapWindow" THEN GapWindowTicks
                  ELSE gapLeft
    /\ UNCHANGED <<calendar, clock, feed, halted>>

(* crank_market_price: refuses a feed it cannot read; trips the breaker. *)
CrankMarketPrice ==
    /\ status # "Delisted"
    /\ feed = "wild" /\ status # "Halted"
    /\ StampedStatus("Halted")
    /\ halted' = TRUE
    /\ UNCHANGED <<calendar, clock, feed, gapLeft>>

(* halt_market, by the guardian, whatever the status *)
HaltMarket ==
    /\ status' = "Halted"
    /\ halted' = TRUE
    /\ UNCHANGED <<calendar, clock, age, feed, gapLeft>>

(* set_market_status, by the admin, who owes nobody a gap *)
SetMarketStatus(new) ==
    /\ status # "Delisted"
    /\ status' = new
    /\ halted' = (new \in {"Halted", "Delisted"})
    /\ gapLeft' = 0
    /\ UNCHANGED <<calendar, clock, age, feed>>

-----------------------------------------------------------------------------
(* The world *)

Tick ==
    /\ clock' = (clock + 1) % Week
    /\ age' = IF age < GapWindowTicks THEN age + 1 ELSE age
    /\ gapLeft' = IF gapLeft > 0 THEN gapLeft - 1 ELSE 0
    /\ UNCHANGED <<calendar, feed, status, halted>>

FeedBecomes(f) ==
    /\ feed' = f
    /\ UNCHANGED <<calendar, clock, age, status, gapLeft, halted>>

SessionNext ==
    \/ \E read \in BOOLEAN : CrankMarketSession(read)
    \/ CrankMarketPrice
    \/ HaltMarket
    \/ \E s \in AdminStatuses : SetMarketStatus(s)
    \/ Tick
    \/ \E f \in {"dead", "calm", "wild"} : FeedBecomes(f)

(* The keeper cranks every listed market at its interval, with its feed. *)
SessionSpec == SessionInit /\ [][SessionNext]_sessionVars /\ WF_sessionVars(CrankMarketSession(TRUE))

-----------------------------------------------------------------------------
(* The cranks never let new positions in before a reopened session has     *)
(* served its gap window in full, however cranks, halts and breakers fall: *)
(* the first minutes carry the whole weekend's news in one jump.  Only the *)
(* admin may shorten it, by setting a status.                              *)
GapIsServed == kind = "SpotFx" /\ AllowsOpen(status) => gapLeft = 0

(* Fail closed: no crank of the session leaves a market open to new        *)
(* positions that its feed or its calendar says is closed.                 *)
CrankFailsClosed ==
    [][(\E read \in BOOLEAN : CrankMarketSession(read)) /\ AllowsOpen(status')
         => feed # "dead" /\ SessionIsOpen]_sessionVars

(* The countdown is the time to the first tick that is not open, and -1    *)
(* exactly when the session is closed, for every window, wrapped or not.   *)
(* A window that opens when it closes is never closed and has no such      *)
(* tick.                                                                   *)
CountdownAgrees ==
    opensAt # closesAt =>
        CalendarUntilClose(clock) =
            IF CalendarIsOpen(clock)
            THEN Min({d \in 1..Week : ~CalendarIsOpen((clock + d) % Week)})
            ELSE -1

(* A market that has closed, by its feed or its calendar, stops taking new *)
(* positions, unless it opens again first.                                 *)
ClosedStopsOpening ==
    (feed = "dead" \/ ~SessionIsOpen)
        ~> (~AllowsOpen(status) \/ (feed # "dead" /\ SessionIsOpen))

(* What session.rs:155-156 and price.rs:67-68 say: a market stopped by the *)
(* guardian, the breaker or the admin takes no new positions before the    *)
(* admin has set its status.                                               *)
OnlyAdminReopens == halted => ~AllowsOpen(status)
=============================================================================
