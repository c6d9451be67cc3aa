# SOLFX in TLA+

A specification of the SOLFX perpetual-futures protocol, the prop-trading programme on
top of it and two of its services: TLA+ modules translated from the Rust and TypeScript
sources, instances of them that TLC checks, and theorems about them
that TLAPS proves for every value of the constants. The sources are the reference;
`PROJECT.json` names, for each definition, the lines it stands for.

Contents: 1 the system, 2 the modules, 3 what the runs check, 4 bounds and fairness,
5 what is proved, 6 where the documents and the code disagree, 7 what is not
modelled, 8 the plan.

## 1. The system

**solfx-core** (`programs/solfx-core`) is an Anchor program: traders open leveraged
positions against a pool of LP money, at an oracle price made worse by a spread.

| Component | State | Operations |
|---|---|---|
| Vaults and settlement (`trader/mod.rs`, `flows.rs`, `user.rs`, `protocol_admin.rs`, `guardian.rs`) | four token vaults (collateral, LP, insurance, fee) and the counters that mirror them; free collateral per user; running totals | deposit, withdraw, settle, insurance top-up, treasury and referral payouts, pause |
| Traders (`trader/*.rs`, `risk.rs`, `state/market.rs`, `state/position.rs`) | position accounts; open interest in quote and base units; counts of open positions | open, increase, decrease, close, add and remove margin |
| Trigger orders (`trader/trigger.rs`) | order accounts | place, cancel, execute (which is a reduction) |
| Keepers (`keeper/{liquidate,adl,funding}.rs`) | carry and funding indices, funding collected and not paid out, queued bad debt | liquidate, deleverage, crank |
| Market control (`guardian.rs`, `admin/update_market.rs`, `keeper/{session,price}.rs`) | market status and when it changed, last price, weekly session | halt, override, session crank, circuit breaker |
| Oracle (`oracle.rs`) | none: it reads price accounts | the gates of age, confidence and divergence |
| LP pool (`lp.rs`) | assets, share supply, one exit request per provider, high-water mark | add, request, cancel, remove |

One instruction is atomic: it runs to the end or leaves nothing behind. The
components share accounts and call each other within an instruction. What is hard is
hence not a race inside one of them but the *sequence*: instructions of traders,
providers, keepers, the admin and the guardian come in any order, each one sees a few
accounts and updates totals over all of them, and rounding goes on at every step.

**solfx-math** (`crates/solfx-math`) is the pure arithmetic the program calls.
**noxfunds** (`programs/noxfunds`) is a prop-trading programme on top of the core
through cross-program calls. Its *marketplace* takes an investor's capital into escrow until
the trader it is offered to signs, or turns an agreement straight into a mandate; a tier
limits how large and how many mandates a trader has. A *mandate* trades that capital under
stop rules. An *evaluation* is a simulated account that a trader stakes a deposit on:
virtual positions at the oracle's price, entry orders, stops and targets, two stages with
loss limits, and a pass that is claimed or a failure that forfeits the stake. A mandate
keeps slots, booked costs and the free collateral it expects; the core closes positions
behind its back (a stop, a liquidation), and a later `reconcile_position` recovers the
result from the difference. The trader's record is kept in `TraderProfile` and can be folded
again from the events by anyone (`clients/js/src/nox/verify.ts`).
**solfx-referral** (`programs/solfx-referral`) turns what the core counts on the account of
a referred trader into rebates of the introducing broker the trader named, and overrides of
that broker's parent: anyone may `sync_trader`, the broker `claim`s, and the core pays out
of its fee vault whatever stays within its own total.
**solfx-keeper** (`crates/solfx-keeper`) is an off-chain process of six asynchronous
loops over one cached book: it reads markets, positions, orders and prices one call after
another, liquidates, fires triggers, observes mandates and evaluations and cranks, at most
eight actions a pass, racing others.
**services/** holds a faucet (one claim at a time against an RPC that fails, limits kept
in a file), an indexer (`clients/js/src/nox/indexer.ts`: pages of signatures newest first,
transactions fetched by several workers, rows numbered in chain order in SQLite), an RPC
gateway and an API; **clients/**, **app/** are otherwise generated clients and a user
interface.

What makes each one correct:

- vaults: what a vault holds is what the books say it owes; no USDC appears or vanishes;
- positions: totals over positions are exact; margin backs every position; no sequence of
  trades makes money from rounding or from the spread alone;
- liquidation: an underwater position can be closed, the shortfall goes insurance first,
  then ADL, then the pool, and each is charged once;
- funding: what one side receives the other has paid;
- LP pool: flows in and out dilute nobody and an exit that is due can be paid;
- control: while opens are closed, risk only shrinks;
- sessions: a market that its feed or calendar says is closed takes no new positions, a
  reopened session serves its gap window, a halt lasts until somebody entitled lifts it;
- triggers: an order fires only for the position it was placed on;
- noxfunds: no result is lost or counted twice whoever closed the position; a position has
  a slot and a stop for as long as it lives; a mandate that was stopped gets flat and its
  settlement divides everything; the record never flatters and can be verified;
- evaluations: balance and record are those of the trades whoever closed them, a breach of
  a loss limit is seen, every stake is refunded or forfeited once;
- marketplace: offered capital is in one place and can be taken back until somebody signed;
- referral: whatever is synced when, brokers are never owed more than the core earmarked;
- indexer: readers see the history in order and without gaps, and it catches up;
- faucet: what was paid, or may have been, counts against wallet and address, nobody is locked
  out for nothing, and every claim is answered;
- keeper: what is due is eventually done, whatever is stale, refused or beyond a pass's cap.

## 2. The modules

| Module | Models | State |
|---|---|---|
| `SolfxMath` | `crates/solfx-math`: rounding, fees, margin, PnL, pricing, funding, LP shares | none |
| `Sums` | nothing of the code: the sums over accounts that invariants compare totals with | none |
| `Vaults` | the vaults, `settle`, and every instruction that moves USDC across the edge without a position or a share | vaults, mirrors, users, wallets |
| `Trading` | markets, positions and the trader's instructions | positions, open interest, indices |
| `Keepers` | liquidation, ADL, the funding crank; halt and status override | (the above) |
| `LpPool` | the LP pool | supply, shares, requests |
| `Clearing` | their composition: the program. States the properties | (all) |
| `PositionLedger` | the profit arithmetic of one position beside an exact ledger | one position |
| `FundingIndex` | the funding crank over a moving book beside totals of what it promised | one market's indices |
| `TriggerOrders` | orders of traders on addresses that are used again, and the keeper's mirror and trigger pass | positions, orders, the book, a pass |
| `MarketSession` | the session crank with its calendar, the breaker, halt and override, on one clock | one market's status, the week, the feed |
| `TrackRecord` | `TraderProfile` and the replay of `verify.ts`, as functions | none |
| `Mandates` | noxfunds' mandates over a SolFX account that closes positions by itself | mandates, slots, positions, stops, record, replay |
| `Marketplace` | offers with their escrows, the direct door, tiers, slots and the pause | offers, escrows, wallets |
| `Referral` | the referral programme, every instruction, beside the core's counters it reads and `pay_referral` | earmarked and claimed totals, the traders' counters, brokers, links |
| `Evaluation` | the evaluations, every instruction, and the keeper's plan for one | evaluations, virtual positions, orders, stakes |
| `NoxFeed` | what the indexer promises: the abstract specification | history, what is served |
| `NoxIndexer` | the indexer's sync and store, with failures and crashes; implements `NoxFeed` | tables, the sync in progress |
| `Faucet` | the faucet's queue, limiter, file and confirmation, beside the chain | queue, claim, limits, transactions |
| `MCLedgers` | `PositionLedger`, `FundingIndex`, `Marketplace`, `Referral` and `Faucet` side by side, one moving at a time | (theirs) |
| `MCServices` | `NoxIndexer` and `Faucet`, one running while the other has not begun | (theirs) |
| `MCEvaluation` | `Evaluation` with one position at a time, or with two | which of the two |
| `MCClearing` | values for `Clearing`'s constants and TLC's state constraints | |
| `SolfxMathProofs`, `LedgersProofs`, `ClearingProofs`, `CustodyProofs`, `MandatesProofs`, `MarketProofs`, `ServicesProofs`, `EvaluationProofs` | theorems | |

How they correspond to the code:

- One instruction handler is one action of the same name (`open_position` is
  `OpenPosition`). The handler's `require!`s and checked subtractions that can fail are
  the conjuncts without primes; the rest is its assignments, in one step. `Settle` and
  `SettleWith` are `settle` with `compute_flows`: they move fee and profit among the
  vaults and their mirrors. A decrease, a close and a trigger's fill all run `reduce` and
  are one action `Reduce`.
- A token transfer changes a vault, and the account at its other end too: wallets of
  traders, providers and sponsors are state, and money paid to the treasury, the
  referral programme and liquidators is followed in the program's own totals. So
  conservation is an equation between state variables.
- A position account is a record; a closed one is `NoPosition`, its fields zero.
- The price an instruction uses is any member of `Quotes`, chosen anew each time: the
  oracle may report anything the gates let through. The slippage limit and the minimum
  hold reject and change nothing, so they are left out, as is the nonce.
- Volume tiers enter as a rate chosen from `TierRates` and capped by the market's own.
- Time enters as *periods*: `CrankFunding` advances the indices by one period, and the
  cooldown of an exit request passes in an action of its own, `CooldownElapses`.
  `FundingIndex` has elapsed seconds.
- `TransferShares` is not an instruction of the program: LP shares are an SPL token and
  a holder may send them, also after requesting an exit.
- The scales (1e4 basis points, 1e9 for rates, 1e12 for notionals) are constants.
  With scales of 10, fees of a few units already split with a remainder and every
  rounding bites at small numbers. The rounding direction is the code's.
- `MarketSession` shares no variable with `Clearing`: the instructions it models read no
  position, and those of `Clearing` only read the status, which `Clearing` lets the admin
  and the guardian set in any order. Time is a position in the week. The code's
  `status_changed_at` appears as the time since, which stops counting at the gap window
  because it is compared with nothing else.
- In `Mandates` SolFX is an account with free collateral, positions and stops. What a
  close credits is an input, so every price is covered, and so is a fee. A position is
  named by its address and its birth (`opened_at_slot`), since addresses are reused.
  `truth` adds up what every close made, wherever it happened; it, `gifts` and `paid` are
  history variables. One transaction has one instruction, which is how `verify.ts` (lines
  7-8) reads the events.
- `NoxIndexer` has one action per RPC answer. A failed call ends the sync; workers of it
  that still wait for an answer are `strays`, and their writes still land. A transaction
  is named by its place in the program's history; `Served` is what `txsTouching` returns,
  and is the refinement mapping into `NoxFeed`.
- In `Faucet` the `await`s of `claim` separate actions, as do the polls of `confirm`. The
  chain executes a transaction, lets it expire, or does neither. A crash keeps the file.
  Balances are abstracted to whether they cover a claim, and what a caller is told is left
  out. `past` is whether the block height is past a transaction; `tracked`, and the wallet,
  address and time in `sends`, are history.
- In `TriggerOrders` a size is zero or not, since what a fill pays is `Reduce`. An order
  remembers which opening of its address it was placed for (`of`), which the code does not:
  only the properties read it. The keeper's refresher reads positions, orders and prices in
  three actions; `Collect` picks any batch that the cap and the map's order allow.
- `Evaluation` prices virtual positions with `SolfxMath`. Spread, confidence and skew are one
  choice from `Spreads`; the timestamps are a clock that anything may advance. `Watch` is
  `plan_evaluation` of the keeper, planned anew after each of its actions; `HEARTBEAT_SECS`,
  which saves marks, only delays one. `paidIn`, all that was sent to an escrow, is history.
- In `Marketplace` an address is (investor, trader, sequence number), which both doors share.
  `dust`, what strangers sent to an escrow, is a history variable; the expiry of an offer is
  a flag that time sets.
- Statuses `WeekendMode` and `PreOpenWindow` are in the allow-lists, and nothing sets
  them: `set_market_status` refuses them and no market has the feed kind whose session
  crank would. The derated weekend parameters are therefore left out.

The shape of an account's fields, account creation and closing, PDAs, events and
`MathOverflow` are abstracted away.

## 3. What the runs check

Passing runs:

| Run | Instance | Properties | What it shows |
|---|---|---|---|
| `trading` | two traders, one position each; prices 10, 3 and 14; sizes 1, 2; steep tiers; indices move once; payouts | `TypeOK`, `CollateralBacked`, `OpenInterestExact`, `Conservation`, `NoUnsecuredPosition`, `BadDebtAccounted`, `LiquidationFavoursPool`, `AdlTakesOnlyProfit` | I1, I4, I5, I7 of `docs/ARCHITECTURE.md` and the liquidation waterfall, in any order of trades, liquidations, ADL, cranks and payouts |
| `flat_market` | two traders, price 10 with two confidences, skew impact on, insurance top-ups | `FlatMarketPaysNobody` | with the oracle standing still, two accounts cannot take a unit out of the pool by any sequence |
| `pool` | two providers, one trader, a utilisation cap, pause and statuses | `FundsBacked`, `MaturedExitSettles`, `LpFlowsNeverDilute`, `NoNewRiskWhenClosed` | I2 and I6, that flows in and out of the pool treat providers fairly whatever the trader does, and that closing the market closes it to risk through every instruction |
| `ledgers` | a position through four trades at prices 3, 4, 6, 9; three cranks over sides up to 5; three offers of two investors to one trader, two tiers, one unit of dust per escrow; two brokers, three traders, two tiers, two splits of fees; the faucet with two wallets at two addresses, one claim each per window of two ticks, two requests over three ticks, one crash | `RoundingNeverPays`, `FundingConserved`, `OfferedCapitalIsSafe`, `RebatesCovered`, `LimitsHold` | the average entry and partial closes never round to the trader's gain; I3 as the code can keep it; offered capital is never lost, mixed up or stranded; brokers are never owed more than was earmarked and not paid; payments the faucet tracked keep to its limits per wallet and per address, and nobody is locked out for nothing |
| `market_session` | a week of six ticks with every opening and closing, both feed kinds; crank with and without a price account, breaker, guardian, admin | `GapIsServed`, `CountdownAgrees`, `CrankFailsClosed`, `ClosedStopsOpening` | the session fails closed, the gap window is served in full however halts and cranks fall, and a closed market stops taking positions if it is cranked |
| `mandates` | one mandate, two addresses, two opens and two extra steps (partial closes, margin moves, stop moves, gifts); a close returns all or nothing | `ResultsTracked`, `PositionsTracked`, `StopsHeld`, `RecordNeverFlatters`, `ReplayAgrees`, `SettledInFull`, `StoppedGetsFlat` | R-3, R-4 and R-5 of the noxfunds review, settlement, and that program and replay keep one record |
| `evaluation` | one evaluation over three days and both stages, two prices: one position and one entry order at a time, stops, targets, carry, gifts; or two positions at once with stops and targets | `RecordExact`, `FlatWithinLimits`, `OrdersKeepToTheirStage`, `StakesAccounted`, `BreachIsSeen`, `EarlyExitLoses` | balance, record and counts stay exact whoever fills, stops, closes or marks; a flat account is within both limits; stakes go one way each; a breach of either limit, with one position or two, does not stay unseen by the keeper although its exits put the mark off |
| `trigger_orders` | one address that can be opened twice, two orders on it, prices 9 and 11 around a level of 10, one action a pass | `InheritsOnlyWithinSlot`, `DueOrderIsServed` | an order fills no position that opened in another slot than its own, and a due order is served in spite of stale reads, failing calls and the cap |
| `services` | indexer: three transactions, pages of two, two workers, one crash, any number of failed calls. Faucet: two wallets behind one address with one claim, two requests, one crash | `FeedRefinement`, `CatchesUp`, `EveryClaimEnds` | the indexer implements the feed and gets to the end of it, and every claim at the faucet is answered |

Violation runs: each checks one statement of a comment against the code, and TLC finds a
behaviour against it (section 6): `stuck_liquidation`, `halt_lifted`, `inherited_order`.

For each property of a passing run, `PROJECT.json` names a mutant: a change to one
definition that a plausible bug would make (a receipt of funding that is not capped by
what was collected, a count that a liquidation forgets, shares rounded up). Under it
TLC finds the property violated, so the instance reaches the case that matters. The
mutated forms stand in the modules before the definition they change and are used by
nothing.

`CHECK_DEADLOCK FALSE` stands where a bound of the model ends the behaviour: the trades,
cranks, earmarked fees and requests in `MCLedgers.cfg`, opens and extra steps in `MCMandates.cfg`, requests and ticks in
`MCServices.cfg`, slots and openings in `MCTriggerOrders.cfg`.

## 4. Bounds and fairness

- `RevenueBound` (`MaxRevenue`): every trade that charges a fee routes at least one unit to
  the fee vault, so bounding what it ever received bounds the number of trades. With 5 to
  7, an instance holds two to four trades: open, top up, partial close, and the
  liquidation of another position.
- `Undisturbed`: outside `pool`, instances are not paused and markets stay active; these
  actions only remove behaviours of the others. In `pool`, `OneSwitch` closes a market only
  while the protocol runs and no exit waits; no LP instruction reads a market's status.
- `MCCaps` has `pool` refuse opens beyond the utilisation of its assets, so that an exit can
  find the pool lent out.
- `MaxBorrowIndex`, `MaxFundingIndex`: one or two cranks, enough for an index to differ
  from a position's snapshot; `flat_market` and `pool` have none, since carry and funding
  only add costs there.
- Wallets: a trader can fund one or two positions; a deposit moves the whole wallet.
- One market: nothing of a market refers to another; what markets share (the vaults, the
  free collateral) is shared by the two traders as well. `NMarkets` is a parameter and
  the theorems hold for every value.
- `PositionLedger`, `FundingIndex`: `MaxTrades`, `MaxSide`, `MaxCranks`. `Marketplace`:
  `MaxDust`; two of the three addresses have the same investor, so that escrows and slots of
  one and of two investors meet. Bronze allows one mandate and Silver two, so that slots fill
  and a demotion leaves more mandates than the tier allows.
- `Referral`: `MaxEarmarked`, `MaxReferredVolume`, which bound trades and keepers' closes.
  Two or three earmarks fit; the second trade of a broker's trader reaches the next tier. The
  tier's share of a fee is above one of the splits, as Gold and Diamond are in the code, so
  that the cap on an entitlement decides. A broker may be the other's parent, or each the
  other's, or nobody's. The run starts with one split of fees; the admin and `SyncSplit` lead
  to every other.
- `Evaluation`: `MaxTime`, `MaxTrades`, `MaxBorrow`, `Purse` and `Sequels`. The instance "one"
  has a position at a time, "two" has two at once and leaves entry orders, carry and gifts to
  the other. In "two" an exit leaves a position that nobody judged, and the drop that met the
  exit can be past the drawdown limit, or past the daily one alone. `MaxTrades` also bounds how
  often exits can put the mark off. The code has no such bound: a trader who keeps opening
  positions whose exits are met before each pass puts it off for as long as that goes on,
  since a close judges the account only if it leaves none open (`evaluation.rs:243`). Each stage
  can take a day of its own and an evaluation fail on a third; a trade can reach a target or
  break either limit, and entry orders rest from one day to the next. Carry moves once.
- `TriggerOrders`: `MaxSlot`, `MaxOpens`. Two orders and a pass of one action make the cap
  refuse one; two openings in one slot are what an inherited order takes, and a second slot
  shows the order that is not inherited. Calls may fail
  any number of times.
- `MarketSession`: `Week`, `PreClose` and `GapWindowTicks` are 6, 1 and 2 ticks: long
  enough for each status to be entered and left inside one session, and for a window to
  wrap the week. `SpotFx` and `Crypto` markets are both initial.
- `Mandates`: `MaxOpens` is 2, so that two positions can be gone at once (the ambiguous
  reconcile) and an address can be used twice; `MaxExtras` bounds partial closes, margin
  moves, stop moves and gifts together. `Mandated`, the number of mandates, is 1. Larger instances (three opens; two mandates of one
  trader) were run once and agree.
- `NoxIndexer`: `MaxTxs`, `MaxCrashes`; three transactions with pages of two make a sync
  list two pages and leave a worker behind. Failed calls are not bounded.
- `Faucet`: `MaxRequests`, `MaxNow`, `MaxDeaths`. In `ledgers` two requests from one wallet or
  two, from one address or two, for one place each per window let both limits be reached, and
  waited out and used again. `services`, for the liveness, stays within one window.

Fairness is assumed where the code schedules, and nowhere else:

| Module | Fair | Because |
|---|---|---|
| `MarketSession` | `WF` of the session crank given the feed | the keeper cranks each listed market at an interval (`services.rs:318-403`) |
| `Mandates` | `WF` of `Crank`: a reconcile, or a wind-down | the noxfunds pass plans exactly these steps every thirty seconds (`nox_crank.rs:142-213`). Its limit of eight actions a pass is outside the model, and so is a market that cannot be closed |
| `Evaluation` | `WF` of `Watch`: the mark, the stop, the target or the failure that is due | `plan_evaluation` of the same pass plans exactly these |
| `TriggerOrders` | `SF` of each read of the refresher and of each send; `WF` that a send ends; `SF` that an order is collected | timers keep firing, a call fails any number of times and not for ever, the refresh interval is shorter than `max_book_age`. The pass takes the first eight orders in the order of a hash map that is built anew for each book, so each is some time among them; for the liquidator, whose candidates are ranked, this would not be justified |
| `NoxIndexer` | `WF` of the timer, of what a worker does without a call and of the insert; `SF` of each call | `setInterval`; the event loop; an endpoint that fails now and then is retried by the next sync. A page and a transaction that are asked for again and again are answered some time |
| `Faucet` | `WF` of each step of a claim or its failure; `SF` of the deadline | a call is answered or fails; `confirm` compares the clock in every round |

In `MCServices` each of the last two is owed to the service that runs.

`Clearing`, `PositionLedger`, `FundingIndex`, `Marketplace` and `Referral` assume none: whether anyone calls is outside
the program. `MaturedExitSettles` and `NothingStranded` state the part of "an exit is eventually
paid" and "capital can be taken back" that the program can promise: every check of the
instruction passes (`Payable`, `Revocable`). The rest of either action is assignments, so this
is `ENABLED` without the operator, which TLAPS does not support; TLC found the two equivalent
in every state of `pool`. In `Mandates` nobody is assumed to claim a settlement,
in `Faucet` the chain owes nothing.

## 5. What is proved

For every number of users, providers, markets and positions, every scale, fee, tier, cap
and quote allowed by the named assumptions (which are what `validate_risk_params`,
`FeeSplitBps::validate` and the types of the code enforce, and which TLC evaluates on each
run):

- `ClearingProofs!TypeCorrect`: `Spec => []TypeOK`. With `Nat` for each vault, mirror,
  margin and counter of open interest this says that no instruction can take one below
  zero: the checked subtractions the model keeps as guards suffice, and those it drops
  cannot fail.
- `ClearingProofs!FundsAlwaysBacked`: I2 and I6.
- `ClearingProofs!PositionsAlwaysSecured`: I5, no size without margin and no margin
  without size.
- `CustodyProofs!CollateralAlwaysBacked`: I1, the collateral vault holds what all accounts
  together are owed.
- `CustodyProofs!UsdcConserved`: I7.
- `CustodyProofs!OpenInterestAlwaysExact` and `CountsAlwaysExact`: I4, and the counters of
  open positions; `BadDebtAlwaysAccounted` and `ReferralAlwaysBounded`: what is covered,
  queued or paid out was booked first. The counters and the referral bound are no run's
  properties any more; the theorems say more than the runs did.
- `CustodyProofs!FlatMarketNeverPays`: if all quotes have one price (the hypothesis `FlatQuotes`;
  their confidences may differ), traders together never hold more than they brought, for any
  number of them and any fees, spreads, tiers and skew impact.
- `CustodyProofs!MaturedExitAlwaysSettles`: an exit that is due and whose shares are still held
  passes every check, whatever happened to the pool. Its hypothesis `LpFeesModest` says that
  neither fee is above one half. Deployed are 10 and 1000 of 10000 basis points
  (`init_protocol.rs:891`); the program itself compares them with nothing (section 6).
- `ClearingProofs!LiquidationNeverCostsPool`, `AdlNeverTakesMargin`, `LpNeverDiluted` and
  `ClosedMarketTakesNoRisk`: what a step may never do, for every price and split.
- `MandatesProofs!ResultsAlwaysTracked` (R-3), `StopsAlwaysHeld` (R-4),
  `PositionsAlwaysTracked` (R-5) and `AlwaysSettledInFull`, for every number of mandates and
  addresses.
- `MandatesProofs!RecordNeverAhead` and `ReplayAlwaysAgrees`: the public record is never better
  than the money, and whoever folds the events finds it, however many positions one reconcile
  finds gone.
- `LedgersProofs!RoundingFavoursProtocol`: no sequence of opens, top-ups and partial closes
  credits a trader more than the exact ledger of the same trades.
- `LedgersProofs!FundingAlwaysConserved`: I3 over any sequence of trades and cranks.
- `LedgersProofs!OfferedCapitalAlwaysSafe`: for any investors, traders and offers, every unit is
  in a wallet, an escrow nobody has signed for or a mandate, an accepted offer's mandate has
  the offer's terms and money, and the investor can take back what nobody has signed for.
- `LedgersProofs!RebatesAlwaysCovered`: for any brokers, parents, tiers, splits and fees, the
  core's bound on referral payouts refuses no broker's claim.
- `MarketProofs!CountdownAlwaysAgrees`: for every week and every window, wrapped around its end or
  not, the closed form of `seconds_until_close` is the distance to the first closed moment.
- `MarketProofs!OrdersBoundToSlot`: an order that fills a later position fills one that
  opened in the slot of its own, for any number of addresses, orders and reopenings.
- `SolfxMathProofs!SplitFeeExact`: the four shares of a fee are naturals that add up to it.
- `SolfxMathProofs!FundingIndexBalances`: however the book is skewed, a funding crank promises
  the receivers at most what it charges the payers, and less than one unit of index for each
  unit of the receiving book less than that. This is I3 of one crank.

The inductive invariant of `ClearingProofs` is `IInv == TypeOK /\ BookSound /\ Mirrored`.
Typing alone is not inductive: a carry charge is the growth of the market's index since
the position's snapshot, and would be negative were a snapshot ahead of the index; an
exit takes the same amount from the vault and from the pool's assets, and a liquidation
draws on the fund up to its *mirror* balance and takes that from the vault. `BookSound`
says that no snapshot is ahead and that an account without size is empty; `Mirrored`
that the three mirrors are their vaults' balances.

`IsTrade` says what an open, a top-up, a close, a liquidation and an ADL have in common:
a position is stored, a fee and a profit are settled, and the trader's free collateral,
the margin and the funding balance together move by what the settlement takes from or
adds to the collateral vault. One lemma per instruction (`OpenPositionStep`, `ReduceStep`,
`LiquidatePositionStep`, ...) shows that it is one; that the amounts balance is the
content of the audit's C-2. `TradeStep` then keeps `IInv`, and `TradeCustody` keeps
`Custody`, the invariant of `CustodyProofs`: what is owed is what the program's total
says, and what is held inside and outside adds up to what there was. Neither needs to
know which instruction it was. The sums move by the lemma `SumUpdate`: a finite sum changes by
the change of its term. They are a recursive function; its induction is by a least
counterexample in `Nat`, as the library's induction theorems cannot be used with an operator
argument here.

The ledgers use two parts of the same shape: `Queues` (what a trade queues for ADL and what
it draws from the fund are together no more than the debt it books) and `Earns`. The book
needs more than the shape: `Booked` says that a trade moves the open interest and the
counters of one side by what its position changes. The code subtracts there with
saturation, which would hide an error; that it never saturates is shown from the invariant
itself, since a counter that is the sum over the positions is at least each of its terms.
The action properties follow from `IInv` for each instruction: shares are rounded against
whoever moves them (`MulDivFloor`), and the liquidation's waterfall gives the pool what
remains.

`MandatesProofs` has an invariant `IInv` of types, of what an address holds when nothing is
open, and of the three R-properties, which need each other: a position is in a slot only if
the counters let `book` find it free, a close releases the slot of a position that is open.
`MoneyMoves` says of an instruction what it adds to seven figures and that they agree;
`PositionKeeps` gathers what every instruction that replaces a position has to show.
`AlwaysSettledInFull` adds `AddsUp`, which speaks of the mandate's figures alone: the vault,
`last` and `booked` are the principal, the gifts and `realized`. It is inductive without a
sum, and with R-3 it says what the account at SolFX is worth at settlement. None of this
expands the profile or the replay.

The record and its replay have an invariant of their own, `RecInv`: the figures are the same
(`settledInProfit` while no mandate is unprovable), every mandate that was ever funded is known
to the replay, the replay's result of a mandate is its `realized` unless it is unprovable, and
the record's net is at most the sum of `realized`, and equal to it while no trade is ambiguous.
`RecordedMoves` says that an instruction whose events add an amount to both sides keeps it. The
instruction that needs work is a reconcile of n positions: the program's loop records n
trades while the replay folds 2n events. `RecursionExists` shows that such a recursion defines
a function; `Midway` walks both in step, and says of each figure what i trades have made of it;
`BatchReplayed` is the whole reconcile, where a batch of several is recorded at its total if
that is a loss and at zero if not, which is where the record stays behind the money.

`ServicesProofs` proves, for every number of transactions, page size and worker count:

- `IndexerServesFeed`: `Spec => FeedRefinement`, the refinement of `NoxFeed`. `Init` maps to
  `Init`; an insert maps to `Serve`; every other step leaves `Served` alone. That an insert
  *appends*, and appends the next transactions of the history without a gap, needs the
  invariant `IInv`: what is stored is exactly the first n transactions numbered 1 to n
  (`Placed`), and while a sync lists, its list descends one by one from a transaction above
  which it wants nothing to the one it asks after (`Descends`, `Covers`), so that a
  complete list starts right above the newest stored row.
- `ListedNeverStored`: `Spec => []ListedAreNew`, from the same invariant.

and of the faucet, for every set of wallets and addresses, limit, window and queue,
`FaucetLimitsHold`: `LimitsHold`. The invariant speaks of payments that may still land
(`Owed`), as what was sent can land long after its claim was answered. What memory and the
file hold must each remember every owed payment of a claim that is over for as long as the
window lasts (`Honours`), have a time for each among the last ones of its address (`Counts`),
and blame only wallets that something was sent to (`Blames`), so that a death at any point
restarts from books that are sound. A claim that is about to send has room beside them
(`MayPay`), with the clock going on. Claims are served one at a time, so that a claim's own
pending mark is not needed for the limits.

`MarketProofs` proves for every week, session and gap length `GapAlwaysServed`
(`Spec => [](TypeOK /\ GapIsServed)`) and `CrankAlwaysFailsClosed` (`Spec =>
CrankFailsClosed`). `GapIsServed` is not inductive: the invariant adds that what a
`GapWindow` still owes is no more than the window less the time in it, and that no other
status that a crank opens owes anything.

`RoundingFavoursProtocol` uses that a long's average entry is rounded up and a short's
down, so that the mark against it never exceeds the exact ledger, and that profits are
floored. `FundingAlwaysConserved` adds `FundingIndexBalances` up over the cranks.
`OfferedCapitalAlwaysSafe` has the invariant `MarketInv`: the types and the first two conjuncts
themselves, which give the third.
`RebatesAlwaysCovered` adds to its property that no link is ahead of its trader's counter: a
sync then moves exactly its share from what is still to be synced to the rebates, and
`SharedWithin` says that a rebate and its override never exceed the share.

`EvaluationProofs` has the invariant `IInv == Accounts /\ Funded /\ Escrowed /\ StakesAccounted`,
where `Escrowed` says that nothing has left the escrow of an evaluation that is not over. An
instruction does to the record of one evaluation what a function of that record says, so most
of the proof is about a record with its positions and orders as values: `Coherent` is `Ledger`
(record and positions), `Listed` (record and orders) and `Standing` (the record alone), and
`RollDay`, `Judge`, `Recorded` and `Booked` have a lemma each that says what they keep. `Costly`
says that until a position's hold is over its stop lies on the losing side of its entry: the
spread moves the entry against the trader, and a stop may move only after the hold. With it an
early exit loses. Assumed are a finite set of order addresses and spreads within
`MAX_TOTAL_SPREAD_BPS` (`pricing.rs:112`).

`FlatMarketNeverPays` needs that every open position was entered at the price or on its wrong
side (`AdverseEntries`): a top-up averages two such entries, rounded against the trader, and
stays on that side. Whatever a position then closes at realises no profit, so that no
instruction raises what traders hold between wallets and program; a liquidation's remains are
at most the margin it takes. `CountdownAlwaysAgrees` splits on whether the window wraps;
`LeastIs` says when a member of a set is what `Min` chooses.

`MaturedExitAlwaysSettles` adds `SharesInv` to `IInv`: the supply is what providers hold, also after
transfers, so that no exit is larger than the supply; and the high-water mark is at least one
unit of NAV per share. `GainWithinWorth` concludes that the gain above the mark and one
unit for each share are within what the shares are worth, so that two fees of at most half,
each rounded up, fit into it.

Every invariant and every action property of the passing runs is a theorem. Out of TLAPS's
reach is liveness: `StoppedGetsFlat`, `ClosedStopsOpening`, `BreachIsSeen`, `DueOrderIsServed`,
`CatchesUp` and `EveryClaimEnds` are model-checked only.

## 6. Where the documents and the code disagree

| Run | Said | Done |
|---|---|---|
| `stuck_liquidation` | `state/market.rs:120`: "an underwater position must remain liquidatable" | A position in profit can be below a tiered maintenance margin. What it keeps (equity less penalty) then exceeds the margin it gives up, and the checked subtraction at `liquidate.rs:223` fails every liquidation of it |
| `halt_lifted` | `session.rs:155`: "Manual overrides win. An admin or guardian that halted a market did so for a reason the cranker cannot see, and a cranker that could undo it would make the halt advisory"; `price.rs:67`: a tripped market "stays there until an admin reviews it" | The guard under that comment keeps a halt only while the feed or the calendar says closed. Inside a session the permissionless crank takes a halted market to `GapWindow` and then to `Active`; a crypto market at once |
| `inherited_order` | `state/trigger_order.rs:104`: "two positions cannot occupy one address in the same slot, since the first must be closed and § 6.6's minimum-hold rule forbids reopening that fast" | The minimum hold is zero, since nothing sets it, and liquidation and ADL never ask for it. A position opened in the slot in which the first one opened and closed has its orders filled on it. `InheritsOnlyWithinSlot` is what does hold |

The following were seen while modelling. Those marked (TLC) were runs, checked until
other questions took their place: their counterexamples were found by TLC.

solfx-core:

- (TLC) I8, "LP token supply > 0 <=> LpPool.aum > 0": fees and losses reach a pool that
  nobody holds a share of, and a winner can take its assets to zero under outstanding
  shares (`lp.rs:372`).
- (TLC) `protocol_admin.rs:154`, the fee vault "holds the treasury's own share": it holds the
  referral share as well, and the treasury's withdrawal is limited by its balance only.
- (TLC) I9, equity does not go negative "without touching insurance": `reduce` books the
  shortfall of a voluntary close and leaves the fund alone (`close_position.rs:397`).
- (TLC) `state/market.rs:396`, "A position must not be liquidatable the moment it opens":
  the check compares `mmr_bps` with `imr_bps`; the size tier multiplies the first by up to
  four, and an open is checked without it.
- (TLC) `state/position.rs:79`, funding is settled "by a modify": only liquidation and ADL
  settle funding. An owner who closes pays none.
- `init_protocol` takes both fees of the LP pool without comparing them with anything
  (`initialize_protocol.rs:185`). They are charged on the same exit, each rounded up: if they add
  up to nearly the whole, `remove_liquidity` fails on a checked subtraction (`lp.rs:387`).
- The comment at `funding.rs:218` says that the floor of `accrued_funding` rounds a payment
  up in magnitude and a receipt down; with its signs it does the reverse, by less than a
  unit each time. The sums of I1 leave out the funding that payers have paid and receivers
  have not yet claimed; `CollateralBacked` includes it. I3 holds as an inequality, which is
  what `FundingConserved` states.
- On a market with a `min_hold_slots` (nothing sets one) a trigger's fill of a younger position
  would be refused: it runs `reduce`, although `trigger.rs:281-289` says that the hold is not
  for triggers. `place_trigger_order` does not
  ask whether the position's market is the one of the price it checks the trigger against.

Sessions:

- "Delisting is terminal" (`update_market.rs:149`): the guardian may halt a delisted market,
  and the crank then opens it. A market that was never activated and whose breaker trips
  becomes `Halted`, and the crank activates it.
- `session.rs:55`: "without it the calendar alone decides". A crank without a price account
  counts as a dead feed and halts.
- The end of a gap window makes a market `Active` also inside the last minutes before the
  close; the next crank corrects it. Only the cranks stamp `status_changed_at`, so a gap
  window that the admin sets may end at once. A crypto market's crank undoes an admin's
  `ReduceOnly`.

noxfunds:

- When exactly one position is gone the program calls its result exact. It is not if another
  one was partly filled by a take-profit since the last reconcile: the two credits are one.
  `RecordNeverFlatters` is an equation over all closes for that reason, not per trade.
- A partial take-profit followed by the trader's own close leaves the first result out of
  `realized_pnl`: it is reconciled by nobody once no position is gone, and a mandate may
  settle without it. The money itself is divided.
- `claim_settlement` leaves the mandate's account behind: its address is never free again, and
  an offer there can only be revoked. Dust sent to an offer's escrow stays there for ever.
- An evaluation's claim of a stage asks whether the drawdown limit holds and not the daily
  one. The best day is the running maximum of a day's result, so a profit at noon that is
  lost by the evening still counts as the best day against the consistency rule. The
  keeper leaves the positions of a failed evaluation open.
- Whoever bundles `funded_close_position` and a reconcile in one transaction makes
  `verify.ts` count the close as untimed. The model has one instruction in each.

Referral:

- Carry that a liquidation or a deleveraging settles is earmarked for the referral programme
  (`trader/mod.rs:164`), but only trades are recorded on the trader (`record_trade`), so no
  broker can ever claim that part. `RebatesCovered` is an inequality for this reason.
- `lib.rs:93`: `sync_split` is there so that a change of the core's split "cannot silently
  mis-price every entitlement". A share gathered under one split and synced under another is
  priced with the wrong one, whether the copy was refreshed or not, and while the split is
  zero a sync credits nothing and advances the watermark all the same.
- Anyone can sync without the parent's account; the override of that share is then lost to
  the parent for good. Each sync floors, so frequent syncs credit less.

Services:

- (TLC) `indexer.ts:21-24` promises that a missing event is visible. When `getTransaction`
  answers null for a listed signature, `fetchTx` stores a row without logs, and nothing
  fetches it again.
- (TLC) `faucet.mjs:300`, "Before the send nothing happened, so the claim is released": a
  send that fails towards the caller may have been accepted, and the wallet may claim
  again. So may one whose process died between the send and the record, and one whose
  transaction landed after the status was read and before the height that gave it up was. These
  three are what `LimitsHold` calls not `tracked`; of every other payment it says that the
  limits hold in money.
- A failed save of the faucet's file counts the address twice; if the second save fails as
  well, the exception leaves `claim` and the process dies (`Killed`).
- "The keeper still tries to get to all of them" (`danger.rs:13`). The cap on the liquidator's
  actions counts failed attempts and the largest notionals come first in each pass, so eight
  positions that cannot be liquidated (see `stuck_liquidation`) keep it from a ninth.
- The gateway's retries bypass its token bucket, and its low queue waits for as long as the
  high one is never empty (`gateway.mjs:140`).

## 7. What is not modelled, and why

- Cross-rate quotes (`convert_pnl_to_collateral`, `convert_cost_to_collateral`): quotes are
  in USD. They add a rounding per conversion and a rate that moves between entry and exit.
- Integer widths. `u64` and `i128` amounts are unbounded here; an operation the code would
  refuse with `MathOverflow` is far outside every instance. The audit's S-4 (an
  accrued funding that does not fit `i64`) is not represented.
- Oracle gates are predicates of one reading; what they let through is `Quotes`. Parameter
  updates and key transfers: parameters are constants. The rent of a trigger order only
  rewards the caller.
- The continuous-index regime of a market: `initialize_market` rejects it.
- noxfunds' prices in mandates: rules that compare a price with a limit only reject, and are
  left out with the pause. Profiles and listings of traders and investors and the requests
  between them: they hold no money, and only `post_request` reads one.
- `solfx-keeper`: `TriggerOrders` has the mirror and the trigger pass, and the other passes are
  the fair actions of `MarketSession`, `Mandates` and `Evaluation`. The liquidator's ranking
  (section 6), the throttle, the watchdog and the metrics are not modelled: a stale candidate
  is an instruction that the program refuses, and `Clearing` lets anyone send anything.
- The gateway, the API, generated clients, the user interface, command-line tools: no
  protocol state of their own. They are most of the repository's lines.

## 8. Plan

In order of what a fault would cost:

1. Done: `Vaults`, `Trading`, `Keepers`, `LpPool`, `Clearing`; `PositionLedger`,
   `FundingIndex`; `MarketSession`; `TrackRecord`, `Mandates`; `NoxFeed`, `NoxIndexer`;
   `Faucet`; `Evaluation`; `TriggerOrders`; `Marketplace`; `Referral`; the theorems of section 5.
2. `Custody`: the abstract specification of the program as four pots of money with transfers
   among them and the wallets, and `Clearing` refining it.
3. `Admin`: parameters as state, with `ValidRiskParams` as the guard of each update; the
   liquidator over its ranked candidates.
4. Listings and requests of the marketplace.

The runs are one per question; as components arrive, those of section 6 that have been
answered give way to theirs.
