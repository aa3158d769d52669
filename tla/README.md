# A verification project for trade-me-away

trade-me-away is a command-line trader for Coinbase spot markets. A timer starts `run`; the process
takes a lock, recovers the orders that earlier processes left open, reconciles the account, asks a
language model for one joint decision, sizes it, and executes at most one order at a time. A
second timer starts `maintain-orders`, which only recovers. Everything a process knows is in one
SQLite database; every process may die anywhere, and the answers of Coinbase and OpenAI may be lost,
late or stale. Two further jobs are timed: `track-outcomes` measures afterwards what the decisions were
worth, and every command first brings the database up to the current schema. This project models these
parts in TLA+, checks them with TLC and proves their main properties with TLAPS.

Contents: [components](#components), [modules](#modules), [runs](#runs), [fairness](#fairness),
[proofs](#proofs), [assumptions](#assumptions), [disagreements found](#disagreements-found),
[plan](#plan), [not modelled](#not-modelled).

## Components

| Component | State | Operations | Hard behaviour | What makes it correct |
|---|---|---|---|---|
| Live execution and recovery (`execution.py`, order tables of `storage.py`) | intents, orders, fills, cancellation attempts, ledger, expected balances | prepare, execute, discover, verify, cancel, settle, recover | lost answers, late delivery, crashes between commits, lagging reads, `.env` edited in between | one order at risk, one POST, fills booked once and whole, verdicts final, every accepted order closed in the end unless six days pass without a reconciliation |
| Coinbase (`coinbase_client.py`) | orders, fills, balances | POST order, cancel, GET order, list fills, list orders, accounts | each read lags on its own; a POST may arrive after its timeout | it is the environment |
| Account books (`portfolio.py`, `funding.py`) | actual balances, checkpoint, strategy ledger, deposits | reconcile, seed, value, apply fills, record deposit | three books compared pairwise with a tolerance and never rebased | the books agree, their difference is explained, deposits are recorded once, orders can be settled |
| Model budget (`llm.py`, `costs.py`) | `api_usage` | reserve, call, finish, retry | a lost answer may have been charged; crash before the cost is known; midnight | charges stay within the budgets, a paid decision can be used |
| Paper execution (`execution.py`) | paper ledger, orders | execute, recover | interruption; shares the one-unresolved-order rule | one transaction, no exchange effect |
| Trading cycle (`orchestrator.py`, `scheduling.py`) | cycles, slots, strategy bindings, decision records | startup, bind, decide, assess, guard, execute, finish | crash at every stage, duplicate launches, several portfolios, midnight, portfolios moved between strategies | one order per asset and period, one strategy per portfolio, a record of every decision that tells what happened |
| Daily marks (`storage.mark_equity`) | daily_marks | mark, loss fraction | deposits within and between days, days without a mark | deposits never hide, cause or dilute a loss |
| Risk sizing (`risk.py`) | none | assess, cap_refreshed_intent | rounding, limits, fees, prices that move between sizing and order | limits hold after the fill; a refresh never enlarges an order; the target is not passed |
| Outcomes (`outcomes.py`) | decision_outcomes | track | candles late, missing or not settled; batch limit; failing reads | only settled candles count; nothing is lost; what can be completed is |
| Schema (`storage.__init__`) | user_version, tables | migrate | crash between the steps, files of four earlier versions | a process finds the schema it uses |
| Commands, lock (`__main__.py`, `storage.process_lock`) | lock file | all commands | overlapping timers | one process |

Components interact through the database (intents, ledger and checkpoint written by execution are
read by reconciliation and funding), through calls (the orchestrator passes a guard that `prepare`
calls back, which reconciles and assesses again), and through the account at Coinbase, which orders,
deposits and their rounding move behind the program's back.

## Modules

| Module | Models |
|---|---|
| `Exchange` | The orders, fills and balances of Coinbase as `coinbase_client.py` uses them (external). |
| `LiveExecutor` | `execution.py` with the order tables; extends `Exchange`, so process and exchange interleave. |
| `OrderPromise` | What order execution promises the rest of the program; `LiveExecutor` refines it. |
| `AccountBooks` | `portfolio.py`, `funding.py`, and the parts of `execution.py` and `storage.py` that touch the three books. |
| `ApiBudget` | `llm.DecisionClient.decide`, `costs.py`, `reserve_request`, `finish_request`, `spending`. |
| `StorageMigration` | The statements of `Storage.__init__` that alter a database, one durable step each. |
| `TradingCycle` | `orchestrator.py` with slots, bindings, cycle rows, decision records and intents; extends `StorageMigration`, so any process may die while it opens the database. |
| `DecisionLog` | What the decision records promise their reader; `TradingCycle` refines it. |
| `DailyMarks` | `storage.mark_equity` with the deposits of `funding.py`. |
| `Outcomes` | `outcomes.track_outcomes`, `pending_outcomes`, `save_outcome`. |
| `RiskSizing` | `risk.assess`, `risk.cap_refreshed_intent`, `util.step`, and the fills that follow. |
| `MC*` | Small instances for TLC. |
| `*Proofs` | The theorems and their proofs, one module per model. |
| `SumTheorems` | What a sum over a finite set does when the set or a summand changes, for the proofs about budgets and portfolios. |

The modules are separate because their couplings are narrow. `AccountBooks` needs of an order only
that it is sent, final, booked and gone; how it gets there is `LiveExecutor`. `LiveExecutor` needs
of the books only how many fills they hold; whether amounts fit and agree is `AccountBooks`. Model
requests happen before any order of their cycle. `TradingCycle` composes whole cycles over one database:
what an executor does between SUBMITTING and its verdict is one outcome there, what `assess` computes is
a free choice, and both have their detail in `LiveExecutor` and `RiskSizing`.

### LiveExecutor

One process holds the lock, so one program counter `pc` is enough; `cur` is the intent it works on,
`job` the command with the state of `recover_orders`, `tries` and `view` the locals of `_verify`.
One step is one SQLite transaction or one request, so a `Crash` may fall between any two. The step
names follow the code:

| Code | Actions |
|---|---|
| `main`, `recover_orders`, `Orchestrator.startup` | `StartCommand`, `RecoverUnsent`, `RecoverSent`, `RecoverFails`, `RecoverDone`, `StartupPasses`, `EndCycle` |
| `BaseExecutor.prepare` with the orchestrator's guard | `Prepare` |
| `PaperExecutor.execute`, `recover` | `PaperExecute`, `RecoverUnsent` |
| `CoinbaseLiveExecutor.execute` | `MarkSubmitting`, `Submit`, `SubmitRefused`, `Acknowledged`, `Rejected`, `NoAnswer` |
| `_discover_and_verify` | `Discovered`, `NotDiscovered` |
| `_verify` | `GetOrder`, `ListFills`, `ReadFails`, `GiveUp` |
| `_cancel_overdue` | `CancelSkipped`, `BeginCancel`, `CancelRefused`, `CancelPost` |
| `_settle` | `Book`, `Settled`, `NotSettled` |

Database rows: `istatus` is `order_intents.status`; `orderRow` tells whether `orders` has a row and
an id; `booked` is the fills table; `ledger` and `expected` count the fills in `strategy_state` and
`exchange_state`; `attempts` counts `cancellation_attempts`. `posts` and `cancelPosts` are history.
`gap` is the time since `last_reconciled_at` of `exchange_state`: whatever reconciles without a reason
resets it (`ExchangeSeen`), and once it is more than `MaxGap` a live reconciliation fails with
RECONCILIATION_HISTORY_GAP, so nothing resets it again (`HistoryGap`). A paper process only observes the
gap; it neither fails nor resets it.
The exchange keeps POSTs on a `wire`, from which they may be delivered or lost at any time.

### AccountBooks

`actual`, `checkpoint` and `ledger` are functions of two currencies; `rows` tells which database rows
exist; `view` is the account as the running process read it and `claim` the deposit it has checked.
A fill may move the account by up to `Rounding` more or less than it says in each currency, which is
what the tolerances of `_verify` and of reconciliation admit. `outside` (deposits that arrived minus
deposits that were recorded) and `orders` are history. `gap` is the time since the last reconciliation,
as in `LiveExecutor`; record-deposit, which reconciles too, is refused by the same history gap.

### ApiBudget

`rows` is `api_usage`, each row with what OpenAI has charged for it as history. `Process` lets OpenAI
charge a request at any time after it was reserved, also after its failure was recorded or its
process died. `today` may advance at any step.

### TradingCycle

`pc` is the place of the process that holds the lock, from opening the database to the end of its
command; `proc` is its mode, strategy, cycle row, position in the list of assets and the intents it has
still to recover; `seen` is its count of the day's trades, taken when portfolios are valued and used
later. `bound`, `cycles`, `log` and `intents` are the tables. The actions follow `Orchestrator.run`:

| Code | Actions |
|---|---|
| `main`, `Storage.__init__` | `Start`, `OpenFurther` |
| `bind_strategies`, `begin_cycle` | `Run`, `Doctor`, `BeginCycle`, `Refuse` |
| `startup`, `recover_orders`, `maintain-orders` | `Maintain`, `Recover`, `RecoverFails`, `Recovered` |
| decisions recorded before execution | `Decide`, `RecordDecision` |
| the loop over the assets | `Decline`, `Approve`, `Refresh`, `Guard`, `SaveIntent`, `ExecutePaper`, `Submit`, `ExecuteLive`, `Rewrite`, `AfterExecution` |
| end of the cycle | `FinishCycle`, `Fail`, `Crash` |

A decision record is reduced to its execution status and to whether `executed_notional` and the exposure
after the trade are filled in. In the words of `DecisionLog` it goes from decided to declined, or to
announced (PENDING), closed (with its intent, in one transaction) and verified.

### DailyMarks

One portfolio: `equity` is cash and positions at the current price, `marks` is `daily_marks`, and of
`cash_deposits` the sums that `mark_equity` takes are kept. `lastGain` and `dayGain` are history: what
trading alone had gained at the last valuation and at the last one before today. `MarkAgain`,
`MarkNewDay` and `MarkFirst` are the three cases of `mark_equity`.

### Outcomes

Time is in ticks; a candle is traded or not (`quiet`), and read before or after it has settled. A run
takes the first rows by `updated_at` (`Begin`), then checks each in turn (`Check`, or `Fail` if reading
or parsing raises) and may die between two (`Crash`).

### RiskSizing

Increments are the units of quantities and prices, fractions are `Den`-ths, and money is counted in
`2 * Den`-ths, in which mid prices and fees are whole; so every division left in the model is one that
the code rounds. `Approve` is the first `assess`, `Guard` the second with `cap_refreshed_intent`. `Fill` is
any part of the order, in executions of any prices it admits: a limit order trades up to its quantity at
its limit or better, also better than any quote it was sized with; a market buy (`market_ioc`) spends up to
its quote amount and a market sale trades up to its quantity, both at any price. A market order is sized
with an estimate, the quote moved by `slippage_bps`, which `Limit` stands for too.

## Runs

| Run | Question | Bounds |
|---|---|---|
| `two_orders` | Is there ever more than one order at risk, a second POST, a double or missing booking? Does execution keep `OrderPromise`? | two live intents (symmetric), one paper intent, one fill each, one verification round, one cancellation attempt, a gap of one tick |
| `one_order` | Do lagging totals, partial pages, cancellations and their clocks ever close an order early, exceed the cap or lose an id? Is the truth ever refused? Does every process end? | one live intent, two fills, two rounds, two attempts, ages of one tick, a gap of more than two |
| `live_recovery` | Is every accepted order closed in the end, by a process of either mode, unless the history gap opens first? Does an intent interrupted before its request ever block trading for ever? | one live intent, one fill, one round, one attempt, a gap of more than one tick |
| `books_safety` | How far can the three books be apart, and deposits from the truth? | one unit of tolerance and of rounding, opening balances up to one, deposits of one and two, two references, two orders |
| `books_liveness` | With exact fills, and deposits above the tolerance made as prescribed, does record-deposit demand what was credited, and is every order settled unless the history gap opens first? | balances up to two, deposits beyond the tolerance only, two references, two orders, a gap of more than one tick |
| `phantom_deposit` | Can an absent transfer be recorded? (violation) | as `books_safety`, deposits as prescribed |
| `stuck_fill` | Can the fill of a final order always be recorded? (violation) | as `phantom_deposit`, deposits beyond the tolerance only |
| `api_budget` | Can charges exceed a budget, or a paid decision be unusable? | three days over a month boundary, two prompts, two attempts, five requests, a daily budget that one retry can exhaust |
| `trading_cycle` | Do slots, bindings, daily limits, records and intents stay consistent over crashes, restarts, both modes, a midnight and a change of strategy? Does the schema serve every process? | two cycles, three units of time with midnight after the second, two strategies of different cadence, two assets in one portfolio or the same product in two, one trade a day, one move, a new file and four old ones |
| `daily_marks` | Is the daily loss what trading lost, and always a fraction of something? | three days, deposits of one and two up to four, equity up to three |
| `outcomes` | Is every measurement of a settled candle, made once, and made in the end? | two decisions, runs of one row or two, two horizons, an hour of two ticks |
| `risk_sizing` | Does an order ever grow, break a limit or pass its target on its way from the model to its fill? | both order types, two assets, three bids, targets of nothing, three tenths and four fifths, fee and offset of a fifth, slippage of a tenth, orders of up to five units, executions at prices from below the lowest bid to above the highest ask |

Why the bounds are enough. The order rules are about pairs of orders: a second live order and a paper
one are all the partners an order can have, and a third would meet the same states. Two fills
distinguish none, some and all, which is all that `Complete` compares; two rounds distinguish the
last round from the others; two cancellation attempts distinguish below, at and within the cooldown of
the cap. The books need a difference below, at and above the tolerance, hence one unit of
tolerance and deposits of one and two. The budget needs a retry that fits and one that does not, in
one day and across both boundaries. Two cycles are what slots, bindings and daily limits compare, and
two assets are what "before the first order" and "after the last" need; both layouts matter, because
the old uniqueness of intents differs from the new one only between portfolios. Three days give a day
without a mark between two others. Two decisions compete for one row, and the second horizon is the
one whose window needs every candle. The prices and fractions of `risk_sizing` are coarse on purpose:
each rounding changes the result; `LowPrice` and `TopPrice` leave room for executions better than the quotes
on both sides, and worse ones of market orders. The history gap is open after one tick where the run is
about safety, where it only refuses; `one_order`, `live_recovery` and `books_liveness` let time pass before it.

`books_liveness` leaves deposits within the tolerance out. Reconciliation tolerates such dust before it is
recorded, the strategy may spend it, and the fill then exceeds the stored ledger: that is the disagreement
`stuck_fill` shows, and with it no order is sure to be settled.

`CHECK_DEADLOCK FALSE` appears in each configuration because the
instances end: no intent, order or request is left once the bound is used up.

Each property has a mutant of the code's model that violates it under the same configuration; the
mutants stand beside the definitions they replace and are named in `PROJECT.json`.

What the properties say, beyond their comments:

- `OneOrderAtRisk` counts a POST that may still arrive and an order open at the exchange as well
  as an unresolved row. It holds although a POST can be delivered after discovery found nothing,
  because `NotDiscovered` leaves the intent unresolved, and that blocks both modes.
- `ResolvedMeansBooked` is the reason for the many conditions of `_verify`: it fails as soon as
  the number of fills is not compared or unsettled totals are trusted.
- `TruthAccepted` is the counterpart: those conditions, and the refusals that leave an order to a
  person (`ORDER_STATE_CONFLICT`, `FILL_HISTORY_MISSING`, a balance mismatch), are all met once the
  exchange has settled the order, listed its fills and credited them. The one refusal it leaves out is the
  history gap, which time alone brings about. `AcceptedOrderResolves` rests on it.
- `AcceptedOrderResolves` and `OrdersResolve` end in "or the history gap is open", and that is no
  formality: an order still unresolved six days after the last reconciliation (the host was down, or
  reads kept failing) is never closed by the program. `portfolio.py:43-46` refuses every settlement,
  since only seven days of fills are read, and nothing but a reconciliation moves the time it counts
  from. The repository says that an operator has to review it then (`src/README.md:224-226`,
  `docs/integrations.md:108`). `HistoryGapStops` proves the stop.
- `ProcessesEnd` counts what a process has left to do: intents on its list or never tried, rounds of
  `_verify`, places within a round. It is the part of termination that needs no fairness: a process that
  takes steps ends, and its lock is free. A settlement that restarted `_verify` would violate it.
- `KeepsPromise` says that all of this looks from outside like pending, trading, one booking,
  closed. A fill after the booking would break it, as would a second booking.
- `BooksAgree` is stronger than it looks: ledger and checkpoint are each compared only with the
  account, but are never more than one tolerance apart, because everything that moves one moves the
  other.
- `DriftBounded` states the cost of never rebasing: the difference to the account grows with every
  rounded order until reconciliation stops trading.
- `ChargesWithinBudget` is about what OpenAI charges, not about what the table says.
- `OneOrderPerPeriod` is what makes a RUNNING row left by a crash harmless: its slot stays taken, in
  both modes, and no restart trades the period again.
- `TradesBounded` holds although the count is older than the intent, because only one process writes,
  the guard counts again, and the intent is dated when the guard assesses.
- `LogKept` is about every record at once: among other things that an order never exists without an
  announcement, that a crash between the announcement and the intent leaves "announced" and no more,
  and that a declined decision never trades.
- `CompletedSettled` says what COMPLETED is worth: nothing open, nothing unexplained. It does not
  hold of HOLD or RUNNING.
- `SchemaServes` fails for a file of version 4 as soon as the column `strategy` is made to depend on
  the version instead of on the table.
- `LossIsTradingLoss` compares the code's chain of baselines, latest values and deposits with a
  reference that knows nothing of days: equity minus all deposits.
- `CompletesEventually` needs the order of the query: the oldest decision first would starve the
  others, since one with a candle that never comes stays pending for ever.
- `ExposureBounded` is about the state after the fill, valued at the mid price with the fee paid,
  while `assess` computes before it with the worst price. Positions are valued at the quotes of the guard,
  the last the program saw: a price that changes while the order is on its way changes what everything is
  worth, for either order type, and no property speaks of that.
- The `Windfall` that `ExposureBounded` and `TargetNotCrossed` leave out is what no estimate made before the
  order bounds. A market buy spends a fixed amount, so below the mid price it buys more than was sized, and
  its exposure may pass the limit by the difference; the repository says that the estimates cannot cap market
  orders (`src/README.md:285-289`). Any sale above the mid price, which a limit order admits as well, adds
  to the equity that the target is a share of. For a limit buy the windfall is zero: at a better price the
  same quantity leaves more cash.
- `DecisionUsable` relates two checks with different comparisons (`>` in `reserve_request`, `<` in
  `budget_available`); it holds because an answer costs less than its reservation.

## Fairness

`live_recovery` assumes what the deployment provides. `StartCommand("maintain")` is weakly fair: the
maintenance timer fires every fifteen minutes, and the lock only delays it. Process steps are
weakly fair: requests have timeouts and the loops are bounded. Steps that need an answer
(`Discovered`, `GetOrder`, a complete `ListFills`, `Book`, `Settled`, each recovery branch) are strongly
fair: the read may fail again and again, the process may die again and again, but not for ever.
The exchange finishes, settles and credits its orders (weak fairness): orders are immediate-or-cancel.
No fairness is assumed of `.env` or of new cycles, so a live order is closed even if every later
process runs in paper mode. None is assumed of time either: it may pass at any step or not at all. "Not for
ever" sets no limit to an outage, so the history gap may open while an order is unresolved, and the
property says so. `PreparedResolves` needs no such reservation: recovery of an intent that was never sent does
not reconcile. The run has no paper intent: `PaperExecutor.recover` closes one in a single transaction, which the
safety runs interleave with the rest.

`books_liveness` assumes, with the same reservation, that the exchange ends orders, that a process ends, and that booking and
confirmation are retried by the maintenance timer. Fills are exact there (`Rounding = 0`): with
rounding the property is false, see below.

`outcomes` assumes that time passes (strong fairness of `Tick`, which a run holds up only while it
lasts), that the hourly timer starts runs and a started run goes on (weak fairness of `Begin` for some
limit and of `Step`), and that a check that may fail again and again does not fail for ever (strong
fairness of a `Check` of each decision).

## Proofs

`LiveExecutorProofs` proves `IInv` inductive for any number of live and paper intents, fills,
verification rounds, cancellation attempts and clock limits; it yields `TypeOK`, `OneOrderAtRisk`,
`PostedOnce`, `BookedOnce`, `ResolvedMeansBooked`, `CancelsAccounted`, `VerdictIsFinal` and
`IdentityKept`. None of these is inductive alone. The strengthening says four things: the status
of the intent at hand matches the place in the code (`ProcessInv`), so a crash leaves only statuses
that recovery interprets correctly; a POST, its row and its order can only be in certain
combinations (`PostInv`), so PREPARED proves that nothing was sent; what `_verify` has read of a final
order stays true (`ViewInv`), because final orders do not trade; and at most one intent is
unresolved (`OneUnresolved`). The proof has one lemma per action and splits `IInv` into a part about
the process and `DataInv`, which most steps leave alone.

A second part of the module proves that `LiveExecutor` implements `OrderPromise` (`KeepsPromise`), and
`CancelJustified`. The refinement needs one more invariant, `BookedWhole`: what is booked of an order is
all of it, and the order is final. With it a trade always falls on an order with nothing booked, and a
booking is the first and the last. Most steps are `Hidden`: they change nothing the promise
speaks of. A third part proves `ProcessesEnd` with a variant, `Work`: every step within an intent lowers
its place (`PlaceFalls`), every round ends in a round less (`RoundFalls`), and every intent left is one
less ahead (`LeaveFalls`), which outweighs all places within one. The last part proves `TruthAccepted`,
from `IInv` and two facts more (`TraceInv`): only an order of known id is ever to be cancelled, so
PREPARED has no attempts, and the exchange fills no order without executions. That the account agrees
once all is credited is the counting argument of `Settled` read backwards (`BooksShowAll`). `HistoryGapStops`
is the other side: once the gap is open it stays open, whatever commands run in either mode, nothing
is settled and no live intent is created; an order accepted before it is left to the operator.

`AccountBooksProofs` proves `TypeOK`, `BooksAgree`, `DriftBounded` and `PhantomBounded` for any
tolerance, rounding, deposits and number of orders, and that with exact fills no deposit is recorded
that did not arrive and every true one is accepted (`ExactFillsNoPhantom`,
`ExactFillsExactDeposits`). The invariant adds which rows exist when, and what a process in the middle
of a command may still rely on (`ReadInv`): the account it read agreed with the checkpoint, and a
checked claim is covered by deposits that arrived, up to the drift.

`ApiBudgetProofs` proves the three properties of `api_budget`, and `TypeOK`, for any budgets,
reservations, attempts and calendar. Row by row, what is booked covers what is charged
(`ChargesCovered`). A reservation fitted both budgets on its day when it was made; from then on the
bookings of that day and of its month only shrink, since a row is added only on the current day and
changed only to less (`RowsInv`, `BookedWithinBudget`). So the charges, which are below the bookings,
are within the budgets (`ChargesWithinBudget`), whenever midnight falls. A row whose usage is known is
booked below its reservation, which leaves something of the budget its reservation had fitted
(`SomeLeft`); hence `DecisionUsable`.

`RiskSizingProofs` proves the three properties of `risk_sizing` for both order types and any number of
assets, any quotes, spread, positions, fee, offset, slippage, limits, increments and prices of execution, and
that cash and positions are never negative (`TypeCorrect`). The invariant says what is known of an order at
each stage: one that was approved or sent is worth at least its quote amount (`Priced`), and one on the wire is
within `Approved` for the quotes and the portfolio it will be filled with (`Allowed`). The rest is arithmetic
with products of variables: each division of `assess` bounds a product (`RoomBound`, `CapacityBound`,
`SurplusBound`). A buy of either type spends at most its quantity at the price it was sized with, a limit order
by its limit and a market order by its quote amount, and what it is counted for is worth no more than that
(`BuyCounted`); from there the bound holds while cash, exposure and the equity they are a fraction of all change
(`Bought`, `Paid`). A sale lowers the equity but for its windfall, so its share falls too (`SaleFilled`).
`NeverEnlarged` follows from the third bound of `cap_refreshed_intent`, by the quote amount, and from `Priced`.

`SumTheorems` carries both. Its induction is over a set of good subsets, from the well-foundedness of strict
inclusion (`SubsetInduction`), and over a set of numbers (`NaturalInduction`): the library's induction
theorems that take a predicate cannot be used here. `SumFunctionOnSet` is recursive, so first its
recursion is shown to reach every subset (`SumsExist`), and then that the order in which it takes the
elements does not matter (`SumRemove`, `SumInsert`, `SumReplace`).

`TradingCycleProofs` proves every property of the run `trading_cycle`, and `TypeOK`, for any portfolios,
assets, strategies, cadences and limits, and for any number of cycles and moves. The invariant has four
layers, each preserved given the ones before it.

1. Types; the schema is complete once it is open (`Migrated`); the process is where its local
   variables say (`Where`).
2. Slots are unique (`SlotsOnce`); a portfolio that traded is bound to the strategy of its cycles, and
   the binding is never changed (`Agreed`, `AllTraced`, `LegacyRows`); a running process was admitted by
   these bindings (`Held`). This gives `OneOrderPerPeriod` and `OneStrategy`.
3. Record and intent of a decision fit each other (`Pairs`); at most one intent is open, and a process
   at its guard has seen none (`OneOpen`, `TodoOpen`); and of the cycle under way, the assets before the
   current one are done, those after it only decided, and the current one is as far as `pc` says
   (`Progress`). This gives `OneOpenOrder`, `DecisionsFirst`, `CompletedSettled` and, step by step,
   `LogKept`.
4. No intent is dated in the future (`Dated`), counts that were taken bound the trades of today
   (`Counts`), and a process about to save has room on its day, whatever day it is by then (`Room`). This
   gives `TradesBounded`.

`DailyMarksProofs` proves the three properties of `daily_marks` for any amounts and days. The invariant
says that each row's `latest` and `funding` together are the gain at its last valuation, so that the
baseline of a day is the gain before it and the deposits before it.

`OutcomesProofs` proves `SettledPrices`, `CompleteWhole` and `NothingLost` for any decisions, horizons
and batch limits; they are nearly inductive with `TypeOK`.

Only model-checked: the four liveness properties (`AcceptedOrderResolves`, `PreparedResolves`,
`OrdersResolve`, `CompletesEventually`), which need `ENABLED` and fairness and are out of the prover's
reach. Every invariant and action property of the passing runs is a theorem; `ProcessesEnd` and
`TruthAccepted` are the parts of `AcceptedOrderResolves` that could be proved, since they ask for no
fairness: a process takes boundedly many steps, and once the exchange has caught up no refusal holds but
the history gap. Where `TypeOK` is proved and says no more than types, the runs do not check it again.

## Assumptions

- The lock of `storage.process_lock` works, so processes do not overlap.
- A SQLite transaction commits or does not; a write fails only when the process dies. A failed audit
  write after the last record of `_settle` would be caught and verified again; it is not modelled.
- GET order is truthful about the status. An order that traded does not report zero fills, even
  unsettled: the code closes an unsettled order with zero totals (`execution.py:422`).
- An explicit rejection proves that no order exists (`execution.py:236`).
- An account snapshot is one step. The re-read of `.env` and the request after it are one step.
- Fills and listed orders of this program are found by their ids; orders of other programs on the
  account are outside the models.
- Amounts in `LiveExecutor` are counted in fills; `Book` does not fail there, its failure is
  `Fits` in `AccountBooks`.
- A process uses the configuration it read when it started; portfolios are moved to another strategy
  between processes. A change of `TRADING_MODE` under a running cycle is one of its failures
  (`LiveExecutor` has the detail).
- In `TradingCycle` the ledgers that bind a portfolio without a row to the default strategy are those an
  older release left; a ledger that this release seeds comes with its row.
- A run of `track-outcomes` is shorter than a tick, and fewer decisions become pending in a tick than all
  runs of that tick take; otherwise new decisions would delay old ones without limit.
- A candle that was not traded is missing for ever; one that was is complete after the grace time.
- The limits of `RiskSizing` are those `config.py` admits: offset and slippage below the whole (at most 1000
  basis points), exposures that are fractions, that of an asset at most that of the portfolio; either may be 0.
- The exchange keeps to what an order says: no execution beyond its limit, its quantity or its quote amount.
  Executions are at whole increments in the model; paper fills are at the quote with slippage and may lie
  between two, which changes none of the bounds. The fee is `taker_fee_rate`, which startup compares with
  the reported one.
- A request to OpenAI costs less than its reservation: bytes plus 2048 bound its input tokens, and the
  output limit is enforced by the service.

## Disagreements found

- `stuck_fill` (code bug). `load_ledger` sizes orders on the account whenever it is within tolerance
  of the stored ledger (`execution.py:200-209`), but fills are applied to the stored ledger, and
  `apply_fills` raises `FILL_EXCEEDS_POSITION` or `FILL_EXCEEDS_CASH` when they exceed it by a single
  unit. A full exit after a tolerated difference is then never recorded, every recovery raises
  again, and the order blocks trading in both modes. The comment at `execution.py:490` says that actual
  fills are recorded.
- `phantom_deposit` (comment and code diverge). `funding.py:77-78` says that an absent transfer cannot be
  accepted. The increase is measured from a checkpoint that still carries the residue of
  rounded fills, so an amount equal to the residue is accepted without a transfer. For the same
  reason a true deposit declared exactly is refused while a residue exists; `PhantomBounded` and
  `DriftBounded` show that this, and nothing else, can go wrong.

## Plan

Done: `Exchange`, `LiveExecutor`, `OrderPromise`, `AccountBooks`, `ApiBudget`, `StorageMigration`,
`TradingCycle`, `DecisionLog`, `DailyMarks`, `Outcomes`, `RiskSizing`, and the proofs above. Left, in this
order:

1. `CostBasis`: realized profit and cost through `apply_fills`, against a reference over the list of fills.
2. Account snapshots as several reads (`coinbase_client.py:166`), between which an order may change.
3. `check_schedule` with an offset that leaves less than its fifteen minutes of a period.

## Not modelled

`market_data.py` and `features.py` (stateless reads and numerical indicators), `prompt.py` and
`schemas.py` (formatting and declarative validation), `portfolio_id.py` (a helper command), logging,
redaction and Decimal parsing in `util.py` and `errors.py`, argument parsing and output of
`__main__.py`, validation of the YAML configuration, and the systemd units except for the fairness the
maintenance timer gives. None of them keeps state that the properties depend on.

Parts of modelled components that are left out: paging, permissions and parsing of Coinbase's answers;
the simulated price of a paper order; the rejections of `assess` that only look at flags, ages,
confidence or the spread (`Pass` may take any of them at any time); the launch window of
`check_schedule`, which only refuses a start; the cache of candles within one run of
`track-outcomes`; audit rows that nothing reads back. Opening a file that is up to date is one step
of `StorageMigration`, since none of its statements changes anything.
