# Trade Sentinel: TLA+ specifications

Trade Sentinel is a self-hosted dashboard: one FastAPI process, one asyncio event
loop, one SQLite file (WAL, `busy_timeout` 5 s) behind SQLAlchemy's async session.
It keeps four portfolios. One (the savings tracker) records real money; the other
three (the LLM simulation, the monthly portfolio, daily-core) are paper. Background
loops and HTTP endpoints change the same rows, with `await`s between reads and
writes. This directory holds the TLA+ modules that model that behaviour, the TLC
configurations that check them, and proofs for TLAPS.

    tlc -config savings_ledger.cfg SavingsMC     # any .cfg with the module PROJECT.json names
    tlapm DailyCoreProofs.tla                    # any module whose name ends in Proofs, and FiniteLemmas

`PROJECT.json` lists components, runs, mutants (a plausible bug per property that the
run must detect), the map from definitions to source lines, findings, hazards and
theorems.

## Inventory

| part | state | operations | hard behaviour |
|---|---|---|---|
| savings tracker (`savings.py`, endpoints `main.py:1035-1197`, loop `main.py:173-212`) | account row, plans, positions, event ledger, mirror entries / parked rows / positions, snapshots; `_cycle_lock` | nightly pass (transfer, interest payout, accrual, Sparplans, flush, snapshot); initialize, reset, true-up, deposit, saveback, manual buy, configuration, plans, remove position | operations of several transactions; missed, repeated, interrupted and midnight-crossing passes; mirror kept in step with positions |
| monthly portfolio (`monthly.py`) | account, positions, trades, allowances, snapshots, rebalances; `_rebalance_lock` | allowance, rebalance, daily mark, backfill, reset | deposits without the lock against cash writers; marker set before the trades; wipe and replay in separate transactions; two calendars (local and UTC month) |
| daily-core portfolio (`daily_core.py`) | account, positions, trades, protection state, stored ranking, state file; `_cycle_lock`, `_targets_lock`, `_state_lock` | allowance, targets, protection decision, deployment, snapshot, backfill, reset, variant and universe switches | as monthly, plus a decision streak advanced by re-runs, and a ranking that outlives the universe it was made for |
| LLM simulation (`sim.py`, `strategy.py`) | account, positions, trades, runs, chat, benchmark; `_run_cycle_lock` | allowance, run cycle (screen, review, reconcile, execute), chat trades, backfill, benchmark, reset | background start of a cycle, an LLM answer that arrives after positions moved, budgets planned on cash that is spent by then |
| scheduler and composition (`sim.py:2734-2900`, `main.py:633-733`, `1280-1302`) | the day last run, the lead-time prefetch marker | daily tick, daily mark, `backfill_all`, `reset-all`, single endpoints | several locks taken one after the other, one stage failing or skipped |
| market data (`market.py`) | candles, request counters of the Twelve Data limiter | refresh, batch refresh | per-minute and per-day budgets under concurrency, freshness window |
| universe sync (`universe_sync.py`) | the constituent files | guarded sync | a shrunken or empty download must not replace the list; atomic replace |
| screener (`screener.py`) | progress record, `_screener_lock` | update, deep load | one run at a time |
| LLM client, news, fundamentals, EDGAR, technical analysis, configuration | caches, selected backend | HTTP calls, parsing | I/O |
| offline optimiser (`optimize.py`) | none | command-line backtests; its two replay engines are also what the simulation's backfill runs | order of sells, proposals and LLM decisions within a day |

How they interact. The scheduler (`sim._scheduler_tick`) runs, each day after the close,
the monthly, simulation and daily-core cycles one after the other; the savings loop
runs on its own. Every portfolio has an asyncio lock of its own. A scheduled pass that
finds its lock held is skipped, since `locked()` followed by `async with` has no
`await` in between; endpoints and most backfills wait instead. `deposit_allowance` of the
three paper portfolios takes no lock although status endpoints call it; `reset_sim` and
the trades of the chat take none either. Portfolios share candles, universe and the stored
daily-core ranking, which the savings mirror reads.

What makes each part correct:

- savings: the ledger explains the cash; transfer, payout and accrual happen once per
  month or day; a plan buys once per month, never retroactively; the mirror holds the
  same euros as the positions; parked euros get placed;
- monthly, daily-core, simulation: money is conserved, one allowance per month, one
  rebalance per month, snapshots show no half-executed state, a backfill replaces the
  state or leaves it, limits on cash and positions hold;
- daily-core decisions: the live engine decides what the replay would decide, on the
  closes of one selection's basket;
- market data: never more requests in a window than the plan allows;
- composition: every stage of a tick is reached, every backfill-all ends.

## Modules

| module | what it is |
|---|---|
| `Savings`, `SavingsMC`, `SavingsProofs` | the savings tracker, its calendars for TLC, its theorems |
| `Monthly`, `MonthlyProofs` | the monthly portfolio: one action per read and per commit; its theorems |
| `DailyBook` | what daily-core promises: a book that changes by whole deposits and whole passes |
| `DailyCore`, `DailyCoreMC`, `DailyCoreProofs` | daily-core in its transactions, its theorems, the refinement of `DailyBook` among them |
| `DailySignal` | the stored ranking, the state file and the protection rule |
| `Strategy`, `StrategyProofs` | the trading rules of `strategy.py` as operators; what they return, as lemmas |
| `Replay`, `ReplayMC`, `ReplayProofs` | the two replay engines, over `Strategy`; their theorems |
| `Sim`, `SimMC`, `SimProofs` | the live simulation, over `Strategy`; its theorems |
| `Schedule` | what a tick owes the portfolios: the variables that tell, and `EveryStageReached` |
| `Service` | scheduler, coordinator and endpoints over the portfolios' locks |
| `Quota` | what the limiter promises the provider: the history of calls, and `QuotaKept` |
| `Market`, `MarketMC` | the limiter of the metered provider and the freshness map |
| `SharedProofs` | the theorems of `DailySignal`, of `Market` (its instance `Fetch`) and of `Service` (its instance `Loop`) |
| `FiniteLemmas` | lemmas about sums over finite sets, folds, extrema and even shares, for all the proofs |

In every module, operators introduced by "Mutant:" are plausible bugs in the definition
that follows them; no action uses them. `history` variables (`reached` in `Service`,
`granted` in `Market`) are what properties remember, and no guard or effect reads them.

### `Savings`

**State and actions.** Each database table of the tracker is a variable; `cycle` and
`request` hold the local variables of the coroutine that owns `account_lock`. An action
is one transaction: the lock guarantees that nobody else writes between its read and its
commit, so it is one step, while an operation that uses several transactions takes
several steps. `CycleStart`, `DepositMonthlyTransfer`, `PayoutInterest`,
`AccrueInterest`, `RunSparplans`, `ExecSparplan`, `MirrorSparplan`, `FlushPending`,
`FlushRow`, `UnparkRow`, `FlushDone`, `TakeSnapshot` are the nightly pass in the code's
order; `Initialize` ... `RemovePosition` are the operator endpoints, of which five go on
into a mirror transaction (`MirrorRequest`, `UnwindRequest`). `Tick`, `RankingChanges`
and `PricesChange` are the environment and may happen between any two steps: this is how
a pass crosses midnight or loses its ranking. `Abort` is a crash or an exception: what
is committed stays, the coroutine's variables are gone and the lock is free.

**Abstractions.** Money counts half cents, so that the code's `0.005` tolerance is one
unit. Days index a calendar given by `MonthOf`, `DayOfMonth`, `MonthLength`. The ledger
is totalled by kind. A mirror entry is kept by source and by the set of picks it was
spread over, which is what its JSON breakdown records; shares and prices are replaced by
cost, since every property is about cost. `ShareAssumption` makes amounts split evenly
over the picks, so no rounding is modelled there. Interest per day is a natural number
(`cash * rate \div InterestScale`), which keeps the code's dependence on the current
cash and on the length of the gap.

**Left out.** WARN rows and `_warn_once` (a skipped plan changes nothing else), the
valuation and comparison curves (reads), the candle refresh at the start of a pass
(`PricesChange` covers its effect), the `active` flag, which nothing clears, and the
timezone conversion of `created_at`.

### `Monthly`

**Why reads and commits are separate.** `deposit_allowance` is called by the status
endpoint and by the daily mark loop without `_rebalance_lock`, so a commit of a deposit
may lie between the read and the commit of any other transaction, and the reverse.
SQLite lets it: a SELECT takes no write lock, the first write statement does. The mapper
then writes back only the columns the transaction changed, which `Column` expresses: a
column that was not changed keeps its present value, one that was gets the value computed
from the old read.

**Processes.** `engine` is the coroutine that holds the lock for a rebalance or a
backfill, with the local variables it carries across `await`s; `deposit[c]` is a deposit
under way by caller `c` (the rebalance itself is one of them, its first transaction);
`snap` is the daily mark. Their actions:

- `DepositRead`, `DepositCommit`: `deposit_allowance`. The commit fails if the month has
  its row (the UNIQUE constraint) or if somebody else inserted the singleton account; the
  exception leaves the endpoint, and ends a rebalance.
- `RebalanceStart`, `Decide`, `SellRead`, `SellCommit`, `Weigh`, `BuyRead`, `BuyCommit`,
  `Value`, `MarkRebalance`: `run_rebalance`. The audit row and the marker are committed
  by `Decide`, before the trades; each sell and buy is a transaction; the valuation reads
  the cash first and positions and allowances afterwards.
- `SnapshotRead`, `SnapshotCommit`: `take_snapshot`, skipped while the lock is held.
- `BackfillStart`, `WipeRead`, `WipeCommit`, `Replay`, `PersistRead`, `PersistCommit`:
  `backfill`, a wipe transaction and a persist transaction with the replay in between.
- `Reset`: one transaction that begins with a DELETE, hence takes the write lock first
  and is one step. `TickLocal`, `TickUtc`: deposits go by the operator's local month,
  rebalances by the UTC month; the two differ by at most one. `Crash` loses everything in
  memory, `Fail` is an exception in a rebalance or backfill.

**The exception in the money properties.** A deposit that was committed on top of another
writer's changes, or while another operation held the lock, sets `history.raced`
(`Overlaps`); from then until the next reset `MoneyConserved`, `SnapshotIsWhole` and
`BackfillReplaces` claim nothing, because the code does lose money there (see Findings).
All states before the overlap, and all runs without one, are covered. `DailyCore` and
`Sim` use the same device.

**Abstractions.** One unit of money buys one share of anything: price moves are out of
the model, so every change of equity is a booking. Which names are eligible and picked
is a choice from `PickSets`; which picks have a price, one from their subsets. A replay
invests the contributions of some of its window's months in some set of picks; what
matters is that its cash and shares add up to what it was funded with. The creation of
the account by a daily mark and its read are one step.

**Left out.** The trade log (a record nothing reads back), fees (there are
none, `monthly.py:1061`), status and history views.

### `DailyBook` and `DailyCore`

`DailyBook` is the abstract specification: a book of cash and holdings, changed by
`Deposit`, `Pass`, `Day` (a replayed day that begins a month), `Restart` and price moves.
`Passed` is the deployment of one day: everything is sold when protection is out; names
that left the ranking are sold; unless deployment is parked, targets are bought in rank
order, each from the cash left, up to the equal weight, and within the room of the
volatility scale.

`DailyCore` makes the same pass as the live engine does: `Rank`, then `SellRead` and
`SellCommit` per name, `Weigh`, `BuyRead` and `BuyCommit` per target, `Revalue` after each
buy, the daily mark, with `DepositRead`, `DepositOpen`, `DepositCommit` of status
requests between any two of them; `WipeCommit`, `ReplayDay`, `ReplayEnd`,
`PersistCommit` are the backfill. `ImplementsBook` says that it refines `DailyBook`
under the mapping `BookNow`: during a pass the abstract book is the one the pass began
with, and the whole pass happens in the step that ends it; during a replay it is the
replay's book in memory. That is the claim of `daily_core.py` that a backfill ends where
the live engine would be, for whatever rankings, missing prices, verdicts and scales.

`RerunTradesNothing`, `BestRankFirst` and `VolCapHeld` are statements about `Passed` for
every possible input of the day; `DailyCoreMC` evaluates them on every book that cycles,
backfills and resets leave behind.

Money is in whole units above the one-dollar minimum of a trade and a holding is its
value; volatility scales are quarters. Prices move between passes (`Move`), not inside
one. Replay windows are whole months, one replayed day each.

### `DailySignal`

`ComputeTargets` is `compute_targets` with its double-checked `_targets_lock`: `Read`,
`TargetsEnter`, `TargetsRank`, `TargetsStore` or `TargetsEmpty`, by the cycle and by
concurrent status requests. `Select` and `DropRanking` are a switch of universe or
variant, which changes the file first and deletes the row an `await` later; `ChangeMode`
sets gate or gradient, migrating a file that holds the legacy key. `Decision` is
`_protection_decision`: streaks, the flip at `Confirm`, and the chain of the basket,
which a switch drops. Prices are reduced to the sign of the slope and to the market being
above its average, chosen per day; a streak is cut off at `Confirm`.

`SignalMatchesReplay` compares the file's streaks and flag with a history variable that
evaluates `ReplayedClose`, the backfill's own loop over closes, once for every close that
was evaluated since the gradient was switched on. The live engine departs from it in two
ways, which the run and the theorem show to be the only ones: a second cycle on one day
evaluates its close again (`repeated`), and with both overlays off the decision is not
called, so that old streaks and an old flag are there when the gradient is switched on
(`frozen`). Both exemptions end when the streaks begin anew, with a switch, a reset, or a
decision while only the gate is on. The book can then be sold on fewer closes than
`_GRADIENT_CONFIRM`, and `daily_core.py:1271-1272` calls a re-run harmless (see Findings).

`ChainOfOneBasket` is about the chain the slope is read from: `file.chain` holds the
selections whose bands' returns were folded into it, `late` remembers that the last switch
fell into a running cycle, whose band is the old selection's.

### `Strategy`, `Replay` and `Sim`

`Strategy` has `Propose` (`propose_trades`: exits first, then candidates by strength
under cash floor, position ceiling and slots), `Approved` and `Vetoed`
(`reconcile_proposals`), `Plan` (`plan_llm_buys` with `llm_buy_budget`), `Buy` and `Sell`.
Percent limits are rounded so that they bind. Indicators are input: a market record says
each name's signal, which names are stopped out and which pass the entry guards.

`Replay` is one step per trading day of `_replay` and `_hybrid_replay`: contribution,
drawdown breaker, sells, proposals, review at its cadence (weekly marker, failure marker,
or every day for the pure LLM variant), the LLM's own buys under their caps. `Night`
moves prices.

`Sim` is the live `run_cycle`: deposit, benchmark, valuation, decision, the question to
the LLM and its reply as two steps, the trades one read and one commit each, the LLM's
additions planned from the valuation made before; `Backfill` with wipe, replay and
persist; the chat, whose orders are sized and executed without the lock; the status
deposit; `Reset` and, a step later, `ResetBench`. `raced` is set when a transaction
commits over what another changed since its read. `UntilRaced` is the state constraint
of the run: it explores every behaviour up to the first such commit and the state after.

The benchmark has its transactions too: `BenchMonth`, `BenchRead` and `BenchCommit` are
the month, the price and the row read in a cycle and the sums committed an `await` later;
`BenchBackfillStart`, `BenchBackfillRead` and `BenchReplace` are its backfill. The reset
(`ResetBench`) and the benchmark's endpoint (`BenchView`) take no lock and come between.
When a deposit is committed over the fresh row of a reset, `benchRaced` is set.

Two history variables carry what the properties compare with. `reviews` is the sequence
of the weeks in which the LLM was asked for a review, two of one week included; the last
one is taken back when its cycle fails before the mark, because the next cycle then asks
again (see Findings). `ceiling` is the cap, or what the number of positions came to by
buys that do not go by it: those of the chat and of a review's additions, and a buy of the
engine that was counted before somebody else opened a position. Sales bring it down
again, so `EngineKeepsCap` says at every moment what the engine may not have added.

Simplifications. Prices are constant within `Sim`. The wipe and the persist of a
backfill are a step each. The cap is looked at again at each execution in the step that
reads the account for the trade. The replay inside `Backfill` funds the months of its
window and ends in some book worth that; `Replay` says which. The last valuation of a
chat turn has no effect and is left out. Prompts, news, the trade log, snapshots and the
chat history are records that no decision reads, except the failure marker, which is a
nondeterministic choice. The sector cap and the sizing by risk are off in the live
engine and left out.

### `Service`

A task is the tick, the daily mark, the coordinator of backfill-all and reset-all, or a
single endpoint; its `todo` is the sequence of operations it has still to do. An
operation is opaque: it begins, and ends well or with an exception (what it does is the
other modules' subject). `lock` is an `asyncio.Lock` with its FIFO queue, including the
moment between a release and the run of the waiter that was woken, in which `locked()`
is false. `Skipped` is who looks and goes away; `Enter` is `async with`, in three ways:
an operation without a lock, a lock that is free, and a place in the queue of one that
is not. `Lockless` is `reset_sim`. A restart clears everything. `reached` remembers whom
the current tick has served, what the coordinator has attempted, and which of them a
restart has cut off.

A tick is over before the next day's, which its start five minutes after the mark and the
sleep until the next trading day give; the choice of a backfill's start date, outside any
lock, is left out.

### `Market`

Workers call `refresh` at once: `Acquire` is one turn of the limiter's loop (day change,
expiry of the window, budget, admission or sleep until the oldest call expires), then
the metered provider, then Yahoo if it fails or the budget is spent, then the store that
makes the ticker fresh. Sleepers wake when the clock lets them and may find their slot
gone. `granted` is the history of the provider's calls, all of them, which no action
reads; `QuotaKept` is about any stretch of it. Time is in ticks. Counters are the
process's; restarts, which the code does not survive either, are not modelled.

## Runs

| run | question | bounds |
|---|---|---|
| `savings_ledger` | Does the ledger explain the cash, and does everything dated happen once? | four days over two months, of two and four days, a plan day that is clamped in the first; three requests, one failure; no ranking is fresh, the mirror being the next run's subject |
| `savings_mirror` | Do mirror and positions stay in step, and are parked euros placed? | two days, rankings of one or two picks that come and go, three requests, fair passes |
| `monthly_engine` | Is money conserved, are marks whole, does a month trade once, does a backfill replace, does the allowance arrive? | two tickers, two months, three operations, one depositor, one failure |
| `daily_engine` | Do cycle and backfill implement `DailyBook`? Is a pass idempotent, rank first, within the cap? | three tickers, two rankings, two scales, two months, two operations, one price move |
| `daily_race` | Do money and marker survive status deposits and a failure? | two tickers, two months, two operations, one depositor, one failure |
| `signal_replay` | Does the live engine decide what the replay decides, on one basket's closes? | four closes, two to confirm, two cycles a day, one switch, two mode changes, one restart, any number of resets, files with and without the legacy key |
| `signal_live` | Is a selection ranked once, and does the ranking follow a switch? | two readers and the cycle's caller, two days, one switch |
| `replay` | Do limits, cap and vetoes hold through a replayed day? | three names, room for two, all strategies and cadences, prices, three drawdowns, answers of one decision, of one on each of two names, and one that orders a name twice |
| `sim_engine` | Do cycles, backfills, chat and resets keep money, cap, review interval and markers? | two names, room for one, hybrid and pure LLM (a hybrid cycle off its review is a deterministic one), two weeks over the end of a month (before it a month a backfill may start in), two events beside the cycles: backfills, chat turns, resets, restarts, failures |
| `service` | Does a tick reach every stage, does a backfill-all end? | three days, two of them trading, one rebalance day, three requests, one restart |
| `market` | Is the quota kept? | three workers, two calls a minute, three a day of two minutes, two days |
| `sim_review_floor` | violation: a review spends the cash buffer | two names, one market, one reply |

Why the bounds are enough. The code's decisions compare a marker with the current day,
week or month, so two months (marker equal, marker older) exercise every comparison; the
clamp of plan days needs a month shorter than the plan day, which `FourDMonthLength`
gives; with a review interval of two, the second of two weeks must not review. A lost update needs a reader, a
writer and an operation of two transactions: one depositor and two or three operations.
The mirror needs a ranking to vanish and reappear inside an operation, which two pick
sets and the empty one give. A ranking of three names against two targets has a name
that is bought, one that is reinforced and one that is released. Two closes to confirm
within four leave room for a cash-out and a re-entry, for a streak that breaks and starts
again, and for a close that is evaluated twice; two mode changes are a gradient that is
switched off and on again. The limiter needs more workers than slots and a budget that is
no multiple of a window and below what the minutes of a day admit, so that each of the two
quotas has to be kept by its own check. `MaxOps`, `MaxRuns`,
`MaxAborts`, `MaxCrashes`, `MaxMoves`, `MaxSwitches`, `MaxModes`, `MaxCycles`,
`MaxRestarts`, `MaxRequests`, `MaxEvents` bound requests, operations, failures and
changes; `LastDay`, `LastMonth`, `LastWeek`, `LastTick` bound the calendar, `MaxMoney`
the prices, `Since` the start months of a backfill.

Deadlock stays checked in every run; where a calendar ends, a `Done` step says that
nothing more is bound to happen.

The type invariant `TypeOK` of `Savings` is part of a run; those of `Monthly`, `DailyCore`,
`DailySignal`, `Sim`, `Replay`, `Market` and `Service` are proved, so no run spends time
on them.

**Fairness.** `Savings`: weak fairness of `CycleStart` (the loop of `main.py:173-212`
wakes up for ever, and the endpoint can start a pass as well), `CycleStep` and
`RequestStep` (the event loop resumes a coroutine that can go on); none for the operator,
the clock, the ranking or failures, so `ParkedGetsPlaced` assumes that rankings stay
fresh from some moment on. `Monthly` and `DailyCore`: weak fairness of deposits (status
requests and the daily loop keep coming) and of what holds the lock, none for starts and
clocks; `AllowanceArrives` excepts runs with a failure, after which a wiped month whose
marker was kept stays without its row. `DailySignal`: cycle, clock and switch go on, and
the computation of a caller is strongly fair, since its lock is handed out again and
again. `Service`: every operation ends and the lock goes to the waiter that was woken.

## Findings

With a run:

- `ReviewKeepsFloor` (`sim_review_floor`): the LLM's own buys are budgeted from the
  valuation made before the approved proposals are executed, so together they spend the
  cash floor. The replay plans from the cash that is left.

Met while modelling, each with its lines in `PROJECT.json`; the properties are stated so
that they hold beside them:

- savings: a failure between a buy and its mirror transaction loses the mirrored euros;
  a failure in a flush allocates a parked row twice.
- monthly, daily-core: an unlocked deposit that overlaps another writer overwrites its
  cash, or leaves an allowance row the backfill's marker does not cover; in the monthly
  portfolio it may also make the backfill's last commit fail on the UNIQUE month, which
  leaves the portfolio wiped.
- daily-core signal: a second cycle on one day counts one close twice, though the cycle's
  docstring calls a re-run harmless, so the book may be sold on fewer closes than it takes
  to confirm; with both overlays off the flag is frozen and acts when the gradient is
  switched on again; a switch inside
  a cycle splices the old band into the new chain; a computation that began before a
  switch stores the old selection's ranking after the deletion.
- simulation: neither chat buys nor additions of a live review look at the position cap;
  a flipped decision on a proposed name is a veto and nothing else; the live engine
  proposes buys before the sells are made; two decisions on one name are both executed
  with the second's budget; a cycle that fails after a review's trades and before the mark
  is followed by another review in the same week; the benchmark's deposit may write its
  old row over the one a reset has just made.
- service: a monthly rebalance that finds its lock taken on the last trading day is lost
  for that month; reset-all looks at the coordinator's lock only; a replay that returns
  `ok: False` counts as a success; a lock that was released for a waiter looks free.
- market: the minute window is emptied at midnight.

## Proofs

Every theorem holds for every value of the constants that satisfies the assumptions of
its module (of `Market` and `Service`, which `SharedProofs` takes as instances, they are the
hypotheses `Fetch!Settings` and `Loop!Calendar`); hypotheses beyond those are named below,
with their reason. The invariants a
proof rests on stand at the end of the module they are about (`Sim`'s and the refinement's
in the proof module), and were checked by TLC before they were proved.

| module | theorem | states |
|---|---|---|
| `SavingsProofs` | `TypeCorrect` | `TypeOK` |
| | `CashIsExplained`, `CashNeverOverdrawn` | `LedgerExplainsCash`, `CashFloor` |
| | `TransfersOncePerMonth`, `DaysAccruedOnce` | `MonthlyOnce`, `EachDayAccruedOnce` |
| | `PlansOncePerMonth`, `NeverRetroactive` | `PlanOncePerMonth`, `NoRetroactiveBuy` |
| | `EurosTracked`, `MirrorIsRebuilt` | `MirrorTracksPositions` (no failure so far), `MirrorAddsUp` |
| | `ResetLeavesNothing`, `TrueupsReconcile` | `ClosedTrackerIsEmpty`, `TrueupReconciles` |
| `MonthlyProofs` | `TypeCorrect` | `TypeOK` |
| | `MoneyIsConserved`, `SnapshotsAreWhole` | `MoneyConserved`, `SnapshotIsWhole` |
| | `OneDecisionPerMonth`, `RebalanceEndsSold` | `RebalanceOncePerMonth`, `DroppedNamesSold` |
| | `BackfillEndsReplaced` | `BackfillReplaces` |
| `DailyCoreProofs` | `TypeCorrect` | `TypeOK` |
| | `MoneyIsConserved`, `MarkerCovers`, `OneDepositPerMonth` | `MoneyConserved`, `MarkerCoversRows`, `DepositOncePerMonth` |
| | `RerunIsHarmless`, `TopFirst`, `CapIsHeld` | `RerunTradesNothing`, `BestRankFirst`, `VolCapHeld` |
| | `CoreImplementsBook` | `ImplementsBook` |
| | `StepsAreOfTheBook` | each step of a run with failures and races that is neither is one of the book |
| `SharedProofs` | `TypeCorrect` | `TypeOK` of `DailySignal` |
| | `OneRankingPerNeed` | `RankedOnce` |
| | `LiveSignalIsReplayed`, `ChainHasOneBasket` | `SignalMatchesReplay`, `ChainOfOneBasket` |
| | `CallsAreCounted`, `QuotaIsKept` | `WindowInv` with the types of `Market`, `QuotaKept` |
| | `EveryStageIsReached` | `EveryStageReached` |
| | `OneTaskPerLock`, `ReplaysAreComplete` | `LockInv` with `OneUnderEachLock`, `EndsComplete` of `Service` |
| `SimProofs` | `TypeCorrect` | `TypeOK`, `StageInv` |
| | `MoneyIsConserved`, `MarkersTell` | `MoneyConserved`, `MarkersTellPayments` |
| | `EngineCapHeld`, `ReviewsAreSpaced` | `EngineKeepsCap`, `ReviewsSpaced` |
| `ReplayProofs` | `TypeCorrect` | `TypeOK` |
| | `CapIsKept`, `VetoIsKept`, `LimitsAreKept` | `PositionsCapped`, `VetoHolds`, `BuysKeepLimits` |

### `FiniteLemmas`

Money is a sum over a finite set of names, and the community modules define that sum by a
recursive function under a CHOOSE. Nothing about such a function follows without
induction over the set, which needs an operator as a parameter. The way around it:
`Cells(f, S)` is the set of pairs of an element and a number up to its value, its
cardinality obeys the same recursion, and the library's theorems about finite
cardinalities give everything else: `TotalOfParts`, `TotalType`, the change of one value.
Folds over sequences are solved likewise: `FoldLeft` of a list is the last value of a run
of states, the run being a function from `0..Len`, and a property of a run follows by
`UpTo`, induction with a set of numbers in place of the predicate.

### Savings

Assumed: months follow one another and the days of a month are counted up without a gap
from no later than the first plan's day, inputs are natural numbers and picks finite
sets, amounts split evenly over the picks.

`TypeOK` and `LedgerExplainsCash` are inductive with the type. `CashFloor` needs only
that each debit is guarded in the step that makes it. `MonthlyOnce` and
`EachDayAccruedOnce` need `ClockInv`: markers never run ahead of the clock and nothing
is booked before the first accrual. `ClosedTrackerIsEmpty` needs `LockInv`: a coroutine
that still owes the mirror something holds the lock and belongs to an open tracker, so
that no late step fills a wiped table. `PlanOncePerMonth` needs `PlanInv`: every plan a
pass is still going to buy has an executed month before the pass's own month, which stays
true while midnight passes because `cycle.today` was fixed when the stage began;
`NoRetroactiveBuy` adds `DueInv`, that those plans stay due on that day.

The mirror needs three: `RowsInv` (parked rows have ids of their own, a flush works on
rows that are there), `SplitInv` (whatever is on its way can be split evenly) and
`EuroInv`, which says for each source what the mirror owes while an operation is between
two of its transactions: a buy owes its amount, a flush holds the row twice until it is
unparked, a removal has sold and not yet unwound. `EurosTracked` has `aborts = 0` as a
hypothesis of the invariant, since a failure between two of those transactions does
break the books (see Findings). `MirrorIsRebuilt` needs neither.

### Monthly

`RebalanceOncePerMonth` is not inductive alone. `DecisionInv` adds that a decided month
is not after the marker, that a rebalance between its guard and its decision is ahead of
the marker, and that a backfill carries the very marker it will restore: under the lock
no other writer of that column exists and deposits do not write it. `LockInv` and
`SnapInv` say who holds the lock. `Shape` carries the first argument with the few types it
reads; the others use `TypeOK`.

For the money, `ReadInv` says that what was read under the lock is still there unless a
deposit overlapped; `TradeInv` that what a rebalance still has to sell contains every
held name that is no pick, and what it buys is covered by what it read; `ReplayInv` that
a backfill works on empty tables with all the money of the months it funds.
`DroppedNamesSold` and `BackfillReplaces` are action properties read off those.

### Daily-core

The three statements about a day's pass are proved for every ranking, of any length:
`Runs` describes the states of the fold over the targets, `Deploys` the part of it that
trades, and by induction over its positions every target that is passed ends at its
weight, or the cash or the room is used up. From that follow rank order, the volatility
cap, and that the second run of a pass finds nothing to do. Rankings are assumed
injective: they are the rows of a frame made from a dict with a key per name
(`strategy.py:241-265`, `monthly.py:575-582`). A list that named a ticker twice would be a
counterexample.

`MoneyConserved`, `MarkerCoversRows` and `DepositOncePerMonth` rest on `LockInv`, on
`AccountInv` (no month lies in the future; what a deposit read is no later than its month),
`RowInv` (the row the engine read is still the account unless a deposit overlapped; a
purchase fits what it was decided on), `ReplayInv` (the replay's book holds the
contributions of the months it funded, and no row is there meanwhile) and `CreditInv` (a
month deposited since the last wipe has its row).

The refinement. Under `BookNow`, a pass must stutter until the step that ends it and then
be one whole `Pass` of the book it began with. `PassInv` carries the proof: while names
are sold, the tables are the beginning book with a set of names sold; while targets are
bought, there is an input of the day and a run of the fold such that the tables, the room
and the targets left are those of its `k`-th state. So the engine's transactions, one per
trade, with prices and the market missing for some names and the volatility room
recomputed after each buy, are the fold of the replay, and it is at its end when no target
is left (`PurchasesEnd`). `WipeInv` and `BoundInv` cover the backfill and the bounds.
`StepsAreOfTheBook` needs no restriction on who else is there: every step that is itself
neither a failure nor an overlapping deposit is a step of the book, whatever happened
before. (A failure in the middle of a pass leaves a half-sold book, which is no pass; an
overlapping deposit loses money.) `CoreImplementsBook` is the refinement as the run checks
it, without status deposits and failures; `AloneInv` shows that then nothing overlaps.
`Enough` says that `MaxMoney`, a bound of `DailyBook` only, is above all the money the
other bounds let in, so that it cuts off nothing.

### Daily-core signal

`RankedOnce` needs `QueueInv`: who computes holds the lock, and a request computes only
while none was stored since the last deletion or day. `SignalMatchesReplay` is inductive
with the type: `ReplayedCloseIsEvaluated` shows that one live evaluation is one step of the
backfill's loop, and the two exemptions are set in the very steps after which that is not
enough. `ChainOfOneBasket` needs `BandInv`: where no switch came since, what a cycle has
read of the selection, by the universe first and the variant later, is the running one, up
to the band it decides with. Number of readers, days, cycles, switches, changes of the
modes, restarts, closes to confirm and the modes tried are arbitrary. The assumption on
`Legacy` says which values a file of an older version may hold.

### Strategy, replay and simulation

`StrategyProofs` has the lemmas both engines share: sales keep the money and open nothing;
proposals keep floor, ceiling and slots when they are executed in order, also when prices
are missing and only a part is approved; the plan of the LLM's buys stays in its budget.
`Strategy` filters with `Kept`, a fold of its own, since the prover can say nothing
of `SelectSeq`.

`Replay`. A day is a composition of parts, each of which is `Sound` (conserves equity,
keeps the cap) and `Limited` (what it bought leaves the floor and stays below the
ceiling). Limits do not compose by themselves: the purchases of the engine and the LLM's
are brought into one account of what the day `Offered`. No theorem of this module has a
hypothesis. The budget is kept per name but applied per order (`strategy.py:431-457`), so
two orders on one name can go beyond the ceiling and into the buffer (see Findings);
`day.repeated` names them, and `LimitsAreKept` speaks of all other names, and of the buffer
on all other days.

`Sim`. The inductive invariant is `Inductive`: `StageInv` (who may be in which
transaction, and that a buy is covered by the row it read), `AccountInv`, `BackfillInv` (an
unraced backfill persists into empty tables a book worth its window),
`BenchInv` (marker, window and money of the benchmark, whose deposit goes by a row read
an `await` before), `AccountMarked`, `AccountMoney`, `ReviewInv` (a review under way comes
last, and its cycle looked at the marker that is still there) and `CapInv` (neither the
open positions nor the names the engine has counted exceed the ceiling). The exemptions in
the properties are what the code needs: `raced`, as in the other portfolios, which here
also covers a chat or status commit into the wiped tables (`Displaced`); `benchRaced`, the
benchmark's deposit over a reset; `late` and `benchLate`, a backfill during which the month
ended: its window and the live marker are then of the month before; the uncounted buys in
`ceiling`; and the reviews of cycles that failed. Replies are assumed to be sequences of typed
decisions, chat replies non-empty ones, which is what the parsers return
(`sim.py:1178-1232`, `sim.py:2958`).

### Market

Assumed (`Settings`): at least one call a minute and one a day, as `acquire` itself makes
sure with `max(1, ...)`; a minute, a day and the freshness age are any numbers of ticks.

`QuotaKept` compares calls far apart in the history, of which the limiter knows only what
it has kept. `WindowInv` says what it has: `Counts`, that the last `used` calls of the
history are those of its day, that its window is the end of the history, and that the
calls of the day that are no longer in the window are a minute old, which stays true as
time goes on; and that the history is in order. `Tally` is `Counts` of any sequences and
numbers, so that what expires (`TallyCut`), what is granted (`TallyOneMore`) and what that
means for the quota (`TallyKeeps`) are lemmas about numbers. A call that is granted has
fewer than `MaxPerMin` calls in the window before it and fewer than `Budget` of its day:
the call `MaxPerMin` places before it, if it is of the same day, has left the window, and
the call `Budget` places before it is of another day. Who slept for a slot and was woken
when does not occur in the argument.

### Service

Assumed (`Calendar`): months end on trading days, endpoints are not named like loops.

`LockInv` says that a lock is owned by exactly the task that runs under it and queues, once
each, exactly the tasks that wait for it. It has to exclude the task a released lock is
about to be handed to from everything else, and it carries `OneTaskPerLock`: tasks that
look at a lock, tasks that queue and a restart between any two steps never leave a lock to
nobody or to two. `TickInv` says that the tick's `todo` is an end of the day's list and that
every due portfolio which is no longer in it was served; `BulkInv` the same of the four
replays. The proofs need each list taken apart (`TickStages`, `BulkStages`), that only the
task itself changes its `todo` (`TickAside`, `BulkAside`), and that a stage goes on to the
rest whether it raises or not, except in a reset, which `BulkInv` therefore does not speak
of. `ReplaysAreComplete` is the safety half of `BackfillAllEnds`: when a backfill-all ends,
it has attempted everything. That it ends is left to TLC.

### Only model-checked

- Liveness: `ParkedGetsPlaced`, `AllowanceArrives`, `RankingCatchesUp`, `BackfillAllEnds`.
  Temporal reasoning with fairness needs ENABLED, which the prover does not have.

Every other property of a passing run is a theorem.

## Not modelled

- Universe sync: one locked function that checks the number of rows and replaces the
  file atomically; sequential.
- Screener: one locked pass with a progress record for the page.
- Technical analysis, fundamentals, EDGAR, news, LLM client, configuration: numeric data,
  downloads, parsing and settings without control state.
- The optimiser's parameter sweeps, walk-forward and reports (`optimize.py:1273-4314`):
  loops over replays.
- Migrations at start-up (`db.py:600-821`) and the read-only endpoints.

## Plan

1. `Savings` and `Monthly` with proofs (done).
2. `DailyBook`, `DailyCore`, `DailySignal`, `Strategy`, `Replay`, `Sim`, `Service`,
   `Market` (done).
3. Proofs of the safety properties of every module that has a run, and of the refinement
   of `DailyBook` (done).
4. What could follow: a model of a start-up that migrates a database of an older version,
   and of the optimiser's walk-forward over the replay engines.
