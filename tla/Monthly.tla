------------------------------- MODULE Monthly -------------------------------
(***************************************************************************)
(* The monthly paper portfolio of app/monthly.py: the rebalance, the daily *)
(* mark, the backfill and the reset, which _rebalance_lock serialises, and *)
(* the allowance deposit, which the status endpoint (main.py:733-750) and  *)
(* the daily loop (sim.py:2814-2872) make without the lock.                *)
(*                                                                         *)
(* Because of those deposits a transaction is not one step here.  It reads *)
(* the account row and later commits what it computed from it; SQLite      *)
(* takes its write lock only at the first write, so a commit of somebody   *)
(* else may lie in between.  The mapper writes back only the columns the   *)
(* transaction changed.                                                    *)
(*                                                                         *)
(* One unit of money buys one share of anything: the prices that move the  *)
(* portfolio's value are not modelled.  A month is a number, 0 is None.    *)
(* An operator introduced by "Mutant:" is a plausible bug in the one that  *)
(* follows it; no action uses it.                                          *)
(***************************************************************************)
EXTENDS Integers, FiniteSets, FiniteSetsExt

CONSTANTS
  Tickers,       \* what the portfolio may hold
  PickSets,      \* the sets of tickers a ranking may pick
  Depositors,    \* concurrent callers of deposit_allowance
  StartCash,     \* sim_monthly_start_cash
  Contribution,  \* sim_monthly_contribution
  LastMonth,     \* bound: months are 1..LastMonth
  MaxRuns,       \* bound: operations under the lock in a behaviour
  MaxCrashes     \* bound: restarts and failed operations

Engine == "engine"   \* the rebalance, as a caller of deposit_allowance
Months == 1..LastMonth
Callers == Depositors \cup {Engine}

ASSUME ConstantAssumption ==
  /\ Engine \notin Depositors
  /\ IsFiniteSet(Tickers)
  /\ PickSets \subseteq (SUBSET Tickers) \ {{}}
  /\ StartCash \in Nat
  /\ Contribution \in Nat \ {0}
  /\ LastMonth \in Nat \ {0}
  /\ MaxRuns \in Nat
  /\ MaxCrashes \in Nat

VARIABLES
  local,      \* the operator-local month (deposits go by it)
  utc,        \* the UTC month (rebalances go by it)
  account,    \* the singleton MonthlyAccount row
  positions,  \* MonthlyPosition: shares by ticker
  allowances, \* MonthlyAllowance: the months that have a row (UNIQUE)
  decided,    \* MonthlyRebalance: the months that have a row
  mark,       \* the newest MonthlySnapshot
  lock,       \* holder of _rebalance_lock
  engine,     \* the rebalance or backfill under way, and its local variables
  deposit,    \* the deposits under way, by caller
  snap,       \* the daily mark under way: the cash it has read
  history,    \* what the properties remember; no action reads it
  runs,       \* operations under the lock so far
  crashes     \* restarts and failures so far

calendar == <<local, utc>>
holdings == <<positions, decided, mark>>
db == <<account, allowances, holdings>>
bounds == <<runs, crashes>>
vars == <<calendar, db, lock, engine, deposit, snap, history, bounds>>

-----------------------------------------------------------------------------
(* The shape of the state.                                                 *)

Account == [exists: BOOLEAN, cash: Nat, allowanceMonth: Nat, rebalanceMonth: Nat]

\* The row a transaction inserts when it finds none.
FreshAccount == [exists |-> TRUE, cash |-> StartCash, allowanceMonth |-> 0,
                 rebalanceMonth |-> 0]
NoAccount == [FreshAccount EXCEPT !.exists = FALSE]

Nothing == [t \in Tickers |-> 0]
Worth(shares) == MapThenSumSet(LAMBDA t : shares[t], Tickers)
Invested == Worth(positions)
Held == {t \in Tickers : positions[t] > 0}

Mark == [equity: Nat, funded: Nat]
NoMark == [equity |-> 0, funded |-> -1]

\* A deposit that has read the account row.
Deposit == [month: Nat, row: Account]
NoDeposit == [month |-> 0, row |-> NoAccount]

NotReading == -1

\* month: of the rebalance; todo: tickers still to sell or to buy, ticker:
\* the one being traded; row, live: the account row as it was read; window,
\* cash, shares: what a backfill replays.
Stages == {"idle", "deposit", "decide", "sell", "selling", "buy", "buying", "mark",
           "wipe", "wiping", "replay", "persist", "persisting"}
EngineState ==
  [stage: Stages, month: Nat, picks: SUBSET Tickers, todo: SUBSET Tickers,
   ticker: SUBSET Tickers, weight: Nat, row: Account, live: Account,
   window: SUBSET Months, funded: SUBSET Months, cash: Nat, shares: [Tickers -> Nat]]
Idle ==
  [stage |-> "idle", month |-> 0, picks |-> {}, todo |-> {}, ticker |-> {}, weight |-> 0,
   row |-> NoAccount, live |-> NoAccount, window |-> {}, funded |-> {}, cash |-> 0,
   shares |-> Nothing]

\* base: what the portfolio held before its first allowance; decisions:
\* rebalances decided in each month since the last reset; raced: a deposit was
\* committed since then on top of another operation.
History == [base: Nat, decisions: [Months -> Nat], raced: BOOLEAN]
NoHistory ==
  [base |-> StartCash, decisions |-> [m \in Months |-> 0], raced |-> FALSE]

TypeOK ==
  /\ local \in Months /\ utc \in Months
  /\ account \in Account
  /\ positions \in [Tickers -> Nat]
  /\ allowances \in SUBSET Months
  /\ decided \in SUBSET Months
  /\ mark \in Mark \cup {NoMark}
  /\ lock \in {"free", "engine", "snap"}
  /\ engine \in EngineState
  /\ deposit \in [Callers -> Deposit]
  /\ snap \in Nat \cup {NotReading}
  /\ history \in History
  /\ runs \in 0..MaxRuns
  /\ crashes \in 0..MaxCrashes

Init ==
  /\ local = 1 /\ utc = 1
  /\ account = NoAccount
  /\ positions = Nothing
  /\ allowances = {} /\ decided = {}
  /\ mark = NoMark
  /\ lock = "free"
  /\ engine = Idle
  /\ deposit = [c \in Callers |-> NoDeposit]
  /\ snap = NotReading
  /\ history = NoHistory
  /\ runs = 0 /\ crashes = 0

-----------------------------------------------------------------------------
(* A transaction that read `old` and computed `new` leaves a column it did *)
(* not change at its present value.                                        *)

Column(old, new, present) == IF new = old THEN present ELSE new

SetCash(row, cash) == [account EXCEPT !.cash = Column(row.cash, cash, @)]

Admitted == lock = "free" /\ runs < MaxRuns /\ runs' = runs + 1

Acquire(stage) ==
  /\ Admitted
  /\ lock' = "engine"
  /\ engine' = [Idle EXCEPT !.stage = stage, !.month = utc]

Release == lock' = "free" /\ engine' = Idle

-----------------------------------------------------------------------------
(* deposit_allowance: by a status request or the daily loop at any time,   *)
(* by the rebalance as its first transaction.                              *)

DepositRead(c) ==
  /\ deposit[c] = NoDeposit
  /\ c = Engine => engine.stage = "deposit"
  /\ IF account.exists /\ account.allowanceMonth = local
     THEN /\ c = Engine
          /\ engine' = [engine EXCEPT !.stage = "decide"]
          /\ UNCHANGED deposit
     ELSE /\ deposit' = [deposit EXCEPT ![c] = [month |-> local, row |-> account]]
          /\ UNCHANGED engine
  /\ UNCHANGED <<calendar, db, lock, snap, history, bounds>>

\* The month has its row, or somebody else inserted the account.
Conflict(d) == d.month \in allowances \/ (~d.row.exists /\ account.exists)

\* Mutant: the whole row is written back as it was read.
CreditRow(d) ==
  [d.row EXCEPT !.exists = TRUE, !.cash = @ + Contribution, !.allowanceMonth = d.month]

Credited(d) ==
  [account EXCEPT !.exists = TRUE, !.cash = d.row.cash + Contribution,
                  !.allowanceMonth = d.month]

\* A deposit that does not run alone: what it read is no longer there, or an
\* operation that holds the lock is under way.
Overlaps(c) == deposit[c].row # account \/ (c # Engine /\ lock # "free")

\* A commit that fails leaves deposit_allowance, and a rebalance with it.
DepositCommit(c) ==
  /\ deposit[c] # NoDeposit
  /\ deposit' = [deposit EXCEPT ![c] = NoDeposit]
  /\ IF Conflict(deposit[c])
     THEN /\ IF c = Engine THEN Release ELSE UNCHANGED <<lock, engine>>
          /\ UNCHANGED <<account, allowances, history>>
     ELSE /\ history' = [history EXCEPT !.raced = @ \/ Overlaps(c)]
          /\ account' = Credited(deposit[c])
          /\ allowances' = allowances \cup {deposit[c].month}
          /\ engine' = IF c = Engine THEN [engine EXCEPT !.stage = "decide"] ELSE engine
          /\ UNCHANGED lock
  /\ UNCHANGED <<calendar, holdings, snap, bounds>>

-----------------------------------------------------------------------------
(* run_rebalance                                                           *)

Elsewhere == <<calendar, deposit, snap, bounds>>

RebalanceDue == ~account.exists \/ account.rebalanceMonth # utc

RebalanceStart ==
  /\ RebalanceDue
  /\ Acquire("deposit")
  /\ UNCHANGED <<calendar, db, deposit, snap, history, crashes>>

\* No eligible frame, or the decision with its audit row and the marker,
\* which are committed before the trades.
Decide ==
  /\ engine.stage = "decide"
  /\ \/ /\ Release
        /\ UNCHANGED <<account, decided, history>>
     \/ \E picks \in PickSets :
          /\ engine' = [engine EXCEPT !.stage = "sell", !.picks = picks,
                                       !.todo = Held \ picks]
          /\ account' = [account EXCEPT !.rebalanceMonth = engine.month]
          /\ decided' = decided \cup {engine.month}
          /\ history' = [history EXCEPT !.decisions[engine.month] = @ + 1]
          /\ UNCHANGED lock
  /\ UNCHANGED <<allowances, positions, mark, Elsewhere>>

SellRead(t) ==
  /\ engine.stage = "sell"
  /\ t \in engine.todo
  /\ engine' = [engine EXCEPT !.stage = "selling", !.ticker = {t}, !.row = account]
  /\ UNCHANGED <<db, lock, history, Elsewhere>>

SellCommit(t) ==
  /\ engine.stage = "selling"
  /\ t \in engine.ticker
  /\ account' = SetCash(engine.row, engine.row.cash + positions[t])
  /\ positions' = [positions EXCEPT ![t] = 0]
  /\ engine' = [engine EXCEPT !.stage = "sell", !.ticker = {}, !.todo = @ \ {t}]
  /\ UNCHANGED <<allowances, decided, mark, lock, history, Elsewhere>>

\* Mutant: the buys do not wait for the sells.
BuysFirst == TRUE

AllSold == engine.todo = {}

\* Equal weights of the equity; a pick without a price is passed over.
Weigh ==
  /\ engine.stage = "sell"
  /\ AllSold
  /\ LET weight == (account.cash + Invested) \div Cardinality(engine.picks)
     IN  \E priced \in SUBSET engine.picks :
           engine' = [engine EXCEPT !.stage = "buy", !.weight = weight,
                                    !.todo = {t \in priced : positions[t] < weight}]
  /\ UNCHANGED <<db, lock, history, Elsewhere>>

Cost(t) == engine.weight - positions[t]

Covered(t) == account.cash >= Cost(t)

\* A buy the cash does not cover is not made at all.
BuyRead(t) ==
  /\ engine.stage = "buy"
  /\ t \in engine.todo
  /\ engine' = IF Covered(t)
               THEN [engine EXCEPT !.stage = "buying", !.ticker = {t}, !.row = account]
               ELSE [engine EXCEPT !.todo = @ \ {t}]
  /\ UNCHANGED <<db, lock, history, Elsewhere>>

BuyCommit(t) ==
  /\ engine.stage = "buying"
  /\ t \in engine.ticker
  /\ account' = SetCash(engine.row, engine.row.cash - Cost(t))
  /\ positions' = [positions EXCEPT ![t] = engine.weight]
  /\ engine' = [engine EXCEPT !.stage = "buy", !.ticker = {}, !.todo = @ \ {t}]
  /\ UNCHANGED <<allowances, decided, mark, lock, history, Elsewhere>>

Value ==
  /\ engine.stage = "buy"
  /\ engine.todo = {}
  /\ engine' = [engine EXCEPT !.stage = "mark", !.cash = account.cash]
  /\ UNCHANGED <<db, lock, history, Elsewhere>>

\* monthly_valuate reads the cash, then the positions and the allowances.
MarkOf(cash) == [equity |-> cash + Invested, funded |-> Cardinality(allowances)]

MarkRebalance ==
  /\ engine.stage = "mark"
  /\ mark' = MarkOf(engine.cash)
  /\ Release
  /\ UNCHANGED <<account, allowances, positions, decided, history, Elsewhere>>

Rebalance ==
  \/ RebalanceStart \/ Decide
  \/ \E t \in Tickers : SellRead(t) \/ SellCommit(t) \/ BuyRead(t) \/ BuyCommit(t)
  \/ Weigh \/ Value \/ MarkRebalance

-----------------------------------------------------------------------------
(* take_snapshot                                                           *)

\* Mutant: the daily mark does not care about the lock.
MarkAnytime == TRUE

MarkAdmitted == lock = "free"

SnapshotRead ==
  /\ snap = NotReading
  /\ MarkAdmitted
  /\ lock' = "snap"
  /\ account' = [account EXCEPT !.exists = TRUE]
  /\ snap' = account.cash
  /\ UNCHANGED <<calendar, allowances, holdings, engine, deposit, history, bounds>>

SnapshotCommit ==
  /\ snap # NotReading
  /\ mark' = MarkOf(snap)
  /\ snap' = NotReading
  /\ lock' = "free"
  /\ UNCHANGED <<calendar, account, allowances, positions, decided, engine, deposit,
                 history, bounds>>

-----------------------------------------------------------------------------
(* backfill                                                                *)

\* The window is fixed by the candles: it starts with the first month that
\* has eligible names and ends this month, or last month when this one has
\* no candle yet.
BackfillStart ==
  \E first \in Months, last \in {local - 1, local} :
    /\ first <= last
    /\ Admitted
    /\ lock' = "engine"
    /\ engine' = [Idle EXCEPT !.stage = "wipe", !.window = first..last]
    /\ UNCHANGED <<calendar, db, deposit, snap, history, crashes>>

WipeRead ==
  /\ engine.stage = "wipe"
  /\ engine' = [engine EXCEPT !.stage = "wiping", !.row = account]
  /\ UNCHANGED <<db, lock, history, Elsewhere>>

\* Mutant: the allowance rows stay.
NoTradeRows == positions' = Nothing /\ decided' = {} /\ mark' = NoMark /\ UNCHANGED allowances

NoRows == positions' = Nothing /\ decided' = {} /\ mark' = NoMark /\ allowances' = {}

\* Mutant: the cash stays until the replay replaces it.
ClearedMarker(row) ==
  [account EXCEPT !.exists = TRUE, !.allowanceMonth = Column(row.allowanceMonth, 0, @)]

Cleared(row) ==
  [account EXCEPT !.exists = TRUE, !.cash = Column(row.cash, 0, @),
                  !.allowanceMonth = Column(row.allowanceMonth, 0, @)]

\* An account that was not there when the markers were read is looked up
\* again behind the deletions, when nobody else can write any more.
WipeCommit ==
  /\ engine.stage = "wiping"
  /\ NoRows
  /\ account' = Cleared(IF engine.row.exists THEN engine.row ELSE account)
  /\ history' = [history EXCEPT !.base = 0]
  /\ engine' = [engine EXCEPT !.stage = "replay", !.live = engine.row]
  /\ UNCHANGED <<lock, Elsewhere>>

\* The window is funded from nothing and invested up to some month; the
\* running month is added when its live allowance was wiped.
Replay ==
  /\ engine.stage = "replay"
  /\ \E picks \in PickSets, invested \in 1..Cardinality(engine.window) :
       LET again == {local} \cap {engine.live.allowanceMonth}
           funded == engine.window \cup again
           each == (invested * Contribution) \div Cardinality(picks)
       IN  engine' = [engine EXCEPT
             !.stage = "persist",
             !.funded = funded,
             !.cash = Cardinality(funded) * Contribution - each * Cardinality(picks),
             !.shares = [t \in Tickers |-> IF t \in picks THEN each ELSE 0]]
  /\ UNCHANGED <<db, lock, history, Elsewhere>>

PersistRead ==
  /\ engine.stage = "persist"
  /\ engine' = [engine EXCEPT !.stage = "persisting", !.row = account]
  /\ UNCHANGED <<db, lock, history, Elsewhere>>

\* Never behind the newest row, or the next deposit would repeat its month.
MarkerAfter(funded, live) == Max(funded \cup {live})

\* A month that meanwhile got its row makes the commit fail.
PersistCommit ==
  /\ engine.stage = "persisting"
  /\ Release
  /\ IF engine.funded \cap allowances # {}
     THEN UNCHANGED db
     ELSE /\ account' = [account EXCEPT
               !.cash = Column(engine.row.cash, engine.cash, @),
               !.allowanceMonth =
                 Column(engine.row.allowanceMonth,
                        MarkerAfter(engine.funded, engine.live.allowanceMonth), @),
               !.rebalanceMonth =
                 Column(engine.row.rebalanceMonth, engine.live.rebalanceMonth, @)]
          /\ positions' = engine.shares
          /\ allowances' = allowances \cup engine.funded
          /\ \E framed \in SUBSET engine.window :
               Min(engine.window) \in framed /\ decided' = framed
          /\ mark' = [equity |-> Cardinality(engine.window) * Contribution,
                      funded |-> Cardinality(engine.window)]
  /\ UNCHANGED <<history, Elsewhere>>

Backfill == BackfillStart \/ WipeRead \/ WipeCommit \/ Replay \/ PersistRead \/ PersistCommit

-----------------------------------------------------------------------------
(* reset_monthly: one transaction whose first statement takes the write    *)
(* lock of the database.                                                   *)

\* Mutant: the allowance marker is forgotten.
KeepAllowanceMarker == [FreshAccount EXCEPT !.allowanceMonth = account.allowanceMonth]

ResetAccount == FreshAccount

Reset ==
  /\ Admitted
  /\ NoRows
  /\ account' = ResetAccount
  /\ history' = NoHistory
  /\ UNCHANGED <<calendar, lock, engine, deposit, snap, crashes>>

-----------------------------------------------------------------------------
(* The two calendars, and a restart.                                       *)

TickLocal ==
  /\ local < LastMonth /\ local <= utc
  /\ local' = local + 1
  /\ UNCHANGED <<utc, db, lock, engine, deposit, snap, history, bounds>>

TickUtc ==
  /\ utc < LastMonth /\ utc <= local
  /\ utc' = utc + 1
  /\ UNCHANGED <<local, db, lock, engine, deposit, snap, history, bounds>>

\* Everything in memory is gone, the lock included.
Crash ==
  /\ crashes < MaxCrashes
  /\ lock # "free" \/ \E c \in Callers : deposit[c] # NoDeposit
  /\ crashes' = crashes + 1
  /\ Release
  /\ deposit' = [c \in Callers |-> NoDeposit]
  /\ snap' = NotReading
  /\ UNCHANGED <<calendar, db, history, runs>>

\* An exception ends a rebalance or a backfill between two of its steps.
Fail ==
  /\ crashes < MaxCrashes
  /\ lock = "engine"
  /\ crashes' = crashes + 1
  /\ Release
  /\ deposit' = [deposit EXCEPT ![Engine] = NoDeposit]
  /\ UNCHANGED <<calendar, db, snap, history, runs>>

Next ==
  \/ \E c \in Callers : DepositRead(c) \/ DepositCommit(c)
  \/ Rebalance \/ SnapshotRead \/ SnapshotCommit \/ Backfill \/ Reset
  \/ TickLocal \/ TickUtc \/ Crash \/ Fail

Spec == Init /\ [][Next]_vars

\* Status requests and the daily loop keep coming, and what runs goes on.
FairSpec ==
  /\ Spec
  /\ \A c \in Callers : WF_vars(DepositRead(c)) /\ WF_vars(DepositCommit(c))
  /\ WF_vars(Backfill /\ lock = "engine") /\ WF_vars(Rebalance /\ lock = "engine")

-----------------------------------------------------------------------------
(* Properties.                                                             *)

Equity == account.cash + Invested

\* Cash and positions are what the portfolio started with and one
\* contribution per recorded month: no trade, backfill, reset or crash at
\* any point creates money or loses it, unless a deposit overlapped with it.
MoneyConserved == history.raced \/ Equity = history.base + Contribution * Cardinality(allowances)

\* A point on the equity curve shows no half-executed state: its equity is
\* what its own "contributed" figure says, whatever crashed before.
SnapshotIsWhole ==
  mark # NoMark /\ ~history.raced => mark.equity = history.base + Contribution * mark.funded

\* A month is rebalanced once, whatever deposits, backfills and crashes fall
\* between its transactions.
RebalanceOncePerMonth == \A m \in Months : history.decisions[m] <= 1

\* A rebalance that ends has sold every name that is not a pick, and its
\* month has the audit row.
DroppedNamesSold ==
  [][engine.stage = "mark" /\ engine'.stage = "idle" /\ crashes' = crashes =>
       Held' \subseteq engine.picks /\ engine.month \in decided']_vars

\* A backfill ends in the replayed state, unless it is interrupted or a deposit
\* overlapped with it.
BackfillReplaces ==
  [][engine.stage = "persisting" /\ engine'.stage = "idle" /\ crashes' = crashes
       /\ ~history.raced =>
       /\ positions' = engine.shares
       /\ account'.cash = engine.cash
       /\ allowances' = engine.funded]_vars

\* The last month gets its allowance, whatever wiped it before. A crash between
\* the wipe and the end of a backfill loses it for good: its marker is kept.
AllowanceArrives ==
  (local = LastMonth) ~> (LastMonth \in allowances \/ crashes > 0)

-----------------------------------------------------------------------------
(* Inductive invariants: what makes RebalanceOncePerMonth hold.            *)

EngineFields ==
  {"stage", "month", "picks", "todo", "ticker", "weight", "row", "live", "window",
   "funded", "cash", "shares"}

\* The fields of the records, and the types of the few the proofs look at.
Shape ==
  /\ utc \in Months
  /\ DOMAIN account = {"exists", "cash", "allowanceMonth", "rebalanceMonth"}
  /\ account.rebalanceMonth \in Nat
  /\ DOMAIN engine = EngineFields
  /\ engine.stage \in Stages
  /\ DOMAIN deposit = Callers
  /\ DOMAIN history = {"base", "decisions", "raced"}
  /\ history.decisions \in [Months -> Nat]

\* The lock is held exactly while a rebalance or a backfill is under way, and
\* only a rebalance at its deposit has one.
LockInv ==
  /\ lock = "engine" <=> engine.stage # "idle"
  /\ deposit[Engine] # NoDeposit => engine.stage = "deposit"

\* The daily mark holds the lock from its read to its commit.
SnapInv == snap # NotReading => lock = "snap"

\* A decided month is covered by the marker, a rebalance that has not decided
\* yet is ahead of it, and a backfill carries the marker it will restore.
DecisionInv ==
  /\ account.rebalanceMonth <= utc
  /\ ~account.exists => account.rebalanceMonth = 0
  /\ engine.stage = "decide" => account.exists
  /\ \A m \in Months :
       history.decisions[m] <= IF m <= account.rebalanceMonth THEN 1 ELSE 0
  /\ engine.stage \in {"deposit", "decide"} =>
       engine.month \in (account.rebalanceMonth + 1)..utc
  /\ engine.stage \in {"wiping", "persisting"} =>
       engine.row.rebalanceMonth = account.rebalanceMonth
  /\ engine.stage \in {"replay", "persist", "persisting"} =>
       engine.live.rebalanceMonth = account.rebalanceMonth

\* What was read under the lock is still there, unless a deposit overlapped.
ReadInv ==
  /\ \A c \in Callers : deposit[c] # NoDeposit => deposit[c].month \in Months
  /\ ~history.raced =>
       /\ engine.stage \in {"selling", "buying", "wiping", "persisting"} => engine.row = account
       /\ engine.stage = "mark" => engine.cash = account.cash
       /\ snap # NotReading => snap = account.cash

\* A decided rebalance has its audit row; what it still has to sell is every
\* name that is held and not picked, and what it buys is covered.
TradeInv ==
  /\ engine.stage \in {"sell", "selling", "buy", "buying", "mark"} =>
       engine.picks # {} /\ engine.month \in decided
  /\ engine.stage \in {"sell", "selling"} => Held \ engine.picks \subseteq engine.todo
  /\ engine.stage \in {"buy", "buying", "mark"} => Held \subseteq engine.picks
  /\ engine.stage \in {"buy", "buying"} =>
       /\ engine.todo \subseteq engine.picks
       /\ \A t \in engine.todo : positions[t] < engine.weight
  /\ engine.stage = "buying" =>
       \A t \in engine.ticker : t \in engine.todo /\ engine.row.cash >= Cost(t)

\* A backfill replays on an empty portfolio, with all the money that the
\* months it funds stand for.
ReplayInv ==
  /\ engine.stage \in {"replay", "persist", "persisting"} =>
       /\ positions = Nothing /\ mark = NoMark
       /\ ~history.raced => account.cash = 0 /\ allowances = {} /\ history.base = 0
  /\ engine.stage \in {"persist", "persisting"} =>
       engine.cash + Worth(engine.shares) = Contribution * Cardinality(engine.funded)

=============================================================================
