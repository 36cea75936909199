------------------------------ MODULE DailyCore ------------------------------
(***************************************************************************)
(* The daily-core paper portfolio of app/daily_core.py in the transactions *)
(* it makes: the daily cycle (deposit, deployment pass, snapshot), the     *)
(* backfill and the reset, which _cycle_lock serialises, and the deposit   *)
(* of the status endpoint (main.py:810-844), which is made without it.     *)
(*                                                                         *)
(* A transaction reads the account row and later commits what it computed  *)
(* from it, and another commit may lie in between; the mapper writes the   *)
(* columns that were changed.  What protection decides is an input here    *)
(* (DailySignal models it), and a pass made at once is DailyBook's.        *)
(***************************************************************************)
EXTENDS Integers, Sequences, FiniteSets, FiniteSetsExt, SequencesExt

CONSTANTS
  Tickers, Rankings, TargetN, Scales, StartCash, Contribution, MaxMoney, \* as in DailyBook
  Depositors,  \* concurrent status requests
  LastMonth,   \* bound: months are 1..LastMonth
  MaxRuns,     \* bound: cycles and backfills
  MaxMoves,    \* bound: price moves
  MaxCrashes   \* bound: restarts and failed operations

Engine == "engine"   \* the cycle, as a caller of deposit_allowance
Callers == Depositors \cup {Engine}
Months == 1..LastMonth

\* What the constants of DailyBook are; a ranking's frame has one row per name.
ASSUME BookAssumption ==
  /\ IsFiniteSet(Tickers)
  /\ Rankings \subseteq Seq(Tickers) /\ \A ranking \in Rankings : IsInjective(ranking)
  /\ TargetN \in Nat \ {0}
  /\ Scales \subseteq 0..4
  /\ StartCash \in Nat /\ Contribution \in Nat \ {0} /\ MaxMoney \in Nat

ASSUME ConstantAssumption ==
  /\ Engine \notin Depositors
  /\ LastMonth \in Nat \ {0}
  /\ MaxRuns \in Nat /\ MaxMoves \in Nat /\ MaxCrashes \in Nat

VARIABLES
  month,      \* the operator-local month
  account,    \* the singleton DailyCoreAccount row
  value,      \* DailyCorePosition: the value held by ticker
  allowances, \* DailyCoreAllowance: the months that have a row (UNIQUE)
  mark,       \* the newest DailyCoreSnapshot
  lock,       \* _cycle_lock is held
  engine,     \* what holds it, with its local variables
  deposit,    \* the deposits under way, by caller
  history,    \* what the properties remember; no action reads it
  count       \* what the bounds count

db == <<account, value, allowances, mark>>
vars == <<month, db, lock, engine, deposit, history, count>>

-----------------------------------------------------------------------------
(* The shape of the state.                                                 *)

Account == [exists: BOOLEAN, cash: Nat, allowanceMonth: Nat]
FreshAccount == [exists |-> TRUE, cash |-> StartCash, allowanceMonth |-> 0]
NoAccount == [FreshAccount EXCEPT !.exists = FALSE]

Nothing == [t \in Tickers |-> 0]
Held == {t \in Tickers : value[t] > 0}

Mark == [equity: Nat, funded: Nat, gains: Int, base: Nat]
NoMark == [equity |-> 0, funded |-> 0, gains |-> 0, base |-> 0]

DepositState == [at: {"idle", "open", "commit"}, month: Nat, row: Account]
NoDeposit == [at |-> "idle", month |-> 0, row |-> NoAccount]

Books == [cash: Nat, value: [Tickers -> Nat]]
NoBook == [cash |-> 0, value |-> Nothing]

Verdicts == {"clear", "parked", "out"}
Stages == {"idle", "deposit", "rank", "sell", "selling", "weigh", "buy", "buying",
           "revalue", "value", "mark", "wipe", "wiping", "replay", "persist",
           "persisting"}

\* names: still to sell; targets: still to buy, best first; ticker: the one
\* being traded; budget: of that trade; seen: the cash of the last valuation;
\* start: the book when the pass began; live: the allowance marker the wipe
\* found; days: months to replay, then those replayed; book, funded: the replay.
EngineState ==
  [stage: Stages, names: SUBSET Tickers, targets: Seq(Tickers), priced: SUBSET Tickers,
   verdict: Verdicts, scale: Scales \cup {4}, ticker: SUBSET Tickers, budget: Nat,
   weight: Nat, room: Nat, seen: Nat, row: Account, start: Books, live: Nat,
   days: SUBSET Months, funded: SUBSET Months, book: Books]
Idle ==
  [stage |-> "idle", names |-> {}, targets |-> <<>>, priced |-> {}, verdict |-> "clear",
   scale |-> 4, ticker |-> {}, budget |-> 0, weight |-> 0, room |-> 0, seen |-> 0,
   row |-> NoAccount, start |-> NoBook, live |-> 0, days |-> {}, funded |-> {},
   book |-> NoBook]

\* The book as DailyBook sees it: a pass happens at once when it ends, and a
\* replay where it is made, in memory.
PassStages == {"sell", "selling", "buy", "buying", "revalue"}
ReplayStages == {"replay", "persist", "persisting"}

BookNow ==
  CASE engine.stage \in PassStages -> engine.start
    [] engine.stage \in ReplayStages -> engine.book
    [] OTHER -> [cash |-> account.cash, value |-> value]

Abstract == INSTANCE DailyBook WITH book <- BookNow

Invested == Abstract!Worth(value, Tickers)

\* base: what the book held before its first allowance; gains: what prices
\* added since; credits: deposits made for each month since the last wipe;
\* raced: since the last reset a deposit was committed on top of another
\* operation.
History == [base: Nat, gains: Int, credits: [Months -> Nat], raced: BOOLEAN]
NoHistory(base) ==
  [base |-> base, gains |-> 0, credits |-> [m \in Months |-> 0], raced |-> FALSE]

TypeOK ==
  /\ month \in Months
  /\ account \in Account
  /\ value \in [Tickers -> Nat]
  /\ allowances \in SUBSET Months
  /\ mark \in Mark
  /\ lock \in BOOLEAN
  /\ engine \in EngineState
  /\ deposit \in [Callers -> DepositState]
  /\ history \in History
  /\ count \in [runs: 0..MaxRuns, moves: 0..MaxMoves, crashes: 0..MaxCrashes]

Init ==
  /\ month = 1
  /\ account = NoAccount
  /\ value = Nothing
  /\ allowances = {}
  /\ mark = NoMark
  /\ lock = FALSE
  /\ engine = Idle
  /\ deposit = [c \in Callers |-> NoDeposit]
  /\ history = NoHistory(StartCash)
  /\ count = [runs |-> 0, moves |-> 0, crashes |-> 0]

-----------------------------------------------------------------------------
\* A column that a transaction did not change keeps its present value.
Column(old, new, present) == IF new = old THEN present ELSE new

SetCash(row, cash) == [account EXCEPT !.cash = Column(row.cash, cash, @)]

Acquire(state) ==
  /\ ~lock /\ count.runs < MaxRuns
  /\ count' = [count EXCEPT !.runs = @ + 1]
  /\ lock' = TRUE
  /\ engine' = state

Release == lock' = FALSE /\ engine' = Idle

To(stage) == engine' = [engine EXCEPT !.stage = stage]

-----------------------------------------------------------------------------
(* deposit_allowance.  A missing account is inserted by a transaction of   *)
(* its own; of two inserts the second fails.                               *)

DepositRead(c) ==
  /\ deposit[c].at = "idle"
  /\ c = Engine => engine.stage = "deposit"
  /\ IF account.exists /\ account.allowanceMonth = month
     THEN c = Engine /\ To("rank") /\ UNCHANGED deposit
     ELSE /\ deposit' = [deposit EXCEPT ![c] =
               [at |-> IF account.exists THEN "commit" ELSE "open",
                month |-> month, row |-> account]]
          /\ UNCHANGED engine
  /\ UNCHANGED <<month, db, lock, history, count>>

\* An exception leaves the deposit, and a cycle with it.
DepositOpen(c) ==
  /\ deposit[c].at = "open"
  /\ IF account.exists
     THEN /\ deposit' = [deposit EXCEPT ![c] = NoDeposit]
          /\ IF c = Engine THEN Release ELSE UNCHANGED <<lock, engine>>
          /\ UNCHANGED account
     ELSE /\ deposit' = [deposit EXCEPT ![c].at = "commit", ![c].row = FreshAccount]
          /\ account' = FreshAccount
          /\ UNCHANGED <<lock, engine>>
  /\ UNCHANGED <<month, value, allowances, mark, history, count>>

\* Mutant: the month's row is not unique.
NeverDeposited(m) == FALSE

AlreadyDeposited(m) == m \in allowances

\* A deposit that does not run alone: what it read is no longer there, or the
\* cycle or a backfill is under way.
Overlaps(c) == deposit[c].row # account \/ (c # Engine /\ lock)

\* The month's row decides between two deposits; the loser is told that the
\* deposit was made.
DepositCommit(c) ==
  /\ deposit[c].at = "commit"
  /\ deposit' = [deposit EXCEPT ![c] = NoDeposit]
  /\ IF AlreadyDeposited(deposit[c].month)
     THEN UNCHANGED <<account, allowances, history>>
     ELSE /\ history' = [history EXCEPT !.credits[deposit[c].month] = @ + 1,
                                                 !.raced = @ \/ Overlaps(c)]
          /\ account' = [SetCash(deposit[c].row, deposit[c].row.cash + Contribution)
                           EXCEPT !.allowanceMonth = deposit[c].month]
          /\ allowances' = allowances \cup {deposit[c].month}
  /\ IF c = Engine THEN To("rank") ELSE UNCHANGED engine
  /\ UNCHANGED <<month, value, mark, lock, count>>

-----------------------------------------------------------------------------
(* run_daily_cycle and run_deployment                                      *)

Elsewhere == <<month, deposit, history, count>>
Unlocked == <<lock, Elsewhere>>

CycleStart ==
  /\ Acquire([Idle EXCEPT !.stage = "deposit"])
  /\ UNCHANGED <<month, db, deposit, history>>

\* No ranking, or the pass with all it has to go by.
Rank ==
  /\ engine.stage = "rank"
  /\ \/ To("value")
     \/ \E ranking \in Rankings, verdict \in Verdicts, priced \in SUBSET Tickers,
          scale \in Scales :
          engine' = [engine EXCEPT
            !.stage = "sell",
            !.start = [cash |-> account.cash, value |-> value],
            !.names = IF verdict = "out" THEN Held ELSE Held \ ToSet(ranking),
            !.targets = SubSeq(ranking, 1, Min({TargetN, Len(ranking)})),
            !.verdict = verdict, !.priced = priced, !.scale = scale]
  /\ UNCHANGED <<db, Unlocked>>

SellRead(t) ==
  /\ engine.stage = "sell"
  /\ t \in engine.names
  /\ engine' = [engine EXCEPT !.stage = "selling", !.ticker = {t}, !.row = account]
  /\ UNCHANGED <<db, Unlocked>>

SellCommit(t) ==
  /\ engine.stage = "selling"
  /\ t \in engine.ticker
  /\ account' = SetCash(engine.row, engine.row.cash + value[t])
  /\ value' = [value EXCEPT ![t] = 0]
  /\ engine' = [engine EXCEPT !.stage = "sell", !.ticker = {}, !.names = @ \ {t}]
  /\ UNCHANGED <<allowances, mark, Unlocked>>

\* Parked contributions end the pass; otherwise the equity sets the weight
\* and, under the volatility control, the room for new money.
Weigh ==
  /\ engine.stage = "sell"
  /\ engine.names = {}
  /\ LET equity == account.cash + Invested
         room == (equity * engine.scale) \div 4 - Invested
     IN  engine' = IF engine.verdict # "clear" THEN [engine EXCEPT !.stage = "value"]
                   ELSE [engine EXCEPT !.stage = "buy", !.seen = account.cash,
                           !.weight = equity \div TargetN,
                           !.room = IF engine.scale = 4 THEN equity
                                    ELSE IF room > 0 THEN room ELSE 0]
  /\ UNCHANGED <<db, Unlocked>>

\* Mutant: what is held of the name does not count.
BudgetOfWeight(t) == Min({engine.weight, engine.seen, engine.room})

BudgetFor(t) == Min({engine.weight - value[t], engine.seen, engine.room})

\* The next target: passed over without a price, a budget or the cash.
BuyRead ==
  /\ engine.stage = "buy"
  /\ engine.targets # <<>>
  /\ LET t == Head(engine.targets)
         rest == [engine EXCEPT !.targets = Tail(@)]
     IN  engine' = IF t \in engine.priced /\ BudgetFor(t) >= 1 /\ account.cash >= BudgetFor(t)
                   THEN [rest EXCEPT !.stage = "buying", !.ticker = {t},
                                     !.budget = BudgetFor(t), !.row = account]
                   ELSE rest
  /\ UNCHANGED <<db, Unlocked>>

BuyCommit(t) ==
  /\ engine.stage = "buying"
  /\ t \in engine.ticker
  /\ account' = SetCash(engine.row, engine.row.cash - engine.budget)
  /\ value' = [value EXCEPT ![t] = @ + engine.budget]
  /\ engine' = [engine EXCEPT !.stage = "revalue", !.ticker = {}, !.room = @ - engine.budget]
  /\ UNCHANGED <<allowances, mark, Unlocked>>

Revalue ==
  /\ engine.stage = "revalue"
  /\ engine' = [engine EXCEPT !.stage = "buy", !.seen = account.cash]
  /\ UNCHANGED <<db, Unlocked>>

Deployed ==
  /\ engine.stage = "buy"
  /\ engine.targets = <<>>
  /\ To("value")
  /\ UNCHANGED <<db, Unlocked>>

\* take_snapshot's valuation reads the cash, then the positions and the
\* allowances.
Value ==
  /\ engine.stage = "value"
  /\ engine' = [engine EXCEPT !.stage = "mark", !.seen = account.cash]
  /\ UNCHANGED <<db, Unlocked>>

MarkOf(cash) ==
  [equity |-> cash + Invested, funded |-> Cardinality(allowances),
   gains |-> history.gains, base |-> history.base]

Snapshot ==
  /\ engine.stage = "mark"
  /\ mark' = MarkOf(engine.seen)
  /\ Release
  /\ UNCHANGED <<account, value, allowances, Elsewhere>>

Deployment ==
  \/ Rank \/ Weigh \/ BuyRead \/ Revalue \/ Deployed \/ Value \/ Snapshot
  \/ \E t \in Tickers : SellRead(t) \/ SellCommit(t) \/ BuyCommit(t)

-----------------------------------------------------------------------------
(* backfill                                                                *)

\* The replayed months end with this one, or with the last one while this
\* one has no candle.
BackfillStart ==
  \E first \in Months, last \in {month - 1, month} :
    /\ first <= last
    /\ Acquire([Idle EXCEPT !.stage = "wipe", !.days = first..last])
    /\ UNCHANGED <<month, db, deposit, history>>

WipeRead ==
  /\ engine.stage = "wipe"
  /\ engine' = [engine EXCEPT !.stage = "wiping", !.row = account]
  /\ UNCHANGED <<db, Unlocked>>

\* Mutant: the allowance rows stay.
TradeRowsGone == value' = Nothing /\ mark' = NoMark /\ UNCHANGED allowances

NoRows == value' = Nothing /\ mark' = NoMark /\ allowances' = {}

WipeCommit ==
  /\ engine.stage = "wiping"
  /\ LET row == IF engine.row.exists THEN engine.row ELSE account
     IN  account' = [account EXCEPT
           !.exists = TRUE, !.cash = Column(row.cash, 0, @),
           !.allowanceMonth = Column(row.allowanceMonth, 0, @)]
  /\ NoRows
  /\ engine' = [engine EXCEPT !.stage = "replay",
                  !.live = IF engine.row.exists THEN engine.row.allowanceMonth ELSE 0]
  /\ history' = [NoHistory(0) EXCEPT !.raced = history.raced]
  /\ UNCHANGED <<month, lock, deposit, count>>

\* One trading day stands for each month of the replay.
ReplayDay ==
  /\ engine.stage = "replay"
  /\ engine.days # {}
  /\ \E in \in [ranking: Rankings, verdict: Verdicts, priced: {Tickers}, scale: Scales] :
       engine' = [engine EXCEPT
         !.days = @ \ {Min(@)}, !.funded = @ \cup {Min(engine.days)},
         !.book = Abstract!Passed(Abstract!Credited(@), in)]
  /\ UNCHANGED <<db, Unlocked>>

\* Mutant: the month the live engine funded is not put back.
NoneAgain(live) == {}

\* The running month's live deposit went with the wipe.
FundedAgain(live) == {month} \cap {live}

ReplayEnd ==
  /\ engine.stage = "replay"
  /\ engine.days = {}
  /\ LET again == FundedAgain(engine.live) \ engine.funded
     IN  engine' = [engine EXCEPT
           !.stage = "persist", !.funded = @ \cup again, !.days = engine.funded,
           !.book.cash = @ + Contribution * Cardinality(again)]
  /\ UNCHANGED <<db, Unlocked>>

PersistRead ==
  /\ engine.stage = "persist"
  /\ engine' = [engine EXCEPT !.stage = "persisting", !.row = account]
  /\ UNCHANGED <<db, Unlocked>>

\* Mutant: the marker is the last replayed month.
MarkerOfWindow(funded, live) == Max(engine.days)

\* Never behind the newest row, or the next deposit would repeat its month.
MarkerAfter(funded, live) == Max(funded \cup {live})

\* A month that meanwhile got its row makes the commit fail.
PersistCommit ==
  /\ engine.stage = "persisting"
  /\ Release
  /\ IF engine.funded \cap allowances # {}
     THEN UNCHANGED db
     ELSE /\ account' = [account EXCEPT
               !.cash = Column(engine.row.cash, engine.book.cash, @),
               !.allowanceMonth = Column(engine.row.allowanceMonth,
                                         MarkerAfter(engine.funded, engine.live), @)]
          /\ value' = engine.book.value
          /\ allowances' = allowances \cup engine.funded
          /\ mark' = [NoMark EXCEPT !.equity = Cardinality(engine.days) * Contribution,
                                    !.funded = Cardinality(engine.days)]
  /\ UNCHANGED Elsewhere

Backfill ==
  BackfillStart \/ WipeRead \/ WipeCommit \/ ReplayDay \/ ReplayEnd \/ PersistRead
  \/ PersistCommit

-----------------------------------------------------------------------------
(* reset_daily_core: its first statement takes the database's write lock.  *)

Reset ==
  /\ ~lock
  /\ account' = FreshAccount
  /\ NoRows
  /\ history' = NoHistory(StartCash)
  /\ UNCHANGED <<month, lock, engine, deposit, count>>

-----------------------------------------------------------------------------
(* The environment.                                                        *)

Tick ==
  /\ month < LastMonth
  /\ month' = month + 1
  /\ UNCHANGED <<db, lock, engine, deposit, history, count>>

\* Prices are read once for a pass; a held name that loses its price goes on
\* at its average cost.
Move(t) ==
  /\ count.moves < MaxMoves
  /\ engine.stage \in {"idle", "rank"}
  /\ \E gain \in {-1, 1} :
       /\ value[t] > 0 /\ value[t] + gain > 0
       /\ value' = [value EXCEPT ![t] = @ + gain]
       /\ history' = [history EXCEPT !.gains = @ + gain]
  /\ count' = [count EXCEPT !.moves = @ + 1]
  /\ UNCHANGED <<month, account, allowances, mark, lock, engine, deposit>>

\* Everything in memory is gone, the lock included.
Crash ==
  /\ count.crashes < MaxCrashes
  /\ lock \/ \E c \in Callers : deposit[c] # NoDeposit
  /\ count' = [count EXCEPT !.crashes = @ + 1]
  /\ Release
  /\ deposit' = [c \in Callers |-> NoDeposit]
  /\ UNCHANGED <<month, db, history>>

\* An exception ends a cycle or a backfill between two of its steps.
Fail ==
  /\ count.crashes < MaxCrashes
  /\ lock
  /\ count' = [count EXCEPT !.crashes = @ + 1]
  /\ Release
  /\ deposit' = [deposit EXCEPT ![Engine] = NoDeposit]
  /\ UNCHANGED <<month, db, history>>

Next ==
  \/ \E c \in Callers : DepositRead(c) \/ DepositOpen(c) \/ DepositCommit(c)
  \/ CycleStart \/ Deployment \/ Backfill \/ Reset \/ Tick \/ Crash \/ Fail
  \/ \E t \in Tickers : Move(t)

Spec == Init /\ [][Next]_vars

\* Status requests keep coming, and what runs goes on.
FairSpec ==
  /\ Spec
  /\ \A c \in Callers :
       WF_vars(DepositRead(c)) /\ WF_vars(DepositOpen(c)) /\ WF_vars(DepositCommit(c))
  /\ WF_vars((Deployment \/ Backfill) /\ lock)

-----------------------------------------------------------------------------
(* Properties.                                                             *)

\* The live engine's transactions and the backfill's replay are deposits and
\* passes of the same book ("a backfill's end state matches what the live
\* engine would hold").
ImplementsBook == Abstract!Spec

\* A pass neither makes nor loses money, never runs into debt, and trades
\* nothing when it is run again, on every book a cycle, a backfill or a reset
\* leaves to the next pass.
RerunTradesNothing == ~lock => Abstract!RerunTradesNothing

\* On every such book the top of the ranking is reinforced first.
BestRankFirst == ~lock => Abstract!BestRankFirst

\* On every such book the volatility control never sells, and keeps new money
\* from taking the holdings over the scaled equity.
VolCapHeld == ~lock => Abstract!VolCapHeld

\* Whatever is interrupted wherever, cash and holdings are what the book
\* started with, the prices' gains and one contribution for each recorded
\* month, unless a deposit overlapped with another operation.
MoneyConserved ==
  ~history.raced =>
    account.cash + Invested
      = history.base + history.gains + Contribution * Cardinality(allowances)

\* The marker never lags the newest allowance row ("or the next live deposit
\* would duplicate that month"), unless a deposit overlapped with the backfill.
MarkerCoversRows == history.raced \/ \A m \in allowances : m <= account.allowanceMonth

\* A month is deposited once since the book was last wiped, however status
\* requests, cycles and crashes overlap.
DepositOncePerMonth == \A m \in Months : history.credits[m] <= 1

\* The last month's contribution arrives, although backfills and resets wipe
\* it and put it back. A crash between the wipe and the end of a backfill loses
\* it for good: the marker is kept.
AllowanceArrives ==
  (month = LastMonth) ~> (LastMonth \in allowances \/ count.crashes > 0)

-----------------------------------------------------------------------------
(* Inductive invariants.                                                   *)

\* The lock is held by what is under way; the cycle deposits before it trades.
LockInv ==
  /\ lock <=> engine.stage # "idle"
  /\ deposit[Engine].at # "idle" => engine.stage = "deposit"

\* An account that is missing was never written. No month is in the future,
\* and what a deposit read is no later than its month.
AccountInv ==
  /\ account.exists \/ account = NoAccount
  /\ engine.stage \notin {"idle", "deposit", "wipe", "wiping"} => account.exists
  /\ account.allowanceMonth <= month /\ engine.row.allowanceMonth <= month
  /\ \A c \in Callers :
       /\ deposit[c].at = "commit" => account.exists
       /\ deposit[c].at # "idle" =>
            deposit[c].month \in 1..month /\ deposit[c].row.allowanceMonth <= deposit[c].month

\* Until a deposit overlaps, the row the engine read is still the account; a
\* purchase fits the cash and the room it was decided on.
RowInv ==
  /\ ~history.raced /\ engine.stage \in {"selling", "buying", "persisting"} => engine.row = account
  /\ ~history.raced /\ engine.stage = "wiping" /\ engine.row.exists => engine.row = account
  /\ engine.stage = "buying" => /\ engine.budget \in 1..engine.room
                               /\ engine.budget <= engine.row.cash

\* The replay's book holds the contributions of the months it funded, none of
\* them twice, and no row is there meanwhile but an overlapping deposit's.
ReplayInv ==
  /\ engine.stage \in {"wipe", "wiping"} \cup ReplayStages =>
       /\ engine.days \cup engine.funded \subseteq 1..month
       /\ engine.live <= month
       /\ engine.book.cash + Abstract!Worth(engine.book.value, Tickers)
            = Contribution * Cardinality(engine.funded)
  /\ engine.stage \in {"wipe", "wiping", "replay"} => engine.days \cap engine.funded = {}
  /\ engine.stage \in ReplayStages /\ ~history.raced =>
       allowances = {} /\ history.base = 0 /\ history.gains = 0

\* A month deposited since the last wipe has its row.
CreditInv ==
  \A m \in Months : history.credits[m] <= 1 /\ (history.credits[m] = 1 => m \in allowances)
=============================================================================
