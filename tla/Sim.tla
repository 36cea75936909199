-------------------------------- MODULE Sim --------------------------------
(***************************************************************************)
(* The paper simulation of app/sim.py: the cycle with its three strategies *)
(* and the weekly LLM review, the backfill and the benchmark, which        *)
(* _run_cycle_lock serialises, and what goes on without that lock: the     *)
(* trades of the chat, the deposit of the status endpoint (main.py:554)    *)
(* and the reset.                                                          *)
(*                                                                         *)
(* A transaction reads the account row and a position and later commits    *)
(* what it computed from them, so somebody else's commit may lie in        *)
(* between; the mapper writes back the columns it changed and fails when   *)
(* the row is gone.  Prices are constant, snapshots, the trade log and the *)
(* chat history are records that no action reads and left out.  A month or *)
(* week is a number, 0 is None.  Operators introduced by "Mutant:" are     *)
(* plausible bugs in the definition that follows them.                     *)
(***************************************************************************)
EXTENDS Strategy

CONSTANTS
  Strategies,    \* values of sim_strategy; "failure" is hybrid with the marker
  Markets,       \* what the signals may say at a cycle
  Replies,       \* what the LLM may answer in a cycle: sequences of decisions
  ChatReplies,   \* ... and in the chat: sequences of actions
  StartCash,     \* sim_start_cash
  Allowance,     \* sim_monthly_allowance
  Interval,      \* sim_llm_review_interval, in weeks
  WeeksAMonth,
  Since,         \* bound: the months a backfill may start in
  FirstWeek,     \* the simulation is switched on in it
  LastWeek,      \* bound: weeks are 1..LastWeek
  MaxEvents      \* bound: backfills, chat turns, resets, restarts, failures in all

Month(w) == (w - 1) \div WeeksAMonth + 1
Months == 1..Month(LastWeek)
Weeks == 1..LastWeek
Callers == {"engine", "chat", "web"}

\* What the chat asks for; size 0 is as much as the limits or the holding allow.
Order == [ticker: Tickers, action: {"BUY", "SELL"}, size: Nat, reserve: BOOLEAN]

ASSUME SimAssumption ==
  /\ Strategies \subseteq {"deterministic", "hybrid", "failure", "llm"}
  /\ \A m \in Markets : IsMarket(m)
  /\ Replies \subseteq Seq(Answer)
  /\ ChatReplies \subseteq Seq(Order) \ {<<>>}
  /\ StartCash \in Nat /\ Allowance \in Nat \ {0} /\ Interval \in Nat \ {0}
  /\ Since \subseteq Nat \ {0} /\ WeeksAMonth \in Nat \ {0} /\ LastWeek \in Nat \ {0}
  /\ FirstWeek \in 1..LastWeek /\ MaxEvents \in Nat

VARIABLES
  strategy,   \* settings.sim_strategy
  week,       \* the local week; the month follows from it
  account,    \* the singleton SimAccount row
  positions,  \* SimPosition: the value held of each name, 0 is no row
  allowances, \* SimAllowance: the months that have a row (UNIQUE)
  bench,      \* the SimBenchmarkAccount row
  dca,        \* what the benchmark's deposit or backfill has looked up
  engine,     \* the cycle or backfill that holds _run_cycle_lock
  chat,       \* the chat turn under way
  resetting,  \* reset_sim has committed, reset_benchmark not yet
  tx,         \* the transaction each caller is in
  history,    \* what the properties remember; no action reads it
  events      \* backfills, chat turns, resets, restarts and failures so far

db == <<account, positions, allowances>>
benchmark == <<bench, dca>>
vars == <<strategy, week, db, benchmark, engine, chat, resetting, tx, history, events>>

-----------------------------------------------------------------------------
(* The shape of the state.                                                 *)

FreshAccount == [exists |-> TRUE, cash |-> StartCash, month |-> 0, review |-> 0]
NoAccount == [FreshAccount EXCEPT !.exists = FALSE]
FreshBench == [exists |-> TRUE, cash |-> 0, month |-> 0]
NoBench == [FreshBench EXCEPT !.exists = FALSE]

\* kind: a deposit that knows its month (due), one that has read the row too
\* (deposit), a backfill about to replace the row (backfill).
NoDca == [kind |-> "none", month |-> 0, row |-> NoBench]

\* kind: BUY, SELL or deposit; size 0 sells everything; row, held: as read.
NoTx == [kind |-> "none", ticker |-> "", size |-> 0, month |-> 0, row |-> NoAccount, held |-> 0]

\* value: the valuation the cycle goes by; todo: trades still to make; next:
\* the stage after them; names: those it has counted for the cap; window: the
\* months a backfill replays; live: the allowance marker it wiped.
Idle ==
  [stage |-> "idle", value |-> [cash |-> 0, equity |-> 0], todo |-> <<>>,
   next |-> "idle", proposals |-> <<>>, decisions |-> <<>>, names |-> {}, week |-> 0,
   window |-> {}, live |-> 0, book |-> [cash |-> 0, held |-> Nothing]]

\* equity: as valued last; budget: of the buy that comes first in todo.
NoChat == [stage |-> "idle", equity |-> 0, todo |-> <<>>, budget |-> 0]

\* base: what the account held before its first allowance; funded: the months
\* paid into the benchmark; reviews: the week of each review, but of those
\* whose cycle failed; ceiling: the cap, or the number of positions that buys
\* it does not hold have led to; raced, benchRaced: a transaction was committed
\* over what another had changed since it read; late, benchLate: a backfill
\* has computed its window in one month and looks at the marker in the next.
NoHistory ==
  [base |-> StartCash, funded |-> {}, reviews |-> <<>>, ceiling |-> MaxPositions,
   raced |-> FALSE, late |-> FALSE, benchRaced |-> FALSE, benchLate |-> FALSE]

Book == [cash |-> account.cash, held |-> positions]

Init ==
  /\ strategy \in Strategies
  /\ week = FirstWeek
  /\ account = NoAccount /\ positions = Nothing /\ allowances = {}
  /\ bench = NoBench /\ dca = NoDca
  /\ engine = Idle /\ chat = NoChat /\ resetting = FALSE
  /\ tx = [c \in Callers |-> NoTx]
  /\ history = NoHistory
  /\ events = 0

-----------------------------------------------------------------------------
(* Transactions.                                                           *)

Column(old, new, present) == IF new = old THEN present ELSE new

SetCash(row, cash) ==
  [account EXCEPT !.exists = TRUE, !.cash = Column(row.cash, cash, @)]

Busy(c) == tx[c].kind # "none"

Begin(c, kind, t, size) ==
  tx' = [tx EXCEPT ![c] = [kind |-> kind, ticker |-> t, size |-> size, month |-> Month(week),
                           row |-> account, held |-> IF t \in Tickers THEN positions[t] ELSE 0]]

ChatNext(stage) ==
  IF Len(chat.todo) = 1 THEN NoChat ELSE [chat EXCEPT !.stage = stage, !.todo = Tail(@)]

\* What a request commits while a backfill has wiped and not yet persisted is
\* overwritten by it.
Displaced(c) == c # "engine" /\ engine.stage = "persist"

\* A caller goes on after its trade, or gives up with an exception: a cycle
\* reports the error and lets go of the lock, a request ends.
Proceed(c) ==
  /\ engine' = IF c = "engine"
               THEN [engine EXCEPT !.todo = Tail(@), !.names = IF engine.stage = "trade" THEN {} ELSE @]
               ELSE engine
  /\ chat' = IF c = "chat" THEN ChatNext("value") ELSE chat

GiveUp(c) ==
  /\ engine' = IF c = "engine" THEN Idle ELSE engine
  /\ chat' = IF c = "chat" THEN NoChat ELSE chat

\* A cycle has asked the LLM and not yet marked the week; when it ends so, the
\* week can be reviewed again.
Reviewing == strategy = "hybrid" /\ engine.week # 0 /\ engine.stage # "end"

Unfinished == IF Reviewing THEN Front(history.reviews) ELSE history.reviews

Overwrites(c) ==
  \/ tx[c].row # account
  \/ tx[c].ticker \in Tickers /\ tx[c].held # positions[tx[c].ticker]

Untraded == <<strategy, week, benchmark, resetting, events>>

-----------------------------------------------------------------------------
(* _exec_buy and _exec_sell.                                               *)

SoldBy(x) == IF x.size = 0 THEN x.held ELSE Min({x.size, x.held})

\* A row is updated that is gone, or inserted that is there.
RowConflict(x) ==
  ~(x.kind = "SELL" /\ SoldBy(x) = x.held) /\ (x.held = 0) # (positions[x.ticker] = 0)

\* Mutant: the proceeds of a sale in part are those of the whole position.
PaidInFull(x) ==
  SetCash(x.row, IF x.kind = "SELL" THEN x.row.cash + x.held ELSE x.row.cash - x.size)

Paid(x) ==
  SetCash(x.row, IF x.kind = "SELL" THEN x.row.cash + SoldBy(x) ELSE x.row.cash - x.size)

HeldAfter(x) ==
  [positions EXCEPT ![x.ticker] = IF x.kind = "BUY" THEN x.held + x.size ELSE x.held - SoldBy(x)]

\* A buy is uncounted when the chat makes it, when it is an addition of a
\* review, or when somebody has opened a position since the engine counted.  A
\* sale brings the number down, but for names the engine goes on counting.
Ceiling(c, open) ==
  IF tx[c].kind = "SELL" THEN Max({MaxPositions, Cardinality(engine.names), Cardinality(open)})
  ELSE IF c = "chat" \/ ~(open \subseteq engine.names) THEN Max({history.ceiling, Cardinality(open)})
  ELSE history.ceiling

TradeCommit(c) ==
  LET x == tx[c] IN
  /\ x.kind \in {"BUY", "SELL"}
  /\ tx' = [tx EXCEPT ![c] = NoTx]
  /\ IF RowConflict(x)
     THEN /\ GiveUp(c) /\ UNCHANGED <<account, positions>>
          /\ history' = [history EXCEPT !.reviews = IF c = "engine" THEN Unfinished ELSE @]
     ELSE /\ account' = Paid(x)
          /\ positions' = HeldAfter(x)
          /\ history' = [history EXCEPT !.raced = @ \/ Overwrites(c) \/ Displaced(c),
                                        !.ceiling = Ceiling(c, Open([Book EXCEPT !.held = HeldAfter(x)]))]
          /\ Proceed(c)
  /\ UNCHANGED <<allowances, Untraded>>

-----------------------------------------------------------------------------
(* deposit_allowance: first thing in a cycle, and in every status request. *)

Deposited == account.exists /\ account.month = Month(week)

DepositRead(c) ==
  /\ c = "web" \/ (c = "engine" /\ engine.stage = "deposit")
  /\ ~Busy(c) /\ ~Deposited
  /\ Begin(c, "deposit", "", 0)
  /\ UNCHANGED <<db, engine, chat, history, Untraded>>

DepositConflict(x) == x.month \in allowances \/ (~x.row.exists /\ account.exists)

DepositCommit(c) ==
  LET x == tx[c] IN
  /\ x.kind = "deposit"
  /\ tx' = [tx EXCEPT ![c] = NoTx]
  /\ IF DepositConflict(x)
     THEN GiveUp(c) /\ UNCHANGED <<account, allowances, history>>
     ELSE /\ account' = [SetCash(x.row, x.row.cash + Allowance) EXCEPT !.month = x.month]
          /\ allowances' = allowances \cup {x.month}
          /\ history' = [history EXCEPT !.raced = @ \/ Overwrites(c) \/ Displaced(c)]
          /\ engine' = IF c = "engine" THEN [engine EXCEPT !.stage = "bench"] ELSE engine
          /\ UNCHANGED chat
  /\ UNCHANGED <<positions, Untraded>>

-----------------------------------------------------------------------------
(* run_cycle                                                               *)

Rest == <<chat, resetting, events, strategy, week>>

\* A cycle that finds the lock taken is skipped; it does not wait.
CycleStart ==
  /\ engine.stage = "idle"
  /\ engine' = [Idle EXCEPT !.stage = "deposit"]
  /\ UNCHANGED <<db, benchmark, tx, history, Rest>>

NothingToDeposit ==
  /\ engine.stage = "deposit" /\ ~Busy("engine") /\ Deposited
  /\ engine' = [engine EXCEPT !.stage = "bench"]
  /\ UNCHANGED <<db, benchmark, tx, history, Rest>>

\* _benchmark_deposit_and_buy: the month first, then the price, then the row.
\* Without a price the benchmark waits for the next cycle.
BenchMonth ==
  /\ engine.stage = "bench" /\ dca.kind = "none"
  /\ dca' = [dca EXCEPT !.kind = "due", !.month = Month(week)]
  /\ UNCHANGED <<db, bench, engine, tx, history, Rest>>

BenchRead(priced) ==
  /\ dca.kind = "due"
  /\ IF priced /\ bench.month # dca.month
     THEN dca' = [dca EXCEPT !.kind = "deposit", !.row = bench] /\ UNCHANGED engine
     ELSE dca' = NoDca /\ engine' = [engine EXCEPT !.stage = "value"]
  /\ UNCHANGED <<db, bench, tx, history, Rest>>

BenchPaid == [exists |-> TRUE, cash |-> dca.row.cash + Allowance, month |-> dca.month]

\* The row it inserts may be there by now.
BenchCommit ==
  /\ dca.kind = "deposit"
  /\ dca' = NoDca
  /\ IF bench.exists /\ ~dca.row.exists
     THEN engine' = Idle /\ UNCHANGED <<bench, history>>
     ELSE /\ bench' = BenchPaid
          /\ history' = [history EXCEPT !.funded = @ \cup {dca.month},
                                        !.benchRaced = @ \/ bench # dca.row]
          /\ engine' = [engine EXCEPT !.stage = "value"]
  /\ UNCHANGED <<db, tx, Rest>>

Valuate ==
  /\ engine.stage = "value"
  /\ engine' = [engine EXCEPT !.stage = "decide",
                                !.value = [cash |-> account.cash, equity |-> Equity(Book)]]
  /\ UNCHANGED <<db, benchmark, tx, history, Rest>>

ReviewDue(failing) ==
  IF strategy = "failure" THEN failing
  ELSE account.review = 0 \/ week - account.review >= Interval

\* The cash of the valuation and the positions of now.
Proposals(m) == Propose([cash |-> engine.value.cash, held |-> positions], m)

\* The engine trades as it proposes.
Decide ==
  /\ engine.stage = "decide"
  /\ \/ strategy = "deterministic"
     \/ strategy \in {"hybrid", "failure"} /\ \E failing \in BOOLEAN : ~ReviewDue(failing)
  /\ \E m \in Markets :
       engine' = [engine EXCEPT !.stage = "trade", !.todo = Proposals(m), !.next = "end",
                                !.value = Idle.value]
  /\ UNCHANGED <<db, benchmark, tx, history, Rest>>

\* The LLM is asked, about the engine's proposals or by itself.
Ask ==
  /\ engine.stage = "decide"
  /\ strategy = "llm" \/ (strategy # "deterministic" /\ \E failing \in BOOLEAN : ReviewDue(failing))
  /\ \E m \in Markets :
       engine' = [engine EXCEPT !.stage = "ask", !.week = week,
                                !.proposals = IF strategy = "llm" THEN <<>> ELSE Proposals(m)]
  /\ history' = [history EXCEPT !.reviews = IF strategy = "hybrid" THEN Append(@, week) ELSE @]
  /\ UNCHANGED <<db, benchmark, tx, Rest>>

\* An answer that cannot be had or read lets every proposal pass.  What was
\* proposed is settled with that: the LLM's own decisions are the others.
Reply ==
  /\ engine.stage = "ask"
  /\ \E decisions \in Replies :
       LET own == {d \in ToSet(decisions) : d.ticker \notin TickersOf(engine.proposals)}
       IN  engine' = [engine EXCEPT !.stage = "trade", !.next = "plan", !.proposals = <<>>,
                                    !.decisions = Kept(decisions, own),
                                    !.todo = Approved(engine.proposals, decisions)]
  /\ UNCHANGED <<db, benchmark, tx, history, Rest>>

\* Budgets of the LLM's own buys, out of the cash of the valuation that was
\* made before the proposals were executed.
PlanAdditions ==
  LET budget == Plan(engine.decisions, {}, engine.value.cash, engine.value.equity, positions)
      wanted(d) == \/ d.action = "BUY" /\ budget[d.ticker] > 0
                   \/ d.action = "SELL" /\ strategy = "llm"
      trade(d) == Trade(d.ticker, d.action, IF d.action = "BUY" THEN budget[d.ticker] ELSE d.size)
      chosen == Kept(engine.decisions, {d \in ToSet(engine.decisions) : wanted(d)})
  IN  /\ engine.stage = "plan"
      /\ engine' = [engine EXCEPT !.stage = "add", !.names = IF strategy = "llm" THEN Open(Book) ELSE {},
                                   !.next = IF strategy = "llm" THEN "end" ELSE "mark",
                                   !.todo = [i \in DOMAIN chosen |-> trade(chosen[i])],
                                   !.value = Idle.value, !.decisions = <<>>]
      /\ UNCHANGED <<db, benchmark, tx, history, Rest>>

\* Mutant: the live number of positions is not looked at again.
NoRecheck(p) == TRUE

\* _execute_proposed counts the positions anew, the pure LLM strategy keeps
\* count, and the additions of a review are not counted at all.
SlotAtExecution(p) ==
  /\ engine.stage = "trade" => SlotFree(Book, Cardinality(Open(Book)), p.ticker)
  /\ engine.stage # "trade" /\ strategy = "llm"
     => Cardinality(engine.names) < MaxPositions \/ p.ticker \in engine.names

Executable(p) ==
  IF p.side = "SELL" THEN positions[p.ticker] > 0
  ELSE SlotAtExecution(p) /\ p.budget <= account.cash

\* What it counts when it buys; the additions of a review are not counted.
Counted(p) ==
  IF p.side = "SELL" THEN engine.names
  ELSE IF engine.stage = "trade" THEN Open(Book) \cup {p.ticker}
  ELSE IF strategy = "llm" THEN engine.names \cup {p.ticker}
  ELSE {}

TradeRead ==
  /\ engine.stage \in {"trade", "add"} /\ engine.todo # <<>> /\ ~Busy("engine")
  /\ LET p == Head(engine.todo)
     IN  IF Executable(p)
         THEN /\ Begin("engine", p.side, p.ticker, p.budget)
              /\ engine' = [engine EXCEPT !.names = Counted(p)]
         ELSE engine' = [engine EXCEPT !.todo = Tail(@)] /\ UNCHANGED tx
  /\ UNCHANGED <<db, benchmark, history, Rest>>

Traded ==
  /\ engine.stage \in {"trade", "add"} /\ engine.todo = <<>>
  /\ engine' = [engine EXCEPT !.stage = engine.next, !.names = {}]
  /\ UNCHANGED <<db, benchmark, tx, history, Rest>>

\* Mutant: the mark is set and not committed.
MarkForgotten ==
  /\ engine.stage = "mark"
  /\ engine' = [engine EXCEPT !.stage = "end"]
  /\ UNCHANGED <<db, benchmark, tx, history, Rest>>

\* The week is marked when the review is through.
MarkReviewed ==
  /\ engine.stage = "mark"
  /\ account' = IF account.exists THEN [account EXCEPT !.review = engine.week] ELSE account
  /\ engine' = [engine EXCEPT !.stage = "end"]
  /\ UNCHANGED <<positions, allowances, benchmark, tx, history, Rest>>

\* benchmark_valuate, for a snapshot or a request, creates the row.
BenchOpened == bench' = [bench EXCEPT !.exists = TRUE]

\* The snapshots of the portfolio and the benchmark.
CycleEnd ==
  /\ engine.stage = "end"
  /\ engine' = Idle
  /\ BenchOpened
  /\ UNCHANGED <<db, dca, tx, history, Rest>>

EngineStep ==
  \/ DepositRead("engine") \/ DepositCommit("engine") \/ NothingToDeposit
  \/ BenchMonth \/ (\E priced \in BOOLEAN : BenchRead(priced)) \/ BenchCommit
  \/ Valuate \/ Decide \/ Ask \/ Reply \/ PlanAdditions
  \/ TradeRead \/ TradeCommit("engine") \/ Traded \/ MarkReviewed \/ CycleEnd

-----------------------------------------------------------------------------
(* backfill and backfill_benchmark                                         *)

\* The window ends this month, or the month before when this one has no
\* candle yet.
Windows == {first..last : first \in Since, last \in {Month(week) - 1, Month(week)}} \ {{}}

\* optimize._replay with one day in each month, the sells before the buys are
\* proposed; Replay has its days in full.
ReplayedDay(b, m) ==
  LET funded == [b EXCEPT !.cash = @ + Allowance]
      sold == Executed(funded, Sells(funded, m))
  IN  Executed(sold, Buys(sold, m))

Replayed(window, m) ==
  LET upto[k \in 0..Cardinality(window)] ==
        IF k = 0 THEN [cash |-> StartCash, held |-> Nothing] ELSE ReplayedDay(upto[k - 1], m)
  IN  upto[Cardinality(window)]

\* The replay is computed before anything is wiped.
BackfillStart ==
  /\ engine.stage = "idle" /\ events < MaxEvents
  /\ \E window \in Windows, m \in Markets :
       engine' = [Idle EXCEPT !.stage = "wipe", !.window = window, !.book = Replayed(window, m)]
  /\ events' = events + 1
  /\ UNCHANGED <<db, benchmark, tx, history, chat, resetting, strategy, week>>

Backfilling == engine.stage \in {"wipe", "persist"}

Wipe ==
  /\ engine.stage = "wipe"
  /\ account' = [FreshAccount EXCEPT !.cash = 0]
  /\ positions' = Nothing /\ allowances' = {}
  /\ history' = [history EXCEPT !.base = 0, !.reviews = <<>>, !.ceiling = MaxPositions]
  /\ engine' = [engine EXCEPT !.stage = "persist", !.live = account.month]
  /\ UNCHANGED <<benchmark, tx, Rest>>

\* The replayed months, and the running one when its deposit was wiped.
Funded == engine.window \cup ({Month(week)} \cap {engine.live})

\* Mutant: the marker is that of the window.
MarkerOfWindow == Max(engine.window)

MarkerAfter == Max(Funded \cup {engine.live})

\* A row that is there already makes the commit fail: the account stays wiped.
Persist ==
  /\ engine.stage = "persist"
  /\ IF Funded \cap allowances # {} \/ \E t \in Tickers : positions[t] > 0 /\ engine.book.held[t] > 0
     THEN UNCHANGED <<db, history>>
     ELSE /\ account' = [account EXCEPT
               !.cash = engine.book.cash + Allowance * Cardinality(Funded \ engine.window),
               !.month = MarkerAfter]
          /\ positions' = [t \in Tickers |-> positions[t] + engine.book.held[t]]
          /\ allowances' = allowances \cup Funded
          /\ history' = [history EXCEPT !.base = StartCash,
                                        !.ceiling = Max({@, MaxPositions + Cardinality(Open(Book))})]
  /\ engine' = Idle
  /\ UNCHANGED <<benchmark, tx, Rest>>

\* backfill_benchmark waits for the lock, replays the candles it has loaded,
\* reads the live marker and replaces the row.
BenchBackfillStart ==
  /\ engine.stage = "idle" /\ events < MaxEvents
  /\ \E window \in Windows : engine' = [Idle EXCEPT !.stage = "replay", !.window = window]
  /\ events' = events + 1
  /\ UNCHANGED <<db, benchmark, tx, history, chat, resetting, strategy, week>>

BenchBackfillRead ==
  /\ engine.stage = "replay" /\ dca.kind = "none"
  /\ dca' = [kind |-> "backfill", month |-> Month(week), row |-> bench]
  /\ UNCHANGED <<db, bench, engine, tx, history, Rest>>

BenchFunded == engine.window \cup ({dca.month} \cap {dca.row.month})

BenchReplace ==
  /\ dca.kind = "backfill"
  /\ bench' = [exists |-> TRUE, cash |-> Allowance * Cardinality(BenchFunded),
               month |-> Max(BenchFunded \cup {dca.row.month})]
  /\ history' = [history EXCEPT !.funded = BenchFunded, !.benchRaced = FALSE]
  /\ engine' = Idle /\ dca' = NoDca
  /\ UNCHANGED <<db, tx, Rest>>

Backfill ==
  \/ BackfillStart \/ Wipe \/ Persist
  \/ BenchBackfillStart \/ BenchBackfillRead \/ BenchReplace

-----------------------------------------------------------------------------
(* sim_chat and sim_chat_stream: what follows the LLM's answer.            *)

ChatRest == <<benchmark, engine, resetting, strategy, week>>

ChatTurn ==
  /\ chat.stage = "idle" /\ events < MaxEvents
  /\ \E actions \in ChatReplies : chat' = [NoChat EXCEPT !.stage = "value", !.todo = actions]
  /\ events' = events + 1
  /\ UNCHANGED <<db, tx, history, ChatRest>>

\* The limits of the next action go by the equity of now.
ChatValuate ==
  /\ chat.stage = "value"
  /\ account' = [account EXCEPT !.exists = TRUE]
  /\ chat' = [chat EXCEPT !.stage = "size", !.equity = Equity(Book)]
  /\ UNCHANGED <<positions, allowances, tx, history, events, ChatRest>>

ChatBudget(order) ==
  LET floor == IF order.reserve THEN 0 ELSE MinCash(chat.equity)
      room == Min({account.cash - floor, MaxValue(chat.equity) - positions[order.ticker]})
  IN  IF order.size = 0 THEN room ELSE Min({room, order.size})

ChatSize ==
  /\ chat.stage = "size"
  /\ LET order == Head(chat.todo)
     IN  IF order.action = "BUY" /\ ChatBudget(order) < 1 THEN chat' = ChatNext("size")
         ELSE chat' = [chat EXCEPT !.stage = "order",
                                   !.budget = IF order.action = "BUY" THEN ChatBudget(order) ELSE order.size]
  /\ UNCHANGED <<db, tx, history, events, ChatRest>>

ChatOrder ==
  /\ chat.stage = "order" /\ ~Busy("chat")
  /\ LET order == Head(chat.todo)
     IN  IF (order.action = "BUY" /\ chat.budget > account.cash)
              \/ (order.action = "SELL" /\ positions[order.ticker] = 0)
         THEN chat' = ChatNext("size") /\ UNCHANGED tx
         ELSE Begin("chat", order.action, order.ticker, chat.budget) /\ UNCHANGED chat
  /\ UNCHANGED <<db, history, events, ChatRest>>

Chat == ChatTurn \/ ChatValuate \/ ChatSize \/ ChatOrder \/ TradeCommit("chat")

-----------------------------------------------------------------------------
(* reset_sim, the clock, and restarts.                                     *)

\* A cycle of the pure LLM strategy goes on with the names it has counted, and
\* a backfill with the month it was started in.
Reset ==
  /\ events < MaxEvents /\ ~resetting
  /\ events' = events + 1
  /\ account' = FreshAccount /\ positions' = Nothing /\ allowances' = {}
  /\ resetting' = TRUE
  /\ history' = [history EXCEPT !.base = StartCash, !.raced = FALSE, !.late = @ /\ Backfilling,
                                !.reviews = IF Reviewing THEN <<engine.week>> ELSE <<>>,
                                !.ceiling = Max({MaxPositions, Cardinality(engine.names)})]
  /\ UNCHANGED <<strategy, week, benchmark, engine, chat, tx>>

ResetBench ==
  /\ resetting
  /\ resetting' = FALSE
  /\ bench' = FreshBench
  /\ history' = [history EXCEPT !.funded = {}, !.benchRaced = FALSE,
                                !.benchLate = @ /\ engine.stage = "replay"]
  /\ UNCHANGED <<strategy, week, db, dca, engine, chat, tx, events>>

\* The benchmark's endpoint.
BenchView ==
  /\ ~bench.exists
  /\ BenchOpened
  /\ UNCHANGED <<strategy, week, db, dca, engine, chat, resetting, tx, history, events>>

Tick ==
  /\ week < LastWeek
  /\ week' = week + 1
  /\ history' =
       LET ends == Month(week') # Month(week)
       IN  [history EXCEPT !.late = @ \/ (ends /\ Backfilling),
                           !.benchLate = @ \/ (ends /\ engine.stage = "replay" /\ dca.kind = "none")]
  /\ UNCHANGED <<strategy, db, benchmark, engine, chat, resetting, tx, events>>

Crash ==
  /\ events < MaxEvents
  /\ events' = events + 1
  /\ engine' = Idle /\ chat' = NoChat /\ resetting' = FALSE
  /\ tx' = [c \in Callers |-> NoTx] /\ dca' = NoDca
  /\ history' = [history EXCEPT !.reviews = Unfinished]
  /\ UNCHANGED <<strategy, week, db, bench>>

\* An exception ends the operation that holds the lock.
Fail ==
  /\ events < MaxEvents /\ engine.stage # "idle"
  /\ events' = events + 1
  /\ engine' = Idle /\ tx' = [tx EXCEPT !["engine"] = NoTx] /\ dca' = NoDca
  /\ history' = [history EXCEPT !.reviews = Unfinished]
  /\ UNCHANGED <<strategy, week, db, bench, chat, resetting>>

Next ==
  \/ CycleStart \/ EngineStep \/ Backfill \/ Chat
  \/ DepositRead("web") \/ DepositCommit("web")
  \/ Reset \/ ResetBench \/ BenchView \/ Tick \/ Crash \/ Fail

Spec == Init /\ [][Next]_vars

-----------------------------------------------------------------------------
Row == [exists: BOOLEAN, cash: Nat, month: {0} \cup Months, review: {0} \cup Weeks]
Stages ==
  {"idle", "deposit", "bench", "value", "decide", "ask", "trade", "plan", "add", "mark", "end",
   "wipe", "persist", "replay"}

EngineState ==
  [stage: Stages, value: [cash: Nat, equity: Nat], todo: Seq(Proposal),
   next: {"idle", "plan", "mark", "end"}, proposals: Seq(Proposal), decisions: Seq(Answer),
   names: SUBSET Tickers, week: {0} \cup Weeks, window: SUBSET Months, live: {0} \cup Months, book: Ledger]
ChatState == [stage: {"idle", "value", "size", "order"}, equity: Nat, todo: Seq(Order), budget: Nat]
BenchRow == [exists: BOOLEAN, cash: Nat, month: {0} \cup Months]
Lookup ==
  [kind: {"none", "due", "deposit", "backfill"}, month: {0} \cup Months, row: BenchRow]
Transaction ==
  [kind: {"none", "BUY", "SELL", "deposit"}, ticker: Tickers \cup {""}, size: Nat,
   month: {0} \cup Months, row: Row, held: Nat]
Memory ==
  [base: Nat, funded: SUBSET Months, reviews: Seq(Weeks), ceiling: Nat, raced: BOOLEAN, late: BOOLEAN,
   benchRaced: BOOLEAN, benchLate: BOOLEAN]

TypeOK ==
  /\ strategy \in Strategies
  /\ week \in Weeks
  /\ account \in Row /\ positions \in Holdings /\ allowances \in SUBSET Months
  /\ bench \in BenchRow /\ dca \in Lookup
  /\ engine \in EngineState /\ chat \in ChatState
  /\ resetting \in BOOLEAN
  /\ tx \in [Callers -> Transaction]
  /\ history \in Memory
  /\ events \in 0..MaxEvents

\* Cycles, chat turns, backfills, resets and restarts neither lose nor make
\* money: cash and holdings are the starting cash and one allowance a month,
\* and the benchmark has been paid each month once.  Excepted is what a
\* transaction has committed over somebody else's, which the unlocked chat,
\* status deposit and reset make possible (sim.py:178-201, 293-373), and the
\* reset to the benchmark's deposit too (sim.py:2436-2453).
MoneyConserved ==
  /\ account.exists /\ ~history.raced =>
       account.cash + Invested(Book) = history.base + Allowance * Cardinality(allowances)
  /\ ~history.benchRaced => bench.cash = Allowance * Cardinality(history.funded)

\* Buys that do not go by the cap, of the chat and of reviews, may exceed it,
\* and one of the engine may when a position was opened since it counted; a
\* buy it has counted takes the number to the cap at most, or leaves it where
\* those have taken it, and with the sales the cap is back
\* (sim.py:498-512, 1626-1640).
EngineKeepsCap == Cardinality(Open(Book)) <= history.ceiling

\* Reviews are an interval apart, those of one week among them: neither a
\* second cycle nor one that crosses the week's end reviews again.  A review
\* whose cycle fails before the mark does not count, the next cycle asks
\* again; a reset or backfill starts anew (sim.py:1855-1936).
ReviewsSpaced ==
  \A i, j \in DOMAIN history.reviews :
    i < j => history.reviews[j] - history.reviews[i] >= Interval

\* A review that executes the engine's proposals and then the LLM's own buys
\* leaves the cash buffer whole (strategy.py:357-359).
ReviewKeepsFloor ==
  [][tx["engine"].kind = "BUY" /\ account'.cash < account.cash =>
       account'.cash >= MinCash(Equity(Book'))]_vars

\* The markers tell what has been paid in: behind the rows, the next deposit
\* would fail on the month's unique row in every cycle from then on; ahead of
\* them, a month would go without its contribution (sim.py:2326-2330,
\* 2616-2622).  Excepted is a backfill that the month's end overtakes: it looks
\* for the wiped deposit in the month that has begun (sim.py:2303-2305, 2598).
MarkersTellPayments ==
  /\ account.exists /\ ~history.raced /\ ~history.late => account.month = Max(allowances \cup {0})
  /\ ~history.benchLate => bench.month = Max(history.funded \cup {0})
=============================================================================
