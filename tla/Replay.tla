------------------------------- MODULE Replay -------------------------------
(***************************************************************************)
(* The replay of the simulation's strategies over past days                *)
(* (app/optimize.py): _replay, which the simulation's backfill calls, and  *)
(* _hybrid_replay, in which an LLM reviews the engine's proposals or, in   *)
(* the pure variant, is the only one who decides.  A portfolio in memory,  *)
(* one step a trading day; what the day's data and the LLM say is input.   *)
(* Operators introduced by "Mutant:" are plausible bugs in the definition  *)
(* that follows them.                                                      *)
(***************************************************************************)
EXTENDS Strategy

CONSTANTS
  Markets,     \* the days' signals (see IsMarket)
  Replies,     \* what the LLM may answer: sequences of decisions
  Setups,      \* the strategies replayed: [strategy, cadence]
  Interval,    \* review_interval, in weeks
  Drawdowns,   \* how far below its peak a day may find the portfolio
  Trailing,    \* the sets of names a trailing stop may take out on a day
  Allowance,   \* sim_monthly_allowance
  LastWeek,    \* bound: weeks are 1..LastWeek
  WeeksAMonth,
  MaxMoney     \* bound: prices do not rise beyond this equity

Setup == [strategy: {"deterministic", "hybrid", "llm"},
          cadence: {"weekly", "marker", "failure"}]

ASSUME ReplayAssumption ==
  /\ \A m \in Markets : IsMarket(m)
  /\ Replies \subseteq Seq(Answer)
  /\ Setups \subseteq Setup
  /\ Interval \in Nat \ {0} /\ Allowance \in Nat \ {0}
  /\ LastWeek \in Nat \ {0} /\ WeeksAMonth \in Nat \ {0} /\ MaxMoney \in Nat
  /\ Drawdowns \subseteq {"mild", "half", "deep"}
  /\ Trailing \subseteq SUBSET Tickers

VARIABLES
  setup,       \* what is replayed and how
  pf,          \* PaperPortfolio: cash and the value held of each name
  week,        \* the week of the day replayed last
  deposited,   \* last_deposit_month
  reviewed,    \* last_review_week, 0 is None
  riskOff,     \* risk_off
  day          \* what the last day did; no action reads it

vars == <<setup, pf, week, deposited, reviewed, riskOff, day>>

Month(w) == (w - 1) \div WeeksAMonth + 1

Quiet == [bought |-> {}, sold |-> {}, vetoed |-> {}, repeated |-> {}]

Init ==
  /\ setup \in Setups
  /\ pf = [cash |-> 0, held |-> Nothing]
  /\ week = 1 /\ deposited = 0 /\ reviewed = 0
  /\ riskOff = FALSE
  /\ day = Quiet

-----------------------------------------------------------------------------
(* The parts of a day.                                                     *)

Funded == IF Month(week) # deposited THEN [pf EXCEPT !.cash = @ + Allowance] ELSE pf

SoldOut(b, names) ==
  [cash |-> b.cash + MapThenSumSet(LAMBDA t : b.held[t], names),
   held |-> [t \in Tickers |-> IF t \in names THEN 0 ELSE b.held[t]]]

\* The circuit breaker of the deterministic replay.
Breaker(drawdown) ==
  IF drawdown = "deep" THEN TRUE ELSE riskOff /\ drawdown = "half"

AfterBreaker(b, drawdown) ==
  IF drawdown = "deep" /\ ~riskOff THEN SoldOut(b, Tickers) ELSE b

OfSide(trades, side) == Kept(trades, {p \in ToSet(trades) : p.side = side})

\* The engine's day: the sells first, the buys proposed on what they leave.
EngineDay(b, m, mayBuy) ==
  LET sold == Executed(b, OfSide(Propose(b, m), "SELL"))
  IN  IF mayBuy THEN Executed(sold, OfSide(Propose(sold, m), "BUY")) ELSE sold

\* The weeks since the last review decide, the engine having something to
\* propose, or a cascade of stop-outs or a drawdown ("failing").
ReviewDue(proposals, failing) ==
  LET cadenced == reviewed = 0 \/ week - reviewed >= Interval
  IN  CASE setup.strategy = "llm" -> TRUE
        [] setup.cadence = "failure" -> failing
        [] setup.cadence = "marker" -> proposals # <<>> /\ cadenced
        [] OTHER -> cadenced

\* Mutant: the LLM's own buys are not counted against the cap.
UncappedAddition(s, t) == TRUE

AdditionFits(s, t) == Cardinality(s.names) < MaxPositions \/ t \in s.names

\* The LLM's decisions on names the engine did not propose to trade.
Added(s, d, exclude, budget) ==
  IF d.action = "SELL" /\ setup.strategy = "llm" /\ d.ticker \notin exclude
  THEN [s EXCEPT !.pf = Sell(s.pf, d.ticker, d.size)]
  ELSE IF d.action = "BUY" /\ budget[d.ticker] > 0 /\ d.ticker \notin exclude /\ AdditionFits(s, d.ticker)
  THEN [pf |-> Buy(s.pf, d.ticker, budget[d.ticker]), names |-> s.names \cup {d.ticker}]
  ELSE s

WithAdditions(b, decisions, exclude) ==
  LET budget == Plan(decisions, exclude, b.cash, Equity(b), b.held)
  IN  FoldLeft(LAMBDA s, d : Added(s, d, exclude, budget), [pf |-> b, names |-> Open(b)], decisions).pf

\* An answer that cannot be had or read, or is empty, lets everything pass.
ReviewedDay(b, proposals, decisions) ==
  IF decisions = <<>> THEN Executed(b, proposals)
  ELSE WithAdditions(Executed(b, Approved(proposals, decisions)), decisions,
                     TickersOf(proposals))

-----------------------------------------------------------------------------
(* The days.  What a day has done is forgotten over night, before the next.*)

\* What the LLM orders twice in an answer: the plan keeps one budget for a
\* name, and every order spends it.
Repeated(decisions, exclude) ==
  {t \in Tickers \ exclude :
     \E i, j \in DOMAIN decisions :
       i < j /\ \A k \in {i, j} : decisions[k].ticker = t /\ decisions[k].action = "BUY"}

\* What the day from `before` on has traded.
Ended(before, vetoed, repeated) ==
  /\ deposited' = Month(week)
  /\ day' = [bought |-> {t \in Tickers : pf'.held[t] > before.held[t]},
             sold |-> {t \in Tickers : pf'.held[t] < before.held[t]},
             vetoed |-> {<<p.ticker, p.side>> : p \in vetoed},
             repeated |-> repeated]

\* The failure marker is read by its own cadence only.
Failing == IF setup.cadence = "failure" THEN BOOLEAN ELSE {FALSE}

\* _replay
Deterministic ==
  /\ day = Quiet
  /\ setup.strategy = "deterministic"
  /\ \E m \in Markets, drawdown \in Drawdowns, trailed \in Trailing :
       LET start == SoldOut(AfterBreaker(Funded, drawdown), trailed)
       IN  /\ riskOff' = Breaker(drawdown)
           /\ pf' = EngineDay(start, m, ~riskOff')
           /\ Ended(start, {}, {})
  /\ UNCHANGED <<setup, week, reviewed>>

\* _hybrid_replay on a day without a review
Unreviewed ==
  /\ day = Quiet
  /\ setup.strategy = "hybrid"
  /\ \E m \in Markets, failing \in Failing :
       /\ ~ReviewDue(Propose(Funded, m), failing)
       /\ pf' = EngineDay(Funded, m, TRUE)
  /\ Ended(Funded, {}, {})
  /\ UNCHANGED <<setup, week, reviewed, riskOff>>

\* _hybrid_replay with the LLM
Reviewed ==
  /\ day = Quiet
  /\ setup.strategy # "deterministic"
  /\ \E m \in Markets, decisions \in Replies, failing \in Failing :
       LET proposals == IF setup.strategy = "llm" THEN <<>> ELSE Propose(Funded, m)
           heeded == setup.strategy = "hybrid" /\ decisions # <<>>
       IN  /\ ReviewDue(proposals, failing)
           /\ pf' = ReviewedDay(Funded, proposals, decisions)
           /\ Ended(Funded, IF heeded THEN Vetoed(proposals, decisions) ELSE {},
                    Repeated(decisions, TickersOf(proposals)))
  /\ reviewed' = IF setup.strategy = "hybrid" THEN week ELSE reviewed
  /\ UNCHANGED <<setup, week, riskOff>>

NextWeek == week < LastWeek /\ week' = week + 1
            /\ day' = Quiet /\ UNCHANGED <<setup, pf, deposited, reviewed, riskOff>>

\* Over night prices may move.
Night ==
  /\ \/ pf' = pf
     \/ \E t \in Open(pf) :
          \/ Equity(pf) < MaxMoney /\ pf' = [pf EXCEPT !.held[t] = @ + 1]
          \/ pf.held[t] > 1 /\ pf' = [pf EXCEPT !.held[t] = @ - 1]
  /\ day' = Quiet
  /\ UNCHANGED <<setup, week, deposited, reviewed, riskOff>>

Next == Deterministic \/ Unreviewed \/ Reviewed \/ NextWeek \/ Night

Spec == Init /\ [][Next]_vars

-----------------------------------------------------------------------------
TypeOK ==
  /\ setup \in Setups
  /\ pf \in [cash: Nat, held: [Tickers -> Nat]]
  /\ week \in 1..LastWeek
  /\ deposited \in 0..Month(LastWeek)
  /\ reviewed \in 0..week
  /\ riskOff \in BOOLEAN

\* However a day's buys come about (proposed, left over by a review, added by
\* the LLM, after sells or instead of them), they leave the cash buffer whole
\* and no name they were spent on above the largest position
\* (strategy.py:284-317, 345-457).  Excepted are what an answer orders to buy
\* twice, which can outgrow its limit, and the buffer of such a day.
BuysKeepLimits ==
  /\ day.bought # {} /\ day.repeated = {} => pf.cash >= MinCash(Equity(pf))
  /\ \A t \in day.bought \ day.repeated : pf.held[t] <= MaxValue(Equity(pf))

\* The engine and the LLM together never open more positions than the cap
\* allows, whichever of the sells that were to make room the LLM has vetoed
\* (strategy.py:271-278, optimize.py:1185-1200).
PositionsCapped == Cardinality(Open(pf)) <= MaxPositions

\* A trade the LLM has vetoed is not made that day, not even in part and not
\* through the LLM's other decisions (strategy.py:474-500).
VetoHolds ==
  \A p \in day.vetoed : p[1] \notin (IF p[2] = "BUY" THEN day.bought ELSE day.sold)
=============================================================================
