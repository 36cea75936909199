------------------------------ MODULE Strategy ------------------------------
(***************************************************************************)
(* The trading rules of app/strategy.py, shared by the live simulation     *)
(* (Sim) and by the replay (Replay): which trades the deterministic engine *)
(* proposes, what an LLM's decisions make of the proposals, and how much   *)
(* its own buys may spend.                                                 *)
(*                                                                         *)
(* Money is counted in whole units above the one-dollar minimum of a buy,  *)
(* and a holding by its value; a limit in percent is rounded the way that  *)
(* makes it bind.  Indicators are inputs: a market says what every name's  *)
(* signal is, which names have fallen through a stop and which pass the    *)
(* entry guards.  The sector cap and the sizing by risk are off in the     *)
(* live engine and left out.  Operators introduced by "Mutant:" are        *)
(* plausible bugs in the definition that follows them.                     *)
(***************************************************************************)
EXTENDS Integers, Sequences, FiniteSets, FiniteSetsExt, SequencesExt

CONSTANTS
  Tickers,
  FloorPct,      \* sim_min_cash_pct
  PositionPct,   \* sim_max_position_pct
  MaxPositions,  \* sim_max_positions
  RelaxedLimit   \* relaxed_hold_limit

ASSUME StrategyAssumption ==
  /\ IsFiniteSet(Tickers)
  /\ FloorPct \in 0..100 /\ PositionPct \in 0..100
  /\ MaxPositions \in Nat \ {0}
  /\ RelaxedLimit \in Nat

\* The value held of each name, with the cash beside it.
Holdings == [Tickers -> Nat]
Ledger == [cash: Nat, held: Holdings]

Nothing == [t \in Tickers |-> 0]
Invested(b) == MapThenSumSet(LAMBDA t : b.held[t], Tickers)
Equity(b) == b.cash + Invested(b)
Open(b) == {t \in Tickers : b.held[t] > 0}

MinCash(equity) == (equity * FloorPct + 99) \div 100
MaxValue(equity) == (equity * PositionPct) \div 100

\* signal: what analysis.compute says; order: names by falling strength;
\* near: HOLD names strong enough for the relaxed fallback; stopped: names at
\* or below a stop; entry: names that pass every entry guard.
Actions == {"BUY", "SELL", "HOLD"}
IsMarket(m) ==
  /\ m.signal \in [Tickers -> Actions]
  /\ m.order \in Seq(Tickers) /\ IsInjective(m.order)
  /\ m.near \subseteq Tickers /\ m.stopped \subseteq Tickers /\ m.entry \subseteq Tickers

\* A proposed or planned trade; a SELL is always of the whole position.
Proposal == [ticker: Tickers, side: {"BUY", "SELL"}, budget: Nat]
Trade(t, side, budget) == [ticker |-> t, side |-> side, budget |-> budget]
TickersOf(trades) == {trades[i].ticker : i \in DOMAIN trades}

\* The elements of s that are in S, in their order.
Kept(s, S) == FoldLeft(LAMBDA kept, x : IF x \in S THEN Append(kept, x) ELSE kept, <<>>, s)

-----------------------------------------------------------------------------
(* The engine's proposals.                                                 *)

\* A SELL signal, the initial stop, the ATR stop.
Exits(b, m) == {t \in Open(b) : m.signal[t] = "SELL" \/ t \in m.stopped}

Candidates(m) ==
  LET named(action) == Kept(m.order, {t \in m.entry : m.signal[t] = action})
      near == Kept(named("HOLD"), m.near)
  IN  IF named("BUY") # <<>> THEN named("BUY")
      ELSE SubSeq(near, 1, Min({Len(near), RelaxedLimit}))

SlotFree(b, open, t) == open < MaxPositions \/ b.held[t] > 0

\* Mutant: the buffer is not held back.
EngineBudgetOfCash(cash, equity, value) == Min({cash, MaxValue(equity) - value})

EngineBudget(cash, equity, value) ==
  IF cash < MinCash(equity) THEN 0
  ELSE Min({cash - MinCash(equity), MaxValue(equity) - value})

\* The buys reserve cash and slots from each other as they are proposed; the
\* sells of the same batch free neither.
NoBuys(b) == [cash |-> b.cash, open |-> Cardinality(Open(b)), trades |-> <<>>]

WithBuy(s, b, t) ==
  LET budget == EngineBudget(s.cash, Equity(b), b.held[t])
  IN  IF budget < 1 \/ ~SlotFree(b, s.open, t) THEN s
      ELSE [cash |-> s.cash - budget,
            open |-> IF b.held[t] > 0 THEN s.open ELSE s.open + 1,
            trades |-> Append(s.trades, Trade(t, "BUY", budget))]

Buys(b, m) == FoldLeft(LAMBDA s, t : WithBuy(s, b, t), NoBuys(b), Candidates(m)).trades

Sells(b, m) ==
  LET exits == Kept(m.order, Exits(b, m))
  IN  [i \in DOMAIN exits |-> Trade(exits[i], "SELL", 0)]

Propose(b, m) == IF Equity(b) <= 0 THEN <<>> ELSE Sells(b, m) \o Buys(b, m)

-----------------------------------------------------------------------------
(* The LLM's decisions: a sequence of [ticker, action, size], where size 0 *)
(* is a decision without "shares" or "amount".                             *)

Decision(t, action, size) == [ticker |-> t, action |-> action, size |-> size]
Answer == [ticker: Tickers, action: Actions, size: Nat]

\* The decision on a name, by dictionary: the last one counts.
Verdict(decisions, t) ==
  LET about == {i \in DOMAIN decisions : decisions[i].ticker = t}
  IN  IF about = {} THEN "silent" ELSE decisions[Max(about)].action

Consent(p, decisions) == Verdict(decisions, p.ticker) \in {"silent", p.side}

\* Mutant: a flip (SELL for a proposed BUY, or the reverse) lets it pass.
ApprovedUnlessHold(proposals, decisions) ==
  Kept(proposals, {p \in ToSet(proposals) : Verdict(decisions, p.ticker) # "HOLD"})

Approved(proposals, decisions) == Kept(proposals, {p \in ToSet(proposals) : Consent(p, decisions)})
Vetoed(proposals, decisions) == {p \in ToSet(proposals) : ~Consent(p, decisions)}

\* llm_buy_budget with guarded=True, which is how both engines call it.
LlmBudget(d, cash, equity, value) ==
  LET room == EngineBudget(cash, equity, value)
  IN  IF d.size = 0 THEN room ELSE Min({room, d.size})

\* plan_llm_buys: budgets are deducted from a running cash total.
Planned(s, d, exclude, equity, held) ==
  LET budget == LlmBudget(d, s.cash, equity, held[d.ticker])
  IN  IF d.action # "BUY" \/ d.ticker \in exclude \/ budget < 1 THEN s
      ELSE [cash |-> s.cash - budget, budget |-> [s.budget EXCEPT ![d.ticker] = budget]]

Plan(decisions, exclude, cash, equity, held) ==
  FoldLeft(LAMBDA s, d : Planned(s, d, exclude, equity, held),
           [cash |-> cash, budget |-> Nothing], decisions).budget

-----------------------------------------------------------------------------
(* A trade against a book.                                                 *)

Sell(b, t, size) ==
  LET sold == IF size = 0 THEN b.held[t] ELSE Min({size, b.held[t]})
  IN  [cash |-> b.cash + sold, held |-> [b.held EXCEPT ![t] = @ - sold]]

\* A buy that the cash does not cover is dropped, not cut.
Buy(b, t, budget) ==
  IF budget < 1 \/ budget > b.cash THEN b
  ELSE [cash |-> b.cash - budget, held |-> [b.held EXCEPT ![t] = @ + budget]]

\* Trades one after the other.
Execute(b, p) == IF p.side = "SELL" THEN Sell(b, p.ticker, 0) ELSE Buy(b, p.ticker, p.budget)
Executed(b, trades) == FoldLeft(LAMBDA s, p : Execute(s, p), b, trades)
=============================================================================
