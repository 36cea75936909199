---------------------------- MODULE ReplayProofs ----------------------------
(* The replay for every value of the constants: its types, the cap on       *)
(* positions, the limits of what a day buys, and the vetoes of the LLM.     *)
EXTENDS Replay, StrategyProofs

-----------------------------------------------------------------------------
(* Constants and weeks.                                                    *)

LEMMA Constants ==
  /\ \A m \in Markets : IsMarket(m)
  /\ Replies \subseteq Seq(Answer) /\ Setups \subseteq Setup
  /\ Allowance \in Nat /\ WeeksAMonth \in Nat \ {0} /\ LastWeek \in Nat /\ LastWeek >= 1
  /\ Drawdowns \subseteq {"mild", "half", "deep"} /\ Trailing \subseteq SUBSET Tickers
BY ReplayAssumption

LEMMA MonthTyped ==
  ASSUME NEW w \in 1..LastWeek
  PROVE  Month(w) \in 0..Month(LastWeek)
<1>1. /\ w - 1 \in Nat /\ LastWeek - 1 \in Nat /\ w - 1 <= LastWeek - 1
      /\ WeeksAMonth \in Nat \ {0}
  BY Constants
<1>2. /\ (w - 1) \div WeeksAMonth \in Nat /\ (LastWeek - 1) \div WeeksAMonth \in Nat
      /\ (w - 1) \div WeeksAMonth <= (LastWeek - 1) \div WeeksAMonth
  BY <1>1, DivMonotone
<1>. QED BY <1>2 DEF Month

-----------------------------------------------------------------------------
(* The parts of a day.  A day that is sound makes and loses no money, keeps *)
(* to the cap, and stays within the limits for what it buys.               *)

Capped(b) == Cardinality(Open(b)) <= MaxPositions

Sound(b, c) == c \in Ledger /\ Equity(c) = Equity(b) /\ (Capped(b) => Capped(c))

Limited(b, c, repeated) ==
  \A t \in Tickers : c.held[t] > b.held[t] =>
    /\ repeated = {} => MinCash(Equity(c)) <= c.cash
    /\ t \notin repeated => c.held[t] <= MaxValue(Equity(c))

LEMMA FewerOpen ==
  ASSUME NEW S \in SUBSET Tickers, NEW T \in SUBSET S, Cardinality(S) <= MaxPositions
  PROVE  Cardinality(T) <= MaxPositions
<1>1. IsFiniteSet(S) /\ IsFiniteSet(T) /\ Cardinality(T) <= Cardinality(S)
  BY FS_Subset, Percentages
<1>2. Cardinality(S) \in Nat /\ Cardinality(T) \in Nat
  BY <1>1, FS_CardinalityType
<1>. QED BY <1>1, <1>2, Percentages

LEMMA FundedTyped ==
  ASSUME TypeOK
  PROVE  Funded \in Ledger /\ Open(Funded) = Open(pf)
<1>1. pf \in Ledger /\ pf.cash \in Nat /\ Allowance \in Nat
  BY Constants DEF TypeOK, Ledger, Holdings
<1> DEFINE paid == [pf EXCEPT !.cash = @ + Allowance]
<1>2. paid \in Ledger /\ paid.held = pf.held
  BY <1>1 DEF Ledger
<1>3. Open(paid) = Open(pf)
  BY <1>2 DEF Open
<1>4. Funded \in {paid, pf}
  BY DEF Funded
<1>. QED BY <1>1, <1>2, <1>3, <1>4

LEMMA SoldOutSound ==
  ASSUME NEW b \in Ledger, NEW names \in SUBSET Tickers, NEW c, c = SoldOut(b, names)
  PROVE  Sound(b, c) /\ Open(c) \subseteq Open(b)
<1> DEFINE kept == [t \in Tickers |-> IF t \in names THEN 0 ELSE b.held[t]]
           won == Total(b.held, names)
<1>1. b.held \in [Tickers -> Nat] /\ b.cash \in Nat
  BY LedgerTyped
<1>2. c = [cash |-> b.cash + won, held |-> kept]
  BY DEF SoldOut, Total
<1>3. kept \in [Tickers -> Nat]
  BY <1>1
<1>4. /\ won \in Nat /\ Total(kept, Tickers) \in Nat
      /\ Total(b.held, Tickers) = won + Total(kept, Tickers)
  BY <1>1, TotalOfParts, Percentages
<1>5. \A t \in Tickers : kept[t] > 0 => b.held[t] > 0
  OBVIOUS
<1>. HIDE DEF kept, won
<1>6. c \in Ledger /\ c.cash = b.cash + won /\ c.held = kept
  BY <1>1, <1>2, <1>3, <1>4 DEF Ledger, Holdings
<1>7. Equity(c) = Equity(b)
  <2>1. Equity(c) = c.cash + Total(c.held, Tickers) /\ Equity(b) = b.cash + Total(b.held, Tickers)
    BY <1>6, LedgerTyped
  <2>. QED BY <1>1, <1>4, <1>6, <2>1
<1>8. Open(c) \subseteq Open(b) /\ Open(b) \in SUBSET Tickers
  BY <1>5, <1>6 DEF Open
<1>. QED BY <1>6, <1>7, <1>8, FewerOpen DEF Sound, Capped

\* The sells of a day only reduce.
LEMMA SellsSound ==
  ASSUME NEW b \in Ledger, NEW trades \in Seq(Proposal), \A i \in DOMAIN trades : trades[i].side = "SELL",
         NEW c, c = Executed(b, trades)
  PROVE  Sound(b, c) /\ \A t \in Tickers : c.held[t] <= b.held[t]
<1>1. trades \in Seq({p \in Proposal : p.side = "BUY" => p.ticker \in {}})
  <2>1. \A i \in 1..Len(trades) : trades[i] \in {p \in Proposal : p.side = "BUY" => p.ticker \in {}}
    OBVIOUS
  <2>. QED BY <2>1
<1>2. c \in Ledger /\ Equity(c) = Equity(b) /\ Open(c) \subseteq Open(b)
  <2>1. c \in Reached(b, {})
    BY <1>1, ExecutedEffect
  <2>. QED BY <2>1 DEF Reached
<1>3. Open(b) \in SUBSET Tickers
  BY DEF Open
<1>4. ASSUME NEW t \in Tickers PROVE c.held[t] <= b.held[t]
  <2>1. c.held[t] <= b.held[t] + 0
    BY ExecutedOn
  <2>. QED BY <2>1, LedgerTyped
<1>. QED BY <1>2, <1>3, <1>4, FewerOpen DEF Sound, Capped

\* Trades on offer for a book: they leave its cap, and what is set aside for
\* them, B, its buffer and the largest position.
Offered(b, trades, B, names) ==
  /\ trades \in Seq({p \in Proposal : p.side = "BUY" => p.ticker \in names})
  /\ names \in SUBSET Tickers
  /\ Capped(b) => Cardinality(Open(b) \cup names) <= MaxPositions
  /\ B \in Holdings /\ Within(trades, B) /\ Affordable(B, b.cash, Equity(b), b.held)
  /\ \A t \in Tickers : B[t] > 0 => t \in TickersOf(trades)

LEMMA NothingOffered ==
  ASSUME NEW b \in Ledger
  PROVE  Offered(b, <<>>, Nothing, {})
<1>1. Nothing \in Holdings /\ \A t \in Tickers : Nothing[t] = 0
  BY DEF Nothing, Holdings
<1>2. Open(b) \cup {} = Open(b)
  OBVIOUS
<1>. QED BY <1>1, <1>2 DEF Offered, Within, Affordable, Capped

\* The engine's proposals.
LEMMA ProposalsOffered ==
  ASSUME NEW b \in Ledger, NEW m, IsMarket(m)
  PROVE  \E B, names : Offered(b, Propose(b, m), B, names)
<1> DEFINE names == TickersOf(Buys(b, m))
<1>1. PICK B \in Holdings :
        /\ Within(Propose(b, m), B) /\ Affordable(B, b.cash, Equity(b), b.held)
        /\ \A t \in Tickers : B[t] > 0 => t \in TickersOf(Propose(b, m))
  BY ProposeReserves
<1>2. Propose(b, m) \in Seq({p \in Proposal : p.side = "BUY" => p.ticker \in names})
  <2>1. Sells(b, m) \in Seq({p \in Proposal : p.side = "SELL" /\ p.ticker \in Exits(b, m)})
    BY SellsTyped
  <2>2. Sells(b, m) \in Seq({p \in Proposal : p.side = "BUY" => p.ticker \in names})
    BY <2>1, WiderSeq
  <2>3. Buys(b, m) \in Seq({p \in Proposal : p.side = "BUY" => p.ticker \in names})
    <3> DEFINE buys == Buys(b, m)
    <3>1. buys \in Seq(Purchase)
      BY BuysFit
    <3>. HIDE DEF buys
    <3>2. \A i \in 1..Len(buys) : buys[i] \in Proposal /\ buys[i].ticker \in TickersOf(buys)
      BY <3>1 DEF TickersOf, Purchase
    <3>3. names = TickersOf(buys)
      BY DEF buys
    <3>4. buys \in Seq({p \in Proposal : p.side = "BUY" => p.ticker \in names})
      BY <3>1, <3>2, <3>3
    <3>. QED BY <3>4 DEF buys
  <2>. HIDE DEF names
  <2>. QED BY <2>2, <2>3 DEF Propose
<1>3. Capped(b) => Cardinality(Open(b) \cup names) <= MaxPositions
  BY BuysFit DEF Capped
<1>4. names \in SUBSET Tickers
  <2>1. Buys(b, m) \in Seq(Purchase)
    BY BuysFit
  <2>. QED BY <2>1 DEF TickersOf, Purchase, Proposal
<1>. HIDE DEF names
<1>5. Offered(b, Propose(b, m), B, names)
  BY <1>1, <1>2, <1>3, <1>4 DEF Offered
<1>. QED BY <1>5

\* All or some of what is on offer, executed.
LEMMA OfferSound ==
  ASSUME NEW b \in Ledger, NEW proposals, NEW B, NEW names, Offered(b, proposals, B, names),
         NEW S, NEW trades, trades \in {proposals, Kept(proposals, S)},
         NEW c, c = Executed(b, trades)
  PROVE  Sound(b, c) /\ \A t \in Tickers : c.held[t] <= b.held[t] + B[t]
<1> DEFINE Offer == {p \in Proposal : p.side = "BUY" => p.ticker \in names}
<1>1. /\ proposals \in Seq(Offer) /\ B \in Holdings /\ Within(proposals, B)
      /\ names \in SUBSET Tickers /\ (Capped(b) => Cardinality(Open(b) \cup names) <= MaxPositions)
  BY DEF Offered
<1>2. proposals \in Seq(Proposal)
  BY <1>1, WiderSeq
<1>3. trades \in Seq(Offer)
  <2>. HIDE DEF Offer
  <2>. QED BY <1>1, KeptOfSame
<1>4. trades \in Seq(Proposal) /\ Within(trades, B)
  BY <1>1, <1>2, KeptOfSame, KeptWithin
<1>5. \A t \in Tickers : c.held[t] <= b.held[t] + B[t]
  BY <1>1, <1>4, ExecutedWithin
<1>6. c \in Ledger /\ Equity(c) = Equity(b) /\ Open(c) \subseteq Open(b) \cup names
  BY <1>3, ExecutedEffect DEF Reached
<1>7. Open(b) \cup names \in SUBSET Tickers
  BY <1>1 DEF Open
<1>8. Sound(b, c)
  BY <1>1, <1>6, <1>7, FewerOpen DEF Sound, Capped
<1>. QED BY <1>5, <1>8

LEMMA EngineDaySound ==
  ASSUME NEW b \in Ledger, NEW m, IsMarket(m), NEW mayBuy \in BOOLEAN, NEW c, c = EngineDay(b, m, mayBuy)
  PROVE  Sound(b, c) /\ Limited(b, c, {})
<1> DEFINE sells == OfSide(Propose(b, m), "SELL")
           sold == Executed(b, sells)
           buys == OfSide(Propose(sold, m), "BUY")
<1>1. sells \in Seq(Proposal) /\ \A i \in DOMAIN sells : sells[i].side = "SELL"
  <2> DEFINE all == Propose(b, m)
             S == {p \in ToSet(all) : p.side = "SELL"}
  <2>1. all \in Seq(Proposal)
    BY ProposeTyped
  <2>. HIDE DEF all
  <2>2. Kept(all, S) \in Seq(Proposal \cap S)
    BY <2>1, KeptTyped
  <2>3. sells = Kept(all, S)
    BY DEF OfSide, all
  <2>. HIDE DEF sells, S
  <2>4. \A i \in DOMAIN sells : sells[i] \in Proposal /\ sells[i] \in S
    BY <2>2, <2>3
  <2>5. sells \in Seq(Proposal)
    BY <2>2, <2>3
  <2>. QED BY <2>4, <2>5 DEF S
<1>2. Sound(b, sold) /\ \A t \in Tickers : sold.held[t] <= b.held[t]
  <2>. HIDE DEF sells
  <2>. QED BY <1>1, SellsSound
<1>3. sold \in Ledger /\ Equity(sold) = Equity(b)
  BY <1>2 DEF Sound
<1>4. c = IF mayBuy THEN Executed(sold, buys) ELSE sold
  BY DEF EngineDay
<1>. HIDE DEF sold
<1>5. \A t \in Tickers : b.held[t] \in Nat /\ sold.held[t] \in Nat
  BY <1>3, LedgerTyped
<1>6. CASE ~mayBuy
  <2>1. c = sold
    BY <1>4, <1>6
  <2>2. Limited(b, c, {})
    BY <1>2, <1>5, <2>1 DEF Limited
  <2>. QED BY <1>2, <2>1, <2>2
<1>7. CASE mayBuy
  <2>1. c = Executed(sold, Kept(Propose(sold, m), {p \in ToSet(Propose(sold, m)) : p.side = "BUY"}))
    BY <1>4, <1>7 DEF OfSide
  <2>2. PICK B, names : Offered(sold, Propose(sold, m), B, names)
    BY <1>3, ProposalsOffered
  <2>3. /\ Sound(sold, c) /\ B \in Holdings
        /\ Affordable(B, sold.cash, Equity(sold), sold.held)
        /\ \A t \in Tickers : c.held[t] <= sold.held[t] + B[t]
    BY <1>3, <2>1, <2>2, OfferSound DEF Offered
  <2>4. c \in Ledger /\ Equity(c) = Equity(b)
    BY <1>3, <2>3 DEF Sound
  <2>5. ASSUME NEW t \in Tickers, c.held[t] > b.held[t]
        PROVE  MinCash(Equity(c)) <= c.cash /\ c.held[t] <= MaxValue(Equity(c))
    <3>1. c.held[t] \in Nat /\ B[t] \in Nat /\ b.held[t] \in Nat /\ sold.held[t] \in Nat
      BY <1>5, <2>3, <2>4, LedgerTyped DEF Holdings
    <3>2. c.held[t] <= sold.held[t] + B[t] /\ sold.held[t] <= b.held[t]
      BY <1>2, <2>3
    <3>3. B[t] > 0
      BY <2>5, <3>1, <3>2
    <3>4. MinCash(Equity(sold)) <= c.cash
      BY <1>3, <2>3, <2>4, <3>3, BufferLeft
    <3>5. sold.held[t] + B[t] <= MaxValue(Equity(sold))
      BY <2>3, <3>3 DEF Affordable
    <3>6. MaxValue(Equity(sold)) \in Nat
      BY <1>3, LedgerTyped, LimitsTyped
    <3>. QED BY <1>3, <2>4, <3>1, <3>2, <3>4, <3>5, <3>6
  <2>6. Sound(b, c)
    BY <1>2, <2>3 DEF Sound
  <2>. QED BY <2>5, <2>6 DEF Limited
<1>. QED BY <1>6, <1>7

-----------------------------------------------------------------------------
(* A reviewed day.                                                         *)

\* The book and the names counted while the LLM's own decisions are carried
\* out, which leave the excluded names alone.
Additions(b, exclude) ==
  {s \in [pf: Ledger, names: SUBSET Tickers] :
     /\ Equity(s.pf) = Equity(b) /\ Open(s.pf) \subseteq s.names
     /\ Capped(b) => Cardinality(s.names) <= MaxPositions
     /\ \A t \in Tickers : t \in exclude => s.pf.held[t] = b.held[t]}

Adds(s, d, budget, r) ==
  /\ \A t \in Tickers \ {d.ticker} : r.pf.held[t] = s.pf.held[t]
  /\ d.action # "BUY" => r.pf.held[d.ticker] <= s.pf.held[d.ticker]
  /\ d.action = "BUY" => r.pf.held[d.ticker] <= s.pf.held[d.ticker] + budget[d.ticker]

LEMMA AddedEffect ==
  ASSUME NEW b \in Ledger, NEW exclude, NEW budget \in Holdings, NEW s \in Additions(b, exclude),
         NEW d \in Answer, NEW r, r = Added(s, d, exclude, budget)
  PROVE  r \in Additions(b, exclude) /\ Adds(s, d, budget, r)
<1> DEFINE t == d.ticker
<1>1. /\ t \in Tickers /\ d.size \in Nat /\ budget[t] \in Nat /\ d.action \in Actions
      /\ s.pf \in Ledger /\ s.names \in SUBSET Tickers /\ s.pf.held[t] \in Nat
  <2>1. s.pf \in Ledger /\ s.names \in SUBSET Tickers
    BY DEF Additions
  <2>. QED BY <2>1, LedgerTyped DEF Answer, Holdings
<1>2. /\ Equity(s.pf) = Equity(b) /\ Open(s.pf) \subseteq s.names
      /\ Capped(b) => Cardinality(s.names) <= MaxPositions
      /\ \A u \in Tickers : u \in exclude => s.pf.held[u] = b.held[u]
  BY DEF Additions
<1>3. CASE d.action = "SELL" /\ setup.strategy = "llm" /\ t \notin exclude
  <2> DEFINE c == Sell(s.pf, t, d.size)
  <2>1. r = [s EXCEPT !.pf = c]
    BY <1>3 DEF Added
  <2>2. /\ c \in Ledger /\ Equity(c) = Equity(s.pf) /\ Open(c) \subseteq Open(s.pf)
        /\ c.held[t] <= s.pf.held[t] /\ \A u \in Tickers \ {t} : c.held[u] = s.pf.held[u]
    <3> DEFINE p == s.pf
               size == d.size
    <3>1. c = Sell(p, t, size) /\ p \in Ledger /\ t \in Tickers /\ size \in Nat
      BY <1>1
    <3>. HIDE DEF c, p, t, size
    <3>2. /\ c \in Ledger /\ Equity(c) = Equity(p) /\ Open(c) \subseteq Open(p)
          /\ c.held[t] <= p.held[t] /\ \A u \in Tickers \ {t} : c.held[u] = p.held[u]
      BY <3>1, SellEffect
    <3>. QED BY <3>2 DEF p
  <2>. HIDE DEF c
  <2>3. r.pf = c /\ r.names = s.names /\ r \in [pf: Ledger, names: SUBSET Tickers]
    BY <1>1, <2>1, <2>2 DEF Additions
  <2>4. r \in Additions(b, exclude)
    BY <1>2, <1>3, <2>2, <2>3 DEF Additions
  <2>5. Adds(s, d, budget, r)
    BY <1>3, <2>2, <2>3 DEF Adds
  <2>. QED BY <2>4, <2>5
<1>4. CASE d.action = "BUY" /\ budget[t] > 0 /\ t \notin exclude /\ AdditionFits(s, t)
  <2> DEFINE c == Buy(s.pf, t, budget[t])
             names == s.names \cup {t}
  <2>1. r = [pf |-> c, names |-> names]
    BY <1>4 DEF Added
  <2>2. /\ c \in Ledger /\ Equity(c) = Equity(s.pf) /\ Open(c) \subseteq Open(s.pf) \cup {t}
        /\ c.held[t] <= s.pf.held[t] + budget[t] /\ \A u \in Tickers \ {t} : c.held[u] = s.pf.held[u]
    <3> DEFINE p == s.pf
               size == budget[t]
    <3>1. c = Buy(p, t, size) /\ p \in Ledger /\ t \in Tickers /\ size \in Nat
      BY <1>1
    <3>. HIDE DEF c, p, t, size
    <3>2. /\ c \in Ledger /\ Equity(c) = Equity(p) /\ Open(c) \subseteq Open(p) \cup {t}
          /\ c.held[t] <= p.held[t] + size /\ \A u \in Tickers \ {t} : c.held[u] = p.held[u]
      BY <3>1, BuyEffect
    <3>. QED BY <3>2 DEF p, size
  <2>. HIDE DEF c
  <2>3. r.pf = c /\ r.names = names /\ r \in [pf: Ledger, names: SUBSET Tickers]
    BY <1>1, <2>1, <2>2
  <2>4. Capped(b) => Cardinality(names) <= MaxPositions
    <3>1. Cardinality(s.names) < MaxPositions \/ t \in s.names
      BY <1>4 DEF AdditionFits
    <3>2. CASE t \in s.names
      <4>1. names = s.names
        BY <3>2
      <4>. QED BY <1>2, <4>1
    <3>3. CASE t \notin s.names
      <4>1. IsFiniteSet(s.names)
        BY <1>1, FS_Subset, Percentages
      <4>2. Cardinality(names) = Cardinality(s.names) + 1 /\ Cardinality(s.names) \in Nat
        BY <3>3, <4>1, FS_AddElement, FS_CardinalityType
      <4>. HIDE DEF names
      <4>. QED BY <3>1, <3>3, <4>2, Percentages
    <3>. QED BY <3>2, <3>3
  <2>5. r \in Additions(b, exclude)
    BY <1>2, <1>4, <2>2, <2>3, <2>4 DEF Additions
  <2>6. Adds(s, d, budget, r)
    BY <1>4, <2>2, <2>3 DEF Adds
  <2>. QED BY <2>5, <2>6
<1>5. CASE /\ ~(d.action = "SELL" /\ setup.strategy = "llm" /\ t \notin exclude)
           /\ ~(d.action = "BUY" /\ budget[t] > 0 /\ t \notin exclude /\ AdditionFits(s, t))
  <2>1. r = s
    BY <1>5 DEF Added
  <2>2. s.pf.held[t] <= s.pf.held[t] + budget[t] /\ s.pf.held[t] <= s.pf.held[t]
    BY <1>1
  <2>3. Adds(s, d, budget, r)
    BY <2>1, <2>2 DEF Adds
  <2>. QED BY <2>1, <2>3
<1>. QED BY <1>3, <1>4, <1>5

AddRun(g, b, decisions, exclude, budget) ==
  /\ g \in [0..Len(decisions) -> Additions(b, exclude)]
  /\ g[0] = [pf |-> b, names |-> Open(b)]
  /\ g[Len(decisions)].pf = WithAdditions(b, decisions, exclude)
  /\ \A k \in 1..Len(decisions) : g[k] = Added(g[k - 1], decisions[k], exclude, budget)

LEMMA AddRuns ==
  ASSUME NEW b \in Ledger, NEW decisions \in Seq(Answer), NEW exclude, NEW budget \in Holdings,
         budget = Plan(decisions, exclude, b.cash, Equity(b), b.held)
  PROVE  \E g : AddRun(g, b, decisions, exclude, budget)
<1> DEFINE A == Additions(b, exclude)
           T == Answer
           q == decisions
           n == Len(q)
           base == [pf |-> b, names |-> Open(b)]
           op(s, x) == Added(s, x, exclude, budget)
           F == [p \in A \X T |-> op(p[1], p[2])]
           Solves(h) == h = [s \in SUBSET (DOMAIN q) |->
                               IF s = {} THEN base ELSE op(h[s \ {Max(s)}], q[Max(s)])]
           h == CHOOSE g : Solves(g)
<1>1. n \in Nat /\ q \in [1..n -> T] /\ DOMAIN q = 1..n /\ base \in A
  <2>1. base \in [pf: Ledger, names: SUBSET Tickers] /\ base.pf = b /\ base.names = Open(b)
    BY DEF Open
  <2>. HIDE DEF base
  <2>2. base \in A
    BY <2>1 DEF Additions, Capped
  <2>. QED BY <2>2
<1>2. ASSUME NEW s \in A, NEW x \in T PROVE op(s, x) \in A
  BY AddedEffect
<1>3. WithAdditions(b, decisions, exclude) = h[DOMAIN q].pf
  BY DEF WithAdditions, FoldLeft, MapThenFoldSet
<1>4. F \in [A \X T -> A] /\ \A s \in A, x \in T : F[<<s, x>>] = op(s, x)
  BY <1>2
<1>. HIDE DEF F, n, A, T, q, op, base
<1>5. Foldable(A, T, F, n, q, base)
  BY <1>1, <1>4 DEF Foldable
<1>6. Solves(h)
  <2>1. PICK g : RunsFold(g, A, T, F, n, q, base)
    BY <1>5, FoldSolved
  <2>2. \A s \in SUBSET (1..n) : g[s] = IF s = {} THEN base ELSE op(g[s \ {Max(s)}], q[Max(s)])
    BY <1>4, <2>1 DEF RunsFold
  <2>3. Solves(g)
    BY <1>1, <2>1, <2>2 DEF RunsFold
  <2>. QED BY <2>3
<1>. HIDE DEF h
<1>7. h[{}] = base /\ \A s \in SUBSET (1..n) : s # {} => h[s] = op(h[s \ {Max(s)}], q[Max(s)])
  BY <1>1, <1>6
<1>8. FoldedBy(h, A, F, n, q, base)
  <2>1. ASSUME NEW s \in SUBSET (1..n), s # {}, h[s \ {Max(s)}] \in A
        PROVE  h[s] = F[<<h[s \ {Max(s)}], q[Max(s)]>>]
    BY <1>1, <1>4, <1>7, <2>1, LastOfPart
  <2>. QED BY <1>7, <2>1 DEF FoldedBy
<1>9. PICK g : StepsOf(g, A, T, F, n, q, base) /\ g[n] = h[1..n]
  BY <1>5, <1>8, FoldRuns
<1>10. /\ g \in [0..n -> A] /\ g[0] = base
       /\ \A k \in 1..n : g[k - 1] \in A /\ q[k] \in T /\ g[k] = op(g[k - 1], q[k])
  BY <1>4, <1>9 DEF StepsOf
<1>11. g[n].pf = WithAdditions(b, decisions, exclude)
  BY <1>1, <1>3, <1>9
<1>. QED BY <1>10, <1>11 DEF AddRun, A, n, q, op, base

LEMMA AdditionsSound ==
  ASSUME NEW b \in Ledger, NEW decisions \in Seq(Answer), NEW exclude,
         NEW c, c = WithAdditions(b, decisions, exclude)
  PROVE  /\ Sound(b, c)
         /\ \A t \in Tickers : t \in exclude => c.held[t] = b.held[t]
         /\ \E B \in Holdings :
              /\ Affordable(B, b.cash, Equity(b), b.held)
              /\ \A t \in Tickers \ Repeated(decisions, exclude) : c.held[t] <= b.held[t] + B[t]
              /\ \A t \in Tickers : t \in exclude => B[t] = 0
<1> DEFINE B == Plan(decisions, exclude, b.cash, Equity(b), b.held)
           n == Len(decisions)
<1>1. B \in Holdings /\ Affordable(B, b.cash, Equity(b), b.held) /\ \A t \in Tickers : t \in exclude => B[t] = 0
  <2>1. b.cash \in Nat /\ Equity(b) \in Nat /\ b.held \in Holdings
    BY LedgerTyped DEF Holdings
  <2> DEFINE cash == b.cash
             equity == Equity(b)
             held == b.held
  <2>2. B = Plan(decisions, exclude, cash, equity, held) /\ cash \in Nat /\ equity \in Nat /\ held \in Holdings
    BY <2>1
  <2>. HIDE DEF B, cash, equity, held
  <2>3. B \in Holdings /\ Affordable(B, cash, equity, held) /\ \A t \in Tickers : t \in exclude => B[t] = 0
    BY <2>2, PlanFits
  <2>. QED BY <2>3 DEF cash, equity, held
<1>2. PICK g : AddRun(g, b, decisions, exclude, B)
  BY <1>1, AddRuns
<1>3. n \in Nat /\ DOMAIN decisions = 1..n /\ \A k \in 1..n : decisions[k] \in Answer
  OBVIOUS
<1>. HIDE DEF B
<1>4. /\ g \in [0..n -> Additions(b, exclude)] /\ g[0].pf = b /\ g[n].pf = c
      /\ \A k \in 1..n : g[k] = Added(g[k - 1], decisions[k], exclude, B)
  BY <1>2 DEF AddRun
<1>. HIDE DEF n
<1>5. Sound(b, c) /\ \A t \in Tickers : t \in exclude => c.held[t] = b.held[t]
  <2>1. n \in 0..n
    BY <1>3
  <2>2. g[n] \in Additions(b, exclude)
    BY <1>4, <2>1
  <2>3. /\ c \in Ledger /\ Equity(c) = Equity(b) /\ Open(c) \subseteq g[n].names /\ g[n].names \in SUBSET Tickers
        /\ Capped(b) => Cardinality(g[n].names) <= MaxPositions
        /\ \A t \in Tickers : t \in exclude => c.held[t] = b.held[t]
    BY <1>4, <2>2 DEF Additions
  <2>. QED BY <2>3, FewerOpen DEF Sound, Capped
<1>6. ASSUME NEW t \in Tickers \ Repeated(decisions, exclude), t \notin exclude
      PROVE  c.held[t] <= b.held[t] + B[t]
  <2> DEFINE size(k) == g[k].pf.held[t]
             Buying(k) == decisions[k].ticker = t /\ decisions[k].action = "BUY"
             I == {k \in 0..n : size(k) <= b.held[t] + B[t] /\ ((\A i \in 1..k : ~Buying(i)) => size(k) <= b.held[t])}
  <2>1. (\A k \in 0..n : size(k) \in Nat) /\ b.held[t] \in Nat /\ B[t] \in Nat
    <3>1. \A k \in 0..n : g[k].pf \in Ledger
      BY <1>4 DEF Additions
    <3>. QED BY <1>1, <3>1, LedgerTyped DEF Holdings
  <2>2. 0 \in I
    BY <1>3, <1>4, <2>1
  <2>3. ASSUME NEW k \in 1..n, k - 1 \in I PROVE k \in I
    <3>1. k \in 0..n /\ k - 1 \in 0..n
      BY <1>3
    <3>2. Adds(g[k - 1], decisions[k], B, g[k])
      <4>1. g[k - 1] \in Additions(b, exclude) /\ decisions[k] \in Answer
        BY <1>3, <1>4, <3>1
      <4>. QED BY <1>1, <1>4, <4>1, AddedEffect
    <3>3. size(k) = size(k - 1) \/ size(k) <= size(k - 1) \/ (Buying(k) /\ size(k) <= size(k - 1) + B[t])
      BY <3>2 DEF Adds
    <3>4. /\ size(k - 1) <= b.held[t] + B[t] /\ size(k - 1) \in Nat /\ size(k) \in Nat
          /\ (\A i \in 1..(k - 1) : ~Buying(i)) => size(k - 1) <= b.held[t]
      BY <2>1, <2>3, <3>1
    <3>. HIDE DEF size
    <3>5. CASE Buying(k)
      <4>1. \A i \in 1..(k - 1) : ~Buying(i)
        <5>1. \A i \in 1..(k - 1) : i \in DOMAIN decisions /\ i # k
          BY <1>3
        <5>2. \A i \in 1..(k - 1) : i < k
          BY <1>3
        <5>. QED BY <1>3, <1>6, <3>5, <5>1, <5>2 DEF Repeated
      <4>2. k \in 1..k
        BY <1>3
      <4>. QED BY <2>1, <3>1, <3>3, <3>4, <3>5, <4>1, <4>2
    <3>6. CASE ~Buying(k)
      <4>1. size(k) <= size(k - 1)
        BY <3>3, <3>4, <3>6
      <4>2. 1..(k - 1) \subseteq 1..k
        BY <1>3
      <4>. QED BY <2>1, <3>1, <3>4, <4>1, <4>2
    <3>. QED BY <3>5, <3>6
  <2>4. \A k \in 0..n : k \in I
    <3>. HIDE DEF I
    <3>. QED BY <1>3, <2>2, <2>3, UpTo
  <2>5. n \in 0..n
    BY <1>3
  <2>. QED BY <1>4, <2>4, <2>5
<1>7. ASSUME NEW t \in Tickers, t \in exclude
      PROVE  c.held[t] <= b.held[t] + B[t]
  <2>1. c.held[t] = b.held[t] /\ b.held[t] \in Nat /\ B[t] = 0
    BY <1>1, <1>5, <1>7, LedgerTyped
  <2>. QED BY <2>1
<1>. QED BY <1>1, <1>5, <1>6, <1>7

LEMMA SpentWithin ==
  ASSUME NEW b \in Ledger, NEW c, Sound(b, c), NEW B \in Holdings,
         Affordable(B, b.cash, Equity(b), b.held), \A t \in Tickers : c.held[t] <= b.held[t] + B[t]
  PROVE  \A repeated : Limited(b, c, repeated)
<1>1. c \in Ledger /\ Equity(c) = Equity(b)
  BY DEF Sound
<1>2. ASSUME NEW t \in Tickers, c.held[t] > b.held[t]
      PROVE  MinCash(Equity(c)) <= c.cash /\ c.held[t] <= MaxValue(Equity(c))
  <2>1. c.held[t] \in Nat /\ B[t] \in Nat /\ b.held[t] \in Nat /\ MaxValue(Equity(b)) \in Nat
    BY <1>1, LedgerTyped, LimitsTyped DEF Holdings
  <2>2. B[t] > 0
    BY <1>2, <2>1
  <2>3. MinCash(Equity(b)) <= c.cash
    BY <1>1, <2>2, BufferLeft
  <2>4. b.held[t] + B[t] <= MaxValue(Equity(b))
    BY <2>2 DEF Affordable
  <2>. QED BY <1>1, <2>1, <2>3, <2>4
<1>. QED BY <1>2 DEF Limited

LEMMA ReviewedDaySound ==
  ASSUME NEW b \in Ledger, NEW proposals, NEW B, NEW names, Offered(b, proposals, B, names),
         NEW decisions \in Seq(Answer), NEW c, c = ReviewedDay(b, proposals, decisions)
  PROVE  Sound(b, c) /\ Limited(b, c, Repeated(decisions, TickersOf(proposals)))
<1>1. CASE decisions = <<>>
  <2>1. c = Executed(b, proposals)
    BY <1>1 DEF ReviewedDay
  <2>2. Sound(b, c) /\ \A t \in Tickers : c.held[t] <= b.held[t] + B[t]
    BY <2>1, OfferSound
  <2>. QED BY <2>2, SpentWithin DEF Offered
<1>2. CASE decisions # <<>>
  <2> DEFINE exclude == TickersOf(proposals)
             d == Executed(b, Approved(proposals, decisions))
             R == Repeated(decisions, exclude)
  <2>1. c = WithAdditions(d, decisions, exclude)
    BY <1>2 DEF ReviewedDay
  <2>2. Sound(b, d) /\ \A t \in Tickers : d.held[t] <= b.held[t] + B[t]
    BY OfferSound DEF Approved
  <2>3. d \in Ledger /\ Equity(d) = Equity(b)
    BY <2>2 DEF Sound
  <2>4. /\ B \in Holdings /\ Affordable(B, b.cash, Equity(b), b.held)
        /\ \A t \in Tickers : B[t] > 0 => t \in exclude
    BY DEF Offered
  <2>. HIDE DEF d, exclude
  <2>5. Sound(d, c) /\ \A t \in Tickers : t \in exclude => c.held[t] = d.held[t]
    BY <2>1, <2>3, AdditionsSound
  <2>6. c \in Ledger /\ Equity(c) = Equity(b) /\ Sound(b, c)
    BY <2>2, <2>3, <2>5 DEF Sound
  <2>7. PICK A \in Holdings :
          /\ Affordable(A, d.cash, Equity(d), d.held)
          /\ \A u \in Tickers \ R : c.held[u] <= d.held[u] + A[u]
          /\ \A u \in Tickers : u \in exclude => A[u] = 0
    BY <2>1, <2>3, AdditionsSound
  <2>. HIDE DEF R
  <2>8. ASSUME NEW t \in Tickers
        PROVE  /\ b.held[t] \in Nat /\ c.held[t] \in Nat /\ d.held[t] \in Nat /\ A[t] \in Nat /\ B[t] \in Nat
               /\ b.cash \in Nat /\ c.cash \in Nat /\ d.cash \in Nat
               /\ MinCash(Equity(b)) \in Nat /\ MaxValue(Equity(b)) \in Nat
    BY <2>3, <2>4, <2>6, <2>7, LedgerTyped, LimitsTyped DEF Holdings
  <2>9. ASSUME NEW t \in Tickers, c.held[t] > b.held[t], t \in exclude
        PROVE  B[t] > 0 /\ c.held[t] <= MaxValue(Equity(c))
    <3>1. c.held[t] = d.held[t] /\ d.held[t] <= b.held[t] + B[t]
      BY <2>2, <2>5, <2>9
    <3>2. B[t] > 0
      BY <2>8, <2>9, <3>1
    <3>3. b.held[t] + B[t] <= MaxValue(Equity(b))
      BY <2>4, <3>2 DEF Affordable
    <3>. QED BY <2>6, <2>8, <3>1, <3>2, <3>3
  <2>10. ASSUME NEW t \in Tickers \ R, c.held[t] > b.held[t], t \notin exclude
         PROVE  A[t] > 0 /\ c.held[t] <= MaxValue(Equity(c))
    <3>1. B[t] = 0 /\ d.held[t] <= b.held[t]
      <4>1. ~(B[t] > 0) /\ d.held[t] <= b.held[t] + B[t]
        BY <2>2, <2>4, <2>10
      <4>. QED BY <2>8, <4>1
    <3>2. c.held[t] <= d.held[t] + A[t]
      BY <2>7
    <3>3. A[t] > 0
      BY <2>8, <2>10, <3>1, <3>2
    <3>4. d.held[t] + A[t] <= MaxValue(Equity(b))
      BY <2>3, <2>7, <3>3 DEF Affordable
    <3>. QED BY <2>6, <2>8, <3>2, <3>3, <3>4
  <2>11. ASSUME R = {}, NEW t \in Tickers, c.held[t] > b.held[t]
         PROVE  MinCash(Equity(c)) <= c.cash
    <3>1. \A u \in Tickers : c.held[u] <= d.held[u] + A[u]
      BY <2>7, <2>11
    <3>2. ASSUME NEW u \in Tickers, A[u] > 0 PROVE MinCash(Equity(b)) <= c.cash
      <4>1. MinCash(Equity(d)) <= c.cash
        BY <2>3, <2>6, <2>7, <3>1, <3>2, BufferLeft
      <4>. QED BY <2>3, <4>1
    <3>3. CASE \A u \in Tickers : A[u] = 0
      <4>1. t \in exclude
        BY <2>10, <2>11, <3>3
      <4>2. MinCash(Equity(b)) <= d.cash
        BY <2>2, <2>3, <2>4, <2>9, <2>11, <4>1, BufferLeft
      <4>3. Total(A, Tickers) = 0
        BY <3>3, Percentages, TotalZero DEF Holdings
      <4>4. d.cash <= c.cash + Total(A, Tickers)
        BY <2>3, <2>6, <2>7, <3>1, BufferLeft
      <4>. QED BY <2>6, <2>8, <4>2, <4>3, <4>4
    <3>4. CASE \E u \in Tickers : A[u] # 0
      <4>1. PICK u \in Tickers : A[u] # 0
        BY <3>4
      <4>2. A[u] > 0
        BY <2>8, <4>1
      <4>. QED BY <2>6, <3>2, <4>2
    <3>. QED BY <3>3, <3>4
  <2>12. Limited(b, c, R)
    BY <2>9, <2>10, <2>11 DEF Limited
  <2>. QED BY <2>6, <2>12 DEF R, exclude
<1>. QED BY <1>1, <1>2

\* A vetoed trade is not made, and the LLM's own decisions do not touch its
\* name.
LEMMA VetoFits ==
  ASSUME NEW b \in Ledger, NEW proposals, NEW B, NEW names, Offered(b, proposals, B, names),
         NEW decisions \in Seq(Answer), decisions # <<>>,
         NEW c, c = ReviewedDay(b, proposals, decisions),
         NEW p \in Vetoed(proposals, decisions)
  PROVE  /\ p.ticker \in Tickers
         /\ p.side = "BUY" => c.held[p.ticker] <= b.held[p.ticker]
         /\ p.side # "BUY" => b.held[p.ticker] <= c.held[p.ticker]
<1> DEFINE exclude == TickersOf(proposals)
           trades == Approved(proposals, decisions)
           d == Executed(b, trades)
           t == p.ticker
<1>1. c = WithAdditions(d, decisions, exclude)
  BY DEF ReviewedDay
<1>2. proposals \in Seq(Proposal)
  BY WiderSeq DEF Offered
<1>3. ~Consent(p, decisions) /\ p \in Proposal /\ t \in exclude
  <2>1. p \in ToSet(proposals) /\ ~Consent(p, decisions)
    BY DEF Vetoed
  <2>2. PICK i \in DOMAIN proposals : p = proposals[i]
    BY <2>1 DEF ToSet
  <2>. QED BY <1>2, <2>1, <2>2 DEF TickersOf
<1>4. t \in Tickers /\ p.side \in {"BUY", "SELL"}
  BY <1>3 DEF Proposal
<1>5. Sound(b, d)
  BY OfferSound DEF Approved
<1>6. d \in Ledger
  BY <1>5 DEF Sound
<1>7. trades \in Seq(Proposal) /\ \A i \in DOMAIN trades : Consent(trades[i], decisions)
  <2> DEFINE K == {q \in ToSet(proposals) : Consent(q, decisions)}
  <2>1. trades = Kept(proposals, K)
    BY DEF Approved
  <2>. HIDE DEF trades, K
  <2>2. trades \in Seq(Proposal) /\ trades \in Seq(Proposal \cap K)
    BY <1>2, <2>1, KeptOfSame, KeptTyped
  <2>3. \A i \in DOMAIN trades : trades[i] \in K
    BY <2>2
  <2>. QED BY <2>2, <2>3 DEF K
<1>. HIDE DEF trades
<1>8. \A i \in DOMAIN trades : trades[i].ticker = t => trades[i].side # p.side /\ trades[i].side \in {"BUY", "SELL"}
  <2>1. Verdict(decisions, t) # "silent" /\ Verdict(decisions, t) # p.side
    BY <1>3 DEF Consent
  <2>2. ASSUME NEW i \in DOMAIN trades, trades[i].ticker = t
        PROVE  trades[i].side # p.side /\ trades[i].side \in {"BUY", "SELL"}
    <3>1. trades[i] \in Proposal /\ Verdict(decisions, trades[i].ticker) \in {"silent", trades[i].side}
      BY <1>7 DEF Consent
    <3>2. Verdict(decisions, t) = trades[i].side
      BY <2>1, <2>2, <3>1
    <3>. QED BY <2>1, <3>1, <3>2 DEF Proposal
  <2>. QED BY <2>2
<1>9. p.side = "BUY" => d.held[t] <= b.held[t]
  <2>1. ASSUME p.side = "BUY" PROVE d.held[t] <= b.held[t] + 0
    <3>. HIDE DEF t
    <3>1. \A i \in DOMAIN trades : ~(trades[i].ticker = t /\ trades[i].side = "BUY")
      BY <1>8, <2>1
    <3>. QED BY <1>4, <1>7, <3>1, ExecutedOn
  <2>. QED BY <1>4, <2>1, LedgerTyped
<1>10. p.side # "BUY" => b.held[t] <= d.held[t]
  <2>. HIDE DEF t
  <2>. QED BY <1>4, <1>7, <1>8, ExecutedUnsold
<1>. HIDE DEF d, exclude, t
<1>11. c.held[t] = d.held[t]
  BY <1>1, <1>3, <1>4, <1>6, AdditionsSound
<1>. QED BY <1>4, <1>9, <1>10, <1>11 DEF t

-----------------------------------------------------------------------------
(* The steps.                                                              *)

\* The types of what is not the book.
Ready ==
  /\ setup \in Setup /\ week \in 1..LastWeek /\ deposited \in 0..Month(LastWeek)
  /\ reviewed \in 0..week /\ riskOff \in BOOLEAN
  /\ Month(week) \in 0..Month(LastWeek) /\ week \in 0..week

LEMMA ReadyTyped ==
  ASSUME TypeOK
  PROVE  Ready /\ setup \in Setups
<1>1. setup \in Setups /\ setup \in Setup /\ week \in 1..LastWeek
  BY Constants DEF TypeOK
<1>2. Month(week) \in 0..Month(LastWeek)
  BY <1>1, MonthTyped
<1>3. week \in 0..week
  BY <1>1
<1>. QED BY <1>1, <1>2, <1>3 DEF TypeOK, Ready

\* What every day of trading establishes.
DayDone(start) ==
  /\ TypeOK' /\ VetoHolds'
  /\ Capped(pf) => Capped(pf')

LEMMA LimitsOfDay ==
  ASSUME NEW start, NEW repeated, Limited(start, pf', repeated), NEW vetoed, Ended(start, vetoed, repeated)
  PROVE  BuysKeepLimits'
<1>1. day'.bought = {t \in Tickers : pf'.held[t] > start.held[t]} /\ day'.repeated = repeated
  BY DEF Ended
<1>. QED BY <1>1 DEF Limited, BuysKeepLimits

LEMMA DeterministicStep ==
  ASSUME TypeOK, Deterministic
  PROVE  DayDone(pf) /\ BuysKeepLimits'
<1>1. PICK m \in Markets, drawdown \in Drawdowns, trailed \in Trailing :
        LET start == SoldOut(AfterBreaker(Funded, drawdown), trailed)
        IN  /\ riskOff' = Breaker(drawdown)
            /\ pf' = EngineDay(start, m, ~riskOff')
            /\ Ended(start, {}, {})
  BY DEF Deterministic
<1> DEFINE calm == AfterBreaker(Funded, drawdown)
           start == SoldOut(calm, trailed)
<1>2. /\ riskOff' = Breaker(drawdown) /\ pf' = EngineDay(start, m, ~riskOff') /\ Ended(start, {}, {})
      /\ setup' = setup /\ week' = week /\ reviewed' = reviewed
  BY <1>1 DEF Deterministic
<1>3. IsMarket(m) /\ trailed \in SUBSET Tickers
  BY Constants
<1>4. Funded \in Ledger /\ Open(Funded) = Open(pf) /\ Ready /\ setup \in Setups
  BY FundedTyped, ReadyTyped
<1>5. riskOff' \in BOOLEAN
  BY <1>2, <1>4 DEF Breaker, Ready
<1>6. calm \in Ledger /\ Open(calm) \subseteq Open(Funded)
  <2>1. calm \in {SoldOut(Funded, Tickers), Funded}
    BY DEF AfterBreaker
  <2>. HIDE DEF calm
  <2>2. CASE calm = SoldOut(Funded, Tickers)
    <3>1. Sound(Funded, calm) /\ Open(calm) \subseteq Open(Funded)
      BY <1>4, <2>2, SoldOutSound
    <3>. QED BY <3>1 DEF Sound
  <2>. QED BY <1>4, <2>1, <2>2
<1>. HIDE DEF calm
<1>7. start \in Ledger /\ Open(start) \subseteq Open(calm)
  <2>1. Sound(calm, start) /\ Open(start) \subseteq Open(calm)
    BY <1>3, <1>6, SoldOutSound
  <2>. QED BY <2>1 DEF Sound
<1>. HIDE DEF start
<1>8. Sound(start, pf') /\ Limited(start, pf', {})
  <2>1. (~riskOff') \in BOOLEAN
    OBVIOUS
  <2>. QED BY <1>2, <1>3, <1>7, <2>1, EngineDaySound
<1>9. TypeOK'
  <2>1. pf' \in [cash: Nat, held: [Tickers -> Nat]]
    BY <1>8 DEF Sound, Ledger, Holdings
  <2>2. deposited' = Month(week)
    BY <1>2 DEF Ended
  <2>. QED BY <1>2, <1>4, <1>5, <2>1, <2>2 DEF TypeOK, Ready
<1>10. Capped(pf) => Capped(pf')
  <2>1. Open(start) \subseteq Open(pf) /\ Open(pf) \in SUBSET Tickers
    BY <1>4, <1>6, <1>7 DEF Open
  <2>. QED BY <1>8, <2>1, FewerOpen DEF Sound, Capped
<1>11. VetoHolds'
  <2>1. day'.vetoed = {}
    BY <1>2 DEF Ended
  <2>. QED BY <2>1 DEF VetoHolds
<1>. QED BY <1>2, <1>8, <1>9, <1>10, <1>11, LimitsOfDay DEF DayDone

LEMMA UnreviewedStep ==
  ASSUME TypeOK, Unreviewed
  PROVE  DayDone(pf) /\ BuysKeepLimits'
<1>1. PICK m \in Markets : pf' = EngineDay(Funded, m, TRUE)
  BY DEF Unreviewed
<1>2. /\ Ended(Funded, {}, {})
      /\ setup' = setup /\ week' = week /\ reviewed' = reviewed /\ riskOff' = riskOff
  BY DEF Unreviewed
<1>3. IsMarket(m)
  BY Constants
<1>4. Funded \in Ledger /\ Open(Funded) = Open(pf) /\ Ready /\ setup \in Setups
  BY FundedTyped, ReadyTyped
<1>5. Sound(Funded, pf') /\ Limited(Funded, pf', {})
  BY <1>1, <1>3, <1>4, EngineDaySound
<1>6. TypeOK'
  <2>1. pf' \in [cash: Nat, held: [Tickers -> Nat]]
    BY <1>5 DEF Sound, Ledger, Holdings
  <2>2. deposited' = Month(week)
    BY <1>2 DEF Ended
  <2>. QED BY <1>2, <1>4, <2>1, <2>2 DEF TypeOK, Ready
<1>7. Capped(pf) => Capped(pf')
  BY <1>4, <1>5 DEF Sound, Capped
<1>8. VetoHolds'
  <2>1. day'.vetoed = {}
    BY <1>2 DEF Ended
  <2>. QED BY <2>1 DEF VetoHolds
<1>. QED BY <1>2, <1>5, <1>6, <1>7, <1>8, LimitsOfDay DEF DayDone

LEMMA ReviewedStep ==
  ASSUME TypeOK, Reviewed
  PROVE  DayDone(pf) /\ BuysKeepLimits'
<1>1. PICK m \in Markets, decisions \in Replies, failing \in Failing :
        LET proposals == IF setup.strategy = "llm" THEN <<>> ELSE Propose(Funded, m)
            heeded == setup.strategy = "hybrid" /\ decisions # <<>>
        IN  /\ ReviewDue(proposals, failing)
            /\ pf' = ReviewedDay(Funded, proposals, decisions)
            /\ Ended(Funded, IF heeded THEN Vetoed(proposals, decisions) ELSE {},
                     Repeated(decisions, TickersOf(proposals)))
  BY DEF Reviewed
<1> DEFINE proposals == IF setup.strategy = "llm" THEN <<>> ELSE Propose(Funded, m)
           vetoed == IF setup.strategy = "hybrid" /\ decisions # <<>> THEN Vetoed(proposals, decisions) ELSE {}
           repeated == Repeated(decisions, TickersOf(proposals))
<1>2. /\ pf' = ReviewedDay(Funded, proposals, decisions) /\ Ended(Funded, vetoed, repeated)
      /\ setup' = setup /\ week' = week /\ riskOff' = riskOff
      /\ reviewed' = IF setup.strategy = "hybrid" THEN week ELSE reviewed
  BY <1>1 DEF Reviewed
<1>3. IsMarket(m) /\ decisions \in Seq(Answer)
  BY Constants
<1>4. Funded \in Ledger /\ Open(Funded) = Open(pf) /\ Ready /\ setup \in Setups
  BY FundedTyped, ReadyTyped
<1>5. PICK B, names : Offered(Funded, proposals, B, names)
  <2>1. CASE setup.strategy = "llm"
    BY <1>4, <2>1, NothingOffered
  <2>2. CASE setup.strategy # "llm"
    BY <1>3, <1>4, <2>2, ProposalsOffered
  <2>. QED BY <2>1, <2>2
<1>. HIDE DEF proposals
<1>6. Sound(Funded, pf') /\ Limited(Funded, pf', repeated)
  BY <1>2, <1>3, <1>4, <1>5, ReviewedDaySound
<1>7. ASSUME NEW p \in vetoed
      PROVE  /\ p.ticker \in Tickers
             /\ p.side = "BUY" => pf'.held[p.ticker] <= Funded.held[p.ticker]
             /\ p.side # "BUY" => Funded.held[p.ticker] <= pf'.held[p.ticker]
  <2>1. decisions # <<>> /\ p \in Vetoed(proposals, decisions)
    BY <1>7
  <2>. HIDE DEF vetoed
  <2>. QED BY <1>2, <1>3, <1>4, <1>5, <2>1, VetoFits
<1>. HIDE DEF vetoed, repeated
<1>8. VetoHolds'
  <2>1. /\ day'.bought = {t \in Tickers : pf'.held[t] > Funded.held[t]}
        /\ day'.sold = {t \in Tickers : pf'.held[t] < Funded.held[t]}
        /\ day'.vetoed = {<<p.ticker, p.side>> : p \in vetoed}
    BY <1>2 DEF Ended
  <2>2. \A t \in Tickers : pf'.held[t] \in Nat /\ Funded.held[t] \in Nat
    BY <1>4, <1>6, LedgerTyped DEF Sound
  <2>3. ASSUME NEW p \in vetoed
        PROVE  p.ticker \notin (IF p.side = "BUY" THEN day'.bought ELSE day'.sold)
    BY <1>7, <2>1, <2>2
  <2>. QED BY SMTT(30), <2>1, <2>3 DEF VetoHolds
<1>9. TypeOK'
  <2>1. pf' \in [cash: Nat, held: [Tickers -> Nat]]
    BY <1>6 DEF Sound, Ledger, Holdings
  <2>2. deposited' = Month(week)
    BY <1>2 DEF Ended
  <2>. QED BY <1>2, <1>4, <2>1, <2>2 DEF TypeOK, Ready
<1>10. Capped(pf) => Capped(pf')
  BY <1>4, <1>6 DEF Sound, Capped
<1>. QED BY <1>2, <1>6, <1>8, <1>9, <1>10, LimitsOfDay DEF DayDone

\* A day off leaves nothing traded.
LEMMA QuietStep ==
  ASSUME day' = Quiet
  PROVE  BuysKeepLimits' /\ VetoHolds'
BY DEF Quiet, BuysKeepLimits, VetoHolds

LEMMA NextWeekStep ==
  ASSUME TypeOK, NextWeek
  PROVE  DayDone(pf) /\ BuysKeepLimits'
<1>1. week \in 1..LastWeek /\ LastWeek \in Nat /\ reviewed \in 0..week
  BY Constants DEF TypeOK
<1>2. week' = week + 1 /\ week < LastWeek /\ day' = Quiet /\ pf' = pf /\ reviewed' = reviewed
  BY DEF NextWeek
<1>3. week' \in 1..LastWeek /\ reviewed' \in 0..week'
  BY <1>1, <1>2
<1>4. TypeOK'
  BY <1>2, <1>3 DEF TypeOK, NextWeek
<1>5. Capped(pf) => Capped(pf')
  BY <1>2
<1>. QED BY <1>2, <1>4, <1>5, QuietStep DEF DayDone

LEMMA NightStep ==
  ASSUME TypeOK, Night
  PROVE  DayDone(pf) /\ BuysKeepLimits'
<1>1. pf \in Ledger /\ pf.cash \in Nat /\ pf.held \in [Tickers -> Nat]
  BY DEF TypeOK, Ledger, Holdings
<1>2. pf' \in Ledger /\ Open(pf') = Open(pf)
  <2>1. CASE pf' = pf
    BY <1>1, <2>1
  <2>2. ASSUME NEW t \in Open(pf), NEW v \in Nat, v > 0, pf' = [pf EXCEPT !.held[t] = v]
        PROVE  pf' \in Ledger /\ Open(pf') = Open(pf)
    <3> DEFINE moved == [pf.held EXCEPT ![t] = v]
    <3>1. t \in Tickers /\ pf.held[t] > 0
      BY DEF Open
    <3>2. pf' = [pf EXCEPT !.held = moved] /\ moved \in [Tickers -> Nat]
      BY <1>1, <2>2
    <3>3. \A u \in Tickers : moved[u] > 0 <=> pf.held[u] > 0
      BY <1>1, <2>2, <3>1
    <3>. HIDE DEF moved
    <3>4. pf' \in Ledger /\ pf'.held = moved
      BY <1>1, <3>2 DEF Ledger, Holdings
    <3>. QED BY <3>3, <3>4 DEF Open
  <2>3. ASSUME NEW t \in Open(pf),
               \/ Equity(pf) < MaxMoney /\ pf' = [pf EXCEPT !.held[t] = @ + 1]
               \/ pf.held[t] > 1 /\ pf' = [pf EXCEPT !.held[t] = @ - 1]
        PROVE  \E v \in Nat : v > 0 /\ pf' = [pf EXCEPT !.held[t] = v]
    <3>1. pf.held[t] \in Nat
      BY <1>1 DEF Open
    <3>2. CASE pf' = [pf EXCEPT !.held[t] = @ + 1]
      <4>1. pf.held[t] + 1 \in Nat /\ pf.held[t] + 1 > 0
        BY <3>1
      <4>. QED BY <3>2, <4>1
    <3>3. CASE pf.held[t] > 1 /\ pf' = [pf EXCEPT !.held[t] = @ - 1]
      <4>1. pf.held[t] - 1 \in Nat /\ pf.held[t] - 1 > 0
        BY <3>1, <3>3
      <4>. QED BY <3>3, <4>1
    <3>. QED BY <2>3, <3>2, <3>3
  <2>4. CASE pf' # pf
    <3>1. PICK t \in Open(pf) :
            \/ Equity(pf) < MaxMoney /\ pf' = [pf EXCEPT !.held[t] = @ + 1]
            \/ pf.held[t] > 1 /\ pf' = [pf EXCEPT !.held[t] = @ - 1]
      BY <2>4, Zenon DEF Night
    <3>2. \E v \in Nat : v > 0 /\ pf' = [pf EXCEPT !.held[t] = v]
      BY <2>3, <3>1
    <3>. QED BY <2>2, <3>2
  <2>. QED BY <2>1, <2>4
<1>3. TypeOK'
  BY <1>2 DEF TypeOK, Night, Ledger, Holdings
<1>4. day' = Quiet
  BY DEF Night
<1>5. Capped(pf) => Capped(pf')
  BY <1>2 DEF Capped
<1>. QED BY <1>3, <1>4, <1>5, QuietStep DEF DayDone

\* Every step.
LEMMA Steps ==
  ASSUME TypeOK, [Next]_vars
  PROVE  /\ TypeOK' /\ (Capped(pf) => Capped(pf')) /\ (VetoHolds => VetoHolds')
         /\ (BuysKeepLimits => BuysKeepLimits')
<1>1. CASE Deterministic
  BY <1>1, DeterministicStep DEF DayDone
<1>2. CASE Unreviewed
  BY <1>2, UnreviewedStep DEF DayDone
<1>3. CASE Reviewed
  BY <1>3, ReviewedStep DEF DayDone
<1>4. CASE NextWeek
  BY <1>4, NextWeekStep DEF DayDone
<1>5. CASE Night
  BY <1>5, NightStep DEF DayDone
<1>6. CASE UNCHANGED vars
  <2>1. /\ setup' = setup /\ pf' = pf /\ week' = week /\ deposited' = deposited
        /\ reviewed' = reviewed /\ riskOff' = riskOff /\ day' = day
    BY <1>6 DEF vars
  <2>2. TypeOK'
    BY <2>1 DEF TypeOK
  <2>3. VetoHolds => VetoHolds'
    BY <2>1 DEF VetoHolds
  <2>4. BuysKeepLimits => BuysKeepLimits'
    BY <2>1 DEF BuysKeepLimits
  <2>. QED BY <2>1, <2>2, <2>3, <2>4
<1>. QED BY <1>1, <1>2, <1>3, <1>4, <1>5, <1>6 DEF Next

LEMMA Starts ==
  ASSUME Init
  PROVE  TypeOK /\ PositionsCapped /\ VetoHolds /\ BuysKeepLimits
<1>1. pf.cash = 0 /\ pf.held = Nothing /\ pf = [cash |-> 0, held |-> Nothing]
  BY DEF Init
<1>2. Nothing \in [Tickers -> Nat] /\ \A t \in Tickers : Nothing[t] = 0
  BY DEF Nothing
<1>3. 1 \in 1..LastWeek /\ 0 \in 0..1
  BY Constants
<1>4. 0 \in 0..Month(LastWeek)
  <2>1. Month(1) \in 0..Month(LastWeek)
    BY <1>3, MonthTyped
  <2>2. \E k \in Int : k = Month(LastWeek)
    BY Constants DEF Month
  <2>. QED BY <2>1, <2>2
<1>5. TypeOK
  <2>1. pf \in [cash: Nat, held: [Tickers -> Nat]]
    BY <1>1, <1>2
  <2>2. week = 1 /\ deposited = 0 /\ reviewed = 0 /\ riskOff = FALSE /\ setup \in Setups
    BY DEF Init
  <2>. QED BY <1>3, <1>4, <2>1, <2>2 DEF TypeOK
<1>6. Open(pf) = {}
  BY <1>1, <1>2 DEF Open
<1>7. PositionsCapped
  BY <1>6, FS_EmptySet, Percentages DEF PositionsCapped
<1>8. VetoHolds /\ BuysKeepLimits
  BY DEF Init, Quiet, VetoHolds, BuysKeepLimits
<1>. QED BY <1>5, <1>7, <1>8

-----------------------------------------------------------------------------
(* The results.                                                            *)

\* The replay's variables keep their types: no book goes short of cash or of
\* shares, whatever the LLM answers (optimize.py:868-1235).
THEOREM TypeCorrect == Spec => []TypeOK
<1>1. Init => TypeOK
  BY Starts
<1>2. TypeOK /\ [Next]_vars => TypeOK'
  BY Steps
<1>. QED BY <1>1, <1>2, PTL DEF Spec

\* There are never more positions than the cap allows, whichever strategy is
\* replayed, on any signals and with any answers (strategy.py:271-278,
\* optimize.py:1185-1200).
THEOREM CapIsKept == Spec => []PositionsCapped
<1>1. Init => PositionsCapped
  BY Starts
<1>2. TypeOK /\ PositionsCapped /\ [Next]_vars => PositionsCapped'
  <2>1. (PositionsCapped <=> Capped(pf)) /\ (PositionsCapped' <=> Capped(pf'))
    BY DEF PositionsCapped, Capped
  <2>. QED BY <2>1, Steps
<1>. QED BY <1>1, <1>2, TypeCorrect, PTL DEF Spec

\* A vetoed trade is not made that day (strategy.py:474-500).
THEOREM VetoIsKept == Spec => []VetoHolds
<1>1. Init => VetoHolds
  BY Starts
<1>2. TypeOK /\ VetoHolds /\ [Next]_vars => VetoHolds'
  BY Steps
<1>. QED BY <1>1, <1>2, TypeCorrect, PTL DEF Spec

\* A day's buys stay within the largest position, whatever the LLM answers,
\* but for the names an answer orders to buy twice: plan_llm_buys keeps one
\* budget for a name, and each of its orders spends it.  They leave the cash
\* buffer whole on every day without such an answer (strategy.py:284-317,
\* 431-457, optimize.py:1176-1207).
THEOREM LimitsAreKept == Spec => []BuysKeepLimits
<1>1. Init => BuysKeepLimits
  BY Starts
<1>2. TypeOK /\ BuysKeepLimits /\ [Next]_vars => BuysKeepLimits'
  BY Steps
<1>. QED BY <1>1, <1>2, TypeCorrect, PTL DEF Spec
=============================================================================
