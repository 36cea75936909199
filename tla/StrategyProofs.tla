--------------------------- MODULE StrategyProofs ---------------------------
(* What the trading rules of Strategy return, for every value of the        *)
(* constants: the lemmas that the proofs about the simulation and about the *)
(* replay share.                                                            *)
EXTENDS Strategy, FiniteLemmas

-----------------------------------------------------------------------------
(* Books and limits.                                                       *)

LEMMA Percentages ==
  /\ IsFiniteSet(Tickers)
  /\ FloorPct \in Nat /\ PositionPct \in Nat /\ FloorPct <= 100 /\ PositionPct <= 100
  /\ MaxPositions \in Nat /\ MaxPositions >= 1 /\ RelaxedLimit \in Nat
BY StrategyAssumption

LEMMA LedgerTyped ==
  ASSUME NEW b \in Ledger
  PROVE  /\ b.cash \in Nat /\ b.held \in [Tickers -> Nat]
         /\ Invested(b) = Total(b.held, Tickers) /\ Invested(b) \in Nat
         /\ Equity(b) = b.cash + Total(b.held, Tickers) /\ Equity(b) \in Nat
         /\ IsFiniteSet(Open(b)) /\ Open(b) \subseteq Tickers
<1>1. b.cash \in Nat /\ b.held \in [Tickers -> Nat]
  BY DEF Ledger, Holdings
<1>2. Invested(b) = Total(b.held, Tickers)
  BY DEF Invested, Total
<1>3. Total(b.held, Tickers) \in Nat
  BY <1>1, TotalType, Percentages
<1>4. Open(b) \subseteq Tickers
  BY DEF Open
<1>5. IsFiniteSet(Open(b))
  BY <1>4, FS_Subset, Percentages
<1>. QED BY <1>1, <1>2, <1>3, <1>4, <1>5 DEF Equity

LEMMA LimitsTyped ==
  ASSUME NEW equity \in Nat
  PROVE  MinCash(equity) \in Nat /\ MaxValue(equity) \in Nat /\ MaxValue(equity) <= equity
<1>1. equity * FloorPct \in Nat /\ equity * PositionPct \in Nat
  BY Percentages
<1>2. equity * PositionPct <= equity * 100
  <2>1. 100 - PositionPct \in Nat
    BY Percentages
  <2>2. equity * (100 - PositionPct) \in Nat
    BY <2>1
  <2>3. equity * (100 - PositionPct) = equity * 100 - equity * PositionPct
    BY Percentages
  <2>. QED BY <1>1, <2>2, <2>3
<1> DEFINE floor == equity * FloorPct
           ceiling == equity * PositionPct
<1>. HIDE DEF floor, ceiling
<1>3. (floor + 99) \div 100 \in Nat
  BY <1>1 DEF floor
<1>4. ceiling \div 100 \in Nat /\ ceiling \div 100 <= equity
  <2>1. ceiling \in Nat /\ ceiling <= equity * 100
    BY <1>1, <1>2 DEF ceiling
  <2>. QED BY <2>1
<1>. QED BY <1>3, <1>4 DEF MinCash, MaxValue, floor, ceiling

\* A budget above the minimum keeps both limits.
LEMMA EngineBudgetFits ==
  ASSUME NEW cash \in Nat, NEW equity \in Nat, NEW value \in Nat, NEW budget,
         budget = EngineBudget(cash, equity, value)
  PROVE  /\ budget \in Int
         /\ budget >= 1 => /\ budget + MinCash(equity) <= cash
                           /\ value + budget <= MaxValue(equity)
<1>1. MinCash(equity) \in Nat /\ MaxValue(equity) \in Nat
  BY LimitsTyped
<1>2. /\ cash - MinCash(equity) \in Int /\ MaxValue(equity) - value \in Int
  BY <1>1
<1>3. CASE cash < MinCash(equity)
  BY <1>3 DEF EngineBudget
<1>4. CASE ~(cash < MinCash(equity))
  <2>1. budget = Min({cash - MinCash(equity), MaxValue(equity) - value})
    BY <1>4 DEF EngineBudget
  <2>2. budget = IF cash - MinCash(equity) <= MaxValue(equity) - value
                 THEN cash - MinCash(equity) ELSE MaxValue(equity) - value
    BY <1>2, <2>1, MinOfTwo
  <2>. QED BY <1>1, <1>2, <2>2
<1>. QED BY <1>3, <1>4

LEMMA LlmBudgetFits ==
  ASSUME NEW d \in Answer, NEW cash \in Nat, NEW equity \in Nat, NEW value \in Nat, NEW budget,
         budget = LlmBudget(d, cash, equity, value)
  PROVE  /\ budget \in Int
         /\ budget >= 1 => /\ budget + MinCash(equity) <= cash
                           /\ value + budget <= MaxValue(equity)
<1> DEFINE room == EngineBudget(cash, equity, value)
<1>1. /\ room \in Int
      /\ room >= 1 => room + MinCash(equity) <= cash /\ value + room <= MaxValue(equity)
  BY EngineBudgetFits
<1>2. d.size \in Nat /\ MinCash(equity) \in Nat /\ MaxValue(equity) \in Nat
  BY LimitsTyped DEF Answer
<1>3. budget = IF d.size = 0 THEN room ELSE Min({room, d.size})
  BY DEF LlmBudget
<1>. HIDE DEF room
<1>4. Min({room, d.size}) = IF room <= d.size THEN room ELSE d.size
  <2>1. d.size \in Int
    BY <1>2
  <2>. QED BY <1>1, <2>1, MinOfTwo
<1>. QED BY <1>1, <1>2, <1>3, <1>4

-----------------------------------------------------------------------------
(* Proposals.                                                              *)

LEMMA WiderSeq ==
  ASSUME NEW S, NEW T, S \subseteq T, NEW q \in Seq(S)
  PROVE  q \in Seq(T)
OBVIOUS

\* The sequence of those kept so far.
KeptRun(g, K, r, S) ==
  /\ g \in [0..Len(r) -> Seq(K \cap S)]
  /\ g[0] = <<>> /\ g[Len(r)] = Kept(r, S)
  /\ \A k \in 1..Len(r) : g[k] = IF r[k] \in S THEN Append(g[k - 1], r[k]) ELSE g[k - 1]

LEMMA KeptRuns ==
  ASSUME NEW K, NEW r \in Seq(K), NEW S
  PROVE  \E g : KeptRun(g, K, r, S)
<1> DEFINE A == Seq(K \cap S)
           T == K
           q == r
           n == Len(q)
           base == <<>>
           op(s, x) == IF x \in S THEN Append(s, x) ELSE s
           F == [p \in A \X T |-> op(p[1], p[2])]
           Solves(h) == h = [s \in SUBSET (DOMAIN q) |->
                               IF s = {} THEN base ELSE op(h[s \ {Max(s)}], q[Max(s)])]
           h == CHOOSE g : Solves(g)
<1>1. n \in Nat /\ q \in [1..n -> T] /\ DOMAIN q = 1..n /\ base \in A
  OBVIOUS
<1>2. ASSUME NEW s \in A, NEW x \in T PROVE op(s, x) \in A
  OBVIOUS
<1>3. Kept(r, S) = h[DOMAIN q]
  BY DEF Kept, FoldLeft, MapThenFoldSet
<1>4. F \in [A \X T -> A] /\ \A s \in A, x \in T : F[<<s, x>>] = op(s, x)
  BY <1>2
<1>. HIDE DEF F, n, A, T, q, op, base
<1>5. Foldable(A, T, F, n, q, base)
  BY <1>1, <1>4 DEF Foldable
<1>6. Solves(h)
  <2>1. PICK g : RunsFold(g, A, T, F, n, q, base)
    BY <1>5, FoldSolved
  <2>2. \A s \in SUBSET (1..n) : g[s] = IF s = {} THEN base ELSE op(g[s \ {Max(s)}], q[Max(s)])
    BY <1>4, <2>1 DEF RunsFold
  <2>3. Solves(g)
    BY <1>1, <2>1, <2>2 DEF RunsFold
  <2>. QED BY <2>3
<1>. HIDE DEF h
<1>7. h[{}] = base /\ \A s \in SUBSET (1..n) : s # {} => h[s] = op(h[s \ {Max(s)}], q[Max(s)])
  BY <1>1, <1>6
<1>8. FoldedBy(h, A, F, n, q, base)
  <2>1. ASSUME NEW s \in SUBSET (1..n), s # {}, h[s \ {Max(s)}] \in A
        PROVE  h[s] = F[<<h[s \ {Max(s)}], q[Max(s)]>>]
    BY <1>1, <1>4, <1>7, <2>1, LastOfPart
  <2>. QED BY <1>7, <2>1 DEF FoldedBy
<1>9. PICK g : StepsOf(g, A, T, F, n, q, base) /\ g[n] = h[1..n]
  BY <1>5, <1>8, FoldRuns
<1>10. /\ g \in [0..n -> A] /\ g[0] = base
       /\ \A k \in 1..n : g[k - 1] \in A /\ q[k] \in T /\ g[k] = op(g[k - 1], q[k])
  BY <1>4, <1>9 DEF StepsOf
<1>11. g[n] = Kept(r, S)
  BY <1>1, <1>3, <1>9
<1>. QED BY <1>10, <1>11 DEF KeptRun, A, n, q, op, base

\* The elements kept are in both, in a sequence.
LEMMA KeptTyped ==
  ASSUME NEW K, NEW r \in Seq(K), NEW S
  PROVE  Kept(r, S) \in Seq(K \cap S)
<1>1. PICK g : KeptRun(g, K, r, S)
  BY KeptRuns
<1>2. Len(r) \in 0..Len(r)
  OBVIOUS
<1>. QED BY <1>1, <1>2 DEF KeptRun

\* Each is kept once, from its own place.
Places(f, s, r) ==
  /\ f \in [1..Len(s) -> DOMAIN r]
  /\ \A i \in 1..Len(s) : s[i] = r[f[i]]
  /\ \A i, j \in 1..Len(s) : f[i] = f[j] => i = j

LEMMA KeptPlaces ==
  ASSUME NEW K, NEW r \in Seq(K), NEW S
  PROVE  \E f : Places(f, Kept(r, S), r)
<1> DEFINE n == Len(r)
           A == Seq(K \cap S)
<1>0. PICK g : KeptRun(g, K, r, S)
  BY KeptRuns
<1>1. /\ g \in [0..n -> A] /\ g[0] = <<>> /\ g[n] = Kept(r, S)
      /\ \A k \in 1..n : g[k] = IF r[k] \in S THEN Append(g[k - 1], r[k]) ELSE g[k - 1]
  BY <1>0 DEF KeptRun
<1> DEFINE Early(f, k) == Places(f, g[k], r) /\ \A i \in 1..Len(g[k]) : f[i] <= k
           I == {k \in 0..n : \E f : Early(f, k)}
<1>2. n \in Nat /\ DOMAIN r = 1..n
  OBVIOUS
<1>3. 0 \in I
  <2>1. Len(g[0]) = 0 /\ 1..0 = {}
    BY <1>1
  <2>2. Early([i \in 1..0 |-> i], 0)
    BY <2>1 DEF Places
  <2>3. 0 \in 0..n
    BY <1>2
  <2>. QED BY <2>2, <2>3
<1>4. ASSUME NEW k \in 1..n, k - 1 \in I PROVE k \in I
  <2>1. PICK f : Early(f, k - 1)
    BY <1>4
  <2> DEFINE old == g[k - 1]
             m == Len(old)
             new == [i \in 1..(m + 1) |-> IF i = m + 1 THEN k ELSE f[i]]
  <2>2. old \in A /\ m \in Nat /\ k \in 0..n /\ k - 1 \in 0..n /\ k \in Nat
    <3>1. k \in 0..n /\ k - 1 \in 0..n /\ k \in Nat
      BY <1>2
    <3>2. old \in A
      <4>. HIDE DEF A, n
      <4>. QED BY <1>1, <3>1
    <3>. HIDE DEF old
    <3>. QED BY <3>1, <3>2
  <2>3. /\ f \in [1..m -> 1..n] /\ \A i \in 1..m : old[i] = r[f[i]] /\ f[i] <= k - 1
        /\ \A i, j \in 1..m : f[i] = f[j] => i = j
    BY <1>2, <2>1 DEF Places
  <2>4. CASE r[k] \in S
    <3>1. g[k] = Append(old, r[k])
      BY <1>1, <2>4
    <3>2. r[k] \in K \cap S
      BY <1>2, <2>4
    <3>. HIDE DEF old
    <3>3. /\ Len(g[k]) = m + 1 /\ g[k][m + 1] = r[k] /\ \A i \in 1..m : g[k][i] = old[i]
      BY <2>2, <3>1, <3>2
    <3>. HIDE DEF m
    <3>4. /\ new \in [1..(m + 1) -> 1..n]
          /\ \A i \in 1..(m + 1) : g[k][i] = r[new[i]] /\ new[i] <= k
      <4>1. ASSUME NEW i \in 1..(m + 1) PROVE new[i] \in 1..n /\ g[k][i] = r[new[i]] /\ new[i] <= k
        <5>1. CASE i = m + 1
          BY <2>2, <3>3, <5>1
        <5>2. CASE i # m + 1
          <6>1. i \in 1..m /\ new[i] = f[i]
            BY <2>2, <5>2
          <6>2. f[i] \in 1..n /\ f[i] <= k - 1
            BY <2>3, <6>1
          <6>. QED BY <2>2, <2>3, <3>3, <6>1, <6>2
        <5>. QED BY <5>1, <5>2
      <4>. QED BY <4>1
    <3>5. ASSUME NEW i \in 1..(m + 1), NEW j \in 1..(m + 1), new[i] = new[j] PROVE i = j
      <4>1. \A l \in 1..(m + 1) : l # m + 1 => l \in 1..m /\ new[l] = f[l] /\ f[l] \in 1..n /\ f[l] <= k - 1
        BY <2>2, <2>3
      <4>2. \A l \in 1..(m + 1) : l = m + 1 => new[l] = k
        OBVIOUS
      <4>. HIDE DEF new
      <4>3. \A l \in 1..(m + 1) : l # m + 1 => new[l] # k
        <5>. SUFFICES ASSUME NEW l \in 1..(m + 1), l # m + 1, f[l] = k PROVE FALSE
          BY <4>1
        <5>. QED BY <2>2, <4>1
      <4>. QED BY <2>3, <3>5, <4>1, <4>2, <4>3
    <3>. HIDE DEF new
    <3>6. Early(new, k)
      BY <1>2, <3>3, <3>4, <3>5 DEF Places
    <3>. QED BY <2>2, <3>6
  <2>5. CASE r[k] \notin S
    <3>1. g[k] = old
      BY <1>1, <2>5
    <3>2. \A i \in 1..m : f[i] <= k
      <4>1. \A i \in 1..m : f[i] \in 1..n /\ f[i] <= k - 1
        BY <2>3
      <4>. QED BY <2>2, <4>1
    <3>3. Early(f, k)
      BY <2>1, <3>1, <3>2
    <3>. QED BY <2>2, <3>3
  <2>. QED BY <2>4, <2>5
<1>5. \A k \in 0..n : k \in I
  <2>. HIDE DEF I, n
  <2>. QED BY <1>2, <1>3, <1>4, UpTo
<1>6. PICK f : Early(f, n)
  <2>1. n \in I
    BY <1>2, <1>5
  <2>. QED BY <2>1
<1>. QED BY <1>1, <1>6

LEMMA KeptInjective ==
  ASSUME NEW K, NEW r \in Seq(K), NEW S, IsInjective(r)
  PROVE  IsInjective(Kept(r, S))
<1> DEFINE s == Kept(r, S)
<1>1. PICK f : Places(f, s, r)
  BY KeptPlaces
<1>2. s \in Seq(K) /\ DOMAIN s = 1..Len(s)
  <2>1. s \in Seq(K \cap S)
    BY KeptTyped
  <2>. HIDE DEF s
  <2>. QED BY <2>1
<1>. HIDE DEF s
<1>3. ASSUME NEW i \in DOMAIN s, NEW j \in DOMAIN s, s[i] = s[j] PROVE i = j
  <2>1. f[i] \in DOMAIN r /\ f[j] \in DOMAIN r /\ r[f[i]] = r[f[j]]
    BY <1>1, <1>2, <1>3 DEF Places
  <2>. QED BY <1>1, <1>2, <2>1 DEF Places, IsInjective
<1>4. IsInjective(s)
  BY <1>3 DEF IsInjective
<1>. QED BY <1>4 DEF s

LEMMA KeptOfSame ==
  ASSUME NEW K, NEW r \in Seq(K), NEW S
  PROVE  Kept(r, S) \in Seq(K)
<1>1. Kept(r, S) \in Seq(K \cap S)
  BY KeptTyped
<1>. QED BY <1>1, WiderSeq

LEMMA CandidatesTyped ==
  ASSUME NEW m, IsMarket(m)
  PROVE  Candidates(m) \in Seq(Tickers)
<1>1. m.order \in Seq(Tickers)
  BY DEF IsMarket
<1>2. \A S : Kept(m.order, S) \in Seq(Tickers)
  BY <1>1, KeptOfSame
<1>3. \A S, U : Kept(Kept(m.order, S), U) \in Seq(Tickers)
  BY <1>2, KeptOfSame
<1> DEFINE hold == {t \in m.entry : m.signal[t] = "HOLD"}
           buy == {t \in m.entry : m.signal[t] = "BUY"}
           near == Kept(Kept(m.order, hold), m.near)
           k == Min({Len(near), RelaxedLimit})
<1>4. near \in Seq(Tickers) /\ Kept(m.order, buy) \in Seq(Tickers)
  BY <1>2, <1>3
<1>5. Candidates(m) = IF Kept(m.order, buy) # <<>> THEN Kept(m.order, buy) ELSE SubSeq(near, 1, k)
  BY DEF Candidates
<1>. HIDE DEF near, buy
<1>6. k \in Nat /\ k <= Len(near)
  <2>1. Len(near) \in Nat /\ RelaxedLimit \in Nat
    BY <1>4, Percentages
  <2>2. k = IF Len(near) <= RelaxedLimit THEN Len(near) ELSE RelaxedLimit
    BY <2>1, MinOfTwo
  <2>. QED BY <2>1, <2>2
<1>7. SubSeq(near, 1, k) \in Seq(Tickers)
  <2>. HIDE DEF k
  <2>1. \A i \in 1..k : near[i] \in Tickers
    BY <1>4, <1>6
  <2>. QED BY <1>4, <1>6, <2>1
<1>. QED BY <1>4, <1>5, <1>7

LEMMA CandidatesDistinct ==
  ASSUME NEW m, IsMarket(m)
  PROVE  IsInjective(Candidates(m))
<1>1. m.order \in Seq(Tickers) /\ IsInjective(m.order)
  BY DEF IsMarket
<1>2. \A S : IsInjective(Kept(m.order, S)) /\ Kept(m.order, S) \in Seq(Tickers)
  BY <1>1, KeptInjective, KeptOfSame
<1>3. \A S, U : IsInjective(Kept(Kept(m.order, S), U)) /\ Kept(Kept(m.order, S), U) \in Seq(Tickers)
  BY <1>2, KeptInjective, KeptOfSame
<1> DEFINE hold == {t \in m.entry : m.signal[t] = "HOLD"}
           buy == {t \in m.entry : m.signal[t] = "BUY"}
           near == Kept(Kept(m.order, hold), m.near)
           k == Min({Len(near), RelaxedLimit})
<1>4. near \in Seq(Tickers) /\ IsInjective(near) /\ IsInjective(Kept(m.order, buy))
  BY <1>2, <1>3
<1>5. Candidates(m) = IF Kept(m.order, buy) # <<>> THEN Kept(m.order, buy) ELSE SubSeq(near, 1, k)
  BY DEF Candidates
<1>. HIDE DEF near, buy
<1>6. k \in Nat /\ k <= Len(near) /\ Len(near) \in Nat
  <2>1. Len(near) \in Nat /\ RelaxedLimit \in Nat
    BY <1>4, Percentages
  <2>2. k = IF Len(near) <= RelaxedLimit THEN Len(near) ELSE RelaxedLimit
    BY <2>1, MinOfTwo
  <2>. QED BY <2>1, <2>2
<1>7. IsInjective(SubSeq(near, 1, k))
  <2>. HIDE DEF k
  <2>1. DOMAIN near = 1..Len(near)
    BY <1>4
  <2>2. \A i \in 1..k : i \in DOMAIN near
    BY <1>6, <2>1
  <2>3. DOMAIN SubSeq(near, 1, k) = 1..k /\ \A i \in 1..k : SubSeq(near, 1, k)[i] = near[i]
    BY <1>4, <1>6
  <2>. QED BY <1>4, <2>2, <2>3 DEF IsInjective
<1>. QED BY <1>4, <1>5, <1>7

LEMMA SellsTyped ==
  ASSUME NEW b \in Ledger, NEW m, IsMarket(m)
  PROVE  Sells(b, m) \in Seq({p \in Proposal : p.side = "SELL" /\ p.ticker \in Exits(b, m)})
<1> DEFINE exits == Kept(m.order, Exits(b, m))
<1>1. exits \in Seq(Tickers \cap Exits(b, m))
  BY KeptTyped DEF IsMarket
<1>2. Sells(b, m) = [i \in DOMAIN exits |-> Trade(exits[i], "SELL", 0)]
  BY DEF Sells
<1>. HIDE DEF exits
<1>3. ASSUME NEW i \in DOMAIN exits
      PROVE  Trade(exits[i], "SELL", 0) \in {p \in Proposal : p.side = "SELL" /\ p.ticker \in Exits(b, m)}
  <2>1. exits[i] \in Tickers /\ exits[i] \in Exits(b, m)
    BY <1>1
  <2>. QED BY <2>1 DEF Trade, Proposal
<1>4. Len(exits) \in Nat /\ DOMAIN exits = 1..Len(exits)
  BY <1>1
<1>. QED BY <1>2, <1>3, <1>4

\* A purchase that may be proposed, and the books of the proposals so far:
\* every name they would open has its slot.
Purchase == {p \in Proposal : p.side = "BUY" /\ p.budget >= 1}

Tally(b) ==
  {s \in [cash: Nat, open: Nat, trades: Seq(Purchase)] :
     /\ Cardinality(Open(b) \cup TickersOf(s.trades)) <= s.open
     /\ Cardinality(Open(b)) <= MaxPositions => s.open <= MaxPositions}

LEMMA NoBuysTally ==
  ASSUME NEW b \in Ledger
  PROVE  NoBuys(b) \in Tally(b)
<1> DEFINE r == NoBuys(b)
           held == Cardinality(Open(b))
<1>1. held \in Nat /\ b.cash \in Nat
  BY LedgerTyped, FS_CardinalityType
<1>2. r.trades = <<>> /\ r.open = held /\ r \in [cash: Nat, open: Nat, trades: Seq(Purchase)]
  BY <1>1 DEF NoBuys
<1>3. TickersOf(r.trades) = {}
  BY <1>2 DEF TickersOf
<1>4. Open(b) \cup TickersOf(r.trades) = Open(b)
  BY <1>3
<1>. HIDE DEF r
<1>5. Cardinality(Open(b) \cup TickersOf(r.trades)) <= r.open
  <2>1. Cardinality(Open(b) \cup TickersOf(r.trades)) = held
    BY <1>4
  <2>. HIDE DEF held
  <2>. QED BY <1>1, <1>2, <2>1
<1>6. r \in Tally(b)
  BY <1>2, <1>5 DEF Tally
<1>. QED BY <1>6 DEF r

LEMMA WithBuyTallies ==
  ASSUME NEW b \in Ledger, NEW s \in Tally(b), NEW t \in Tickers
  PROVE  WithBuy(s, b, t) \in Tally(b)
<1> DEFINE budget == EngineBudget(s.cash, Equity(b), b.held[t])
           trade == Trade(t, "BUY", budget)
           trades == Append(s.trades, trade)
           open == IF b.held[t] > 0 THEN s.open ELSE s.open + 1
           r == [cash |-> s.cash - budget, open |-> open, trades |-> trades]
<1>1. /\ s.cash \in Nat /\ s.open \in Nat /\ s.trades \in Seq(Purchase)
      /\ b.held[t] \in Nat /\ Equity(b) \in Nat /\ MinCash(Equity(b)) \in Nat
  BY LedgerTyped, LimitsTyped DEF Tally
<1>2. CASE budget < 1 \/ ~SlotFree(b, s.open, t)
  BY <1>2 DEF WithBuy
<1>3. CASE ~(budget < 1) /\ SlotFree(b, s.open, t)
  <2>1. WithBuy(s, b, t) = r
    BY <1>3 DEF WithBuy
  <2>2. /\ budget \in Int
        /\ budget >= 1 => budget + MinCash(Equity(b)) <= s.cash
    BY <1>1, EngineBudgetFits
  <2>. HIDE DEF budget
  <2>3. budget \in Nat /\ budget >= 1 /\ s.cash - budget \in Nat
    BY <1>1, <1>3, <2>2
  <2>4. trade \in Purchase
    BY <2>3 DEF Trade, Purchase, Proposal
  <2>5. trades \in Seq(Purchase) /\ TickersOf(trades) = TickersOf(s.trades) \cup {t}
    <3>1. trade.ticker = t
      BY DEF Trade
    <3>. HIDE DEF trade
    <3>2. trades \in Seq(Purchase)
      BY <1>1, <2>4
    <3>3. Len(trades) = Len(s.trades) + 1 /\ Len(s.trades) \in Nat
      BY <1>1, <2>4
    <3>4. /\ \A i \in 1..Len(s.trades) : trades[i] = s.trades[i]
          /\ trades[Len(s.trades) + 1] = trade
      BY <1>1, <2>4
    <3>5. DOMAIN trades = 1..(Len(s.trades) + 1) /\ DOMAIN s.trades = 1..Len(s.trades)
      BY <1>1, <3>2, <3>3
    <3>. HIDE DEF trades
    <3>. QED BY <3>1, <3>2, <3>3, <3>4, <3>5 DEF TickersOf
  <2>6. open \in Nat /\ r.open = open /\ r.trades = trades
    BY <1>1
  <2> DEFINE names == Open(b) \cup TickersOf(s.trades)
  <2>7. IsFiniteSet(names) /\ Cardinality(names) \in Nat
    <3>1. names \subseteq Tickers
      BY <1>1 DEF Open, TickersOf, Purchase, Proposal
    <3>2. IsFiniteSet(names)
      BY <3>1, Percentages, FS_Subset
    <3>. QED BY <3>2, FS_CardinalityType
  <2>8. Cardinality(names) <= s.open
    BY DEF Tally
  <2>9. Cardinality(names \cup {t}) <= open
    <3>1. CASE b.held[t] > 0
      <4>1. names \cup {t} = names
        BY <3>1 DEF Open
      <4>. QED BY <2>8, <3>1, <4>1
    <3>2. CASE ~(b.held[t] > 0)
      <4>. HIDE DEF names
      <4>1. Cardinality(names \cup {t}) <= Cardinality(names) + 1
        BY SMTT(30), <2>7, FS_AddElement
      <4>2. Cardinality(names \cup {t}) \in Nat
        BY <2>7, FS_AddElement, FS_CardinalityType
      <4>. QED BY <1>1, <2>7, <2>8, <3>2, <4>1, <4>2
    <3>. QED BY <3>1, <3>2
  <2>10. Cardinality(Open(b)) <= MaxPositions => open <= MaxPositions
    <3>1. Cardinality(Open(b)) <= MaxPositions => s.open <= MaxPositions
      BY DEF Tally
    <3>2. s.open < MaxPositions \/ b.held[t] > 0
      BY <1>3 DEF SlotFree
    <3>. QED BY <1>1, <3>1, <3>2, Percentages
  <2>11. Open(b) \cup TickersOf(trades) = names \cup {t}
    BY <2>5
  <2>12. r \in [cash: Nat, open: Nat, trades: Seq(Purchase)]
    BY <2>3, <2>5, <2>6
  <2>. HIDE DEF trades, names, open, r
  <2>. QED BY <2>1, <2>6, <2>9, <2>10, <2>11, <2>12 DEF Tally
<1>. QED BY <1>2, <1>3

\* The books of the proposals, candidate by candidate.
BuysRun(g, b, m) ==
  /\ g \in [0..Len(Candidates(m)) -> Tally(b)]
  /\ g[0] = NoBuys(b) /\ g[Len(Candidates(m))].trades = Buys(b, m)
  /\ \A k \in 1..Len(Candidates(m)) : g[k] = WithBuy(g[k - 1], b, Candidates(m)[k])

LEMMA BuysRuns ==
  ASSUME NEW b \in Ledger, NEW m, IsMarket(m)
  PROVE  \E g : BuysRun(g, b, m)
<1> DEFINE A == Tally(b)
           T == Tickers
           q == Candidates(m)
           n == Len(q)
           base == NoBuys(b)
           op(s, x) == WithBuy(s, b, x)
           F == [p \in A \X T |-> op(p[1], p[2])]
           Solves(h) == h = [s \in SUBSET (DOMAIN q) |->
                               IF s = {} THEN base ELSE op(h[s \ {Max(s)}], q[Max(s)])]
           h == CHOOSE g : Solves(g)
<1>1. n \in Nat /\ q \in [1..n -> T] /\ DOMAIN q = 1..n /\ base \in A
  <2>1. Candidates(m) \in Seq(Tickers)
    BY CandidatesTyped
  <2>2. NoBuys(b) \in Tally(b)
    BY NoBuysTally
  <2>. QED BY <2>1, <2>2
<1>2. ASSUME NEW s \in A, NEW x \in T PROVE op(s, x) \in A
  BY WithBuyTallies
<1>3. Buys(b, m) = h[DOMAIN q].trades
  BY DEF Buys, FoldLeft, MapThenFoldSet
<1>4. F \in [A \X T -> A] /\ \A s \in A, x \in T : F[<<s, x>>] = op(s, x)
  BY <1>2
<1>. HIDE DEF F, n, A, T, q, op, base
<1>5. Foldable(A, T, F, n, q, base)
  BY <1>1, <1>4 DEF Foldable
<1>6. Solves(h)
  <2>1. PICK g : RunsFold(g, A, T, F, n, q, base)
    BY <1>5, FoldSolved
  <2>2. \A s \in SUBSET (1..n) : g[s] = IF s = {} THEN base ELSE op(g[s \ {Max(s)}], q[Max(s)])
    BY <1>4, <2>1 DEF RunsFold
  <2>3. Solves(g)
    BY <1>1, <2>1, <2>2 DEF RunsFold
  <2>. QED BY <2>3
<1>. HIDE DEF h
<1>7. h[{}] = base /\ \A s \in SUBSET (1..n) : s # {} => h[s] = op(h[s \ {Max(s)}], q[Max(s)])
  BY <1>1, <1>6
<1>8. FoldedBy(h, A, F, n, q, base)
  <2>1. ASSUME NEW s \in SUBSET (1..n), s # {}, h[s \ {Max(s)}] \in A
        PROVE  h[s] = F[<<h[s \ {Max(s)}], q[Max(s)]>>]
    BY <1>1, <1>4, <1>7, <2>1, LastOfPart
  <2>. QED BY <1>7, <2>1 DEF FoldedBy
<1>9. PICK g : StepsOf(g, A, T, F, n, q, base) /\ g[n] = h[1..n]
  BY <1>5, <1>8, FoldRuns
<1>10. /\ g \in [0..n -> A] /\ g[0] = base
       /\ \A k \in 1..n : g[k - 1] \in A /\ q[k] \in T /\ g[k] = op(g[k - 1], q[k])
  BY <1>4, <1>9 DEF StepsOf
<1>11. g[n].trades = Buys(b, m)
  BY <1>1, <1>3, <1>9
<1>. QED BY <1>10, <1>11 DEF BuysRun, A, n, q, op, base

\* The engine proposes purchases, and no more names than there are slots.
LEMMA BuysFit ==
  ASSUME NEW b \in Ledger, NEW m, IsMarket(m)
  PROVE  /\ Buys(b, m) \in Seq(Purchase)
         /\ Cardinality(Open(b)) <= MaxPositions =>
              Cardinality(Open(b) \cup TickersOf(Buys(b, m))) <= MaxPositions
<1>1. PICK g : BuysRun(g, b, m)
  BY BuysRuns
<1> DEFINE s == g[Len(Candidates(m))]
<1>2. s \in Tally(b)
  <2>1. Len(Candidates(m)) \in Nat
    BY CandidatesTyped
  <2>2. Len(Candidates(m)) \in 0..Len(Candidates(m))
    BY <2>1
  <2>. QED BY <1>1, <2>2 DEF BuysRun
<1>3. Cardinality(Open(b) \cup TickersOf(s.trades)) \in Nat
  <2>. HIDE DEF s
  <2>1. Open(b) \cup TickersOf(s.trades) \subseteq Tickers
    BY <1>2 DEF Tally, Open, TickersOf, Purchase, Proposal
  <2>. QED BY <2>1, Percentages, FS_Subset, FS_CardinalityType
<1>4. Buys(b, m) = s.trades
  BY <1>1 DEF BuysRun
<1>. HIDE DEF s
<1>. QED BY <1>2, <1>3, <1>4, Percentages DEF Tally

\* What is set aside for each name covers its one purchase, and all of it
\* together leaves the buffer.
Within(trades, B) ==
  /\ \A i \in DOMAIN trades : trades[i].side = "BUY" => trades[i].budget <= B[trades[i].ticker]
  /\ \A i, j \in DOMAIN trades :
       trades[i].side = "BUY" /\ trades[j].side = "BUY" /\ trades[i].ticker = trades[j].ticker => i = j

Affordable(B, cash, equity, held) ==
  \A t \in Tickers : B[t] > 0 =>
    /\ Total(B, Tickers) + MinCash(equity) <= cash
    /\ held[t] + B[t] <= MaxValue(equity)

Reserved(B, s, b, early) ==
  /\ B \in Holdings /\ s.cash + Total(B, Tickers) = b.cash
  /\ \A u \in Tickers : B[u] > 0 =>
       MinCash(Equity(b)) <= s.cash /\ b.held[u] + B[u] <= MaxValue(Equity(b)) /\ u \in TickersOf(s.trades)
  /\ Within(s.trades, B) /\ TickersOf(s.trades) \subseteq early

LEMMA WithBuyReserves ==
  ASSUME NEW b \in Ledger, NEW s \in Tally(b), NEW early, NEW t \in Tickers, t \notin early,
         NEW B, Reserved(B, s, b, early)
  PROVE  \E C : Reserved(C, WithBuy(s, b, t), b, early \cup {t})
<1> DEFINE budget == EngineBudget(s.cash, Equity(b), b.held[t])
           trade == Trade(t, "BUY", budget)
           trades == Append(s.trades, trade)
           n == Len(s.trades)
           C == [B EXCEPT ![t] = budget]
           open == IF b.held[t] > 0 THEN s.open ELSE s.open + 1
           r == [cash |-> s.cash - budget, open |-> open, trades |-> trades]
<1>1. /\ s.cash \in Nat /\ s.trades \in Seq(Purchase) /\ n \in Nat
      /\ b.held[t] \in Nat /\ Equity(b) \in Nat /\ MinCash(Equity(b)) \in Nat /\ MaxValue(Equity(b)) \in Nat
      /\ B \in [Tickers -> Nat] /\ b.cash \in Nat
  <2>1. s.cash \in Nat /\ s.trades \in Seq(Purchase) /\ n \in Nat
    BY DEF Tally
  <2>2. b.held[t] \in Nat /\ Equity(b) \in Nat /\ b.cash \in Nat
    BY LedgerTyped
  <2>3. MinCash(Equity(b)) \in Nat /\ MaxValue(Equity(b)) \in Nat
    BY <2>2, LimitsTyped
  <2>. QED BY <2>1, <2>2, <2>3 DEF Reserved, Holdings
<1>2. CASE budget < 1 \/ ~SlotFree(b, s.open, t)
  <2>1. WithBuy(s, b, t) = s
    BY <1>2 DEF WithBuy
  <2>2. Reserved(B, s, b, early \cup {t})
    BY DEF Reserved
  <2>. QED BY <2>1, <2>2
<1>3. CASE ~(budget < 1) /\ SlotFree(b, s.open, t)
  <2>1. WithBuy(s, b, t) = r
    BY <1>3 DEF WithBuy
  <2>2. /\ budget \in Int
        /\ budget >= 1 => budget + MinCash(Equity(b)) <= s.cash /\ b.held[t] + budget <= MaxValue(Equity(b))
    BY <1>1, EngineBudgetFits
  <2>3. r.cash = s.cash - budget /\ r.trades = trades
    OBVIOUS
  <2>. HIDE DEF budget, r
  <2>4. budget \in Nat /\ budget >= 1
    BY <1>3, <2>2
  <2>5. trade \in Purchase /\ trade.ticker = t /\ trade.budget = budget /\ trade.side = "BUY"
    BY <2>4 DEF Trade, Purchase, Proposal
  <2>. HIDE DEF trade
  <2>6. /\ DOMAIN trades = 1..(n + 1) /\ trades[n + 1] = trade
        /\ DOMAIN s.trades = 1..n /\ \A i \in 1..n : trades[i] = s.trades[i]
    BY <1>1, <2>5
  <2>. HIDE DEF trades, n
  <2>7. TickersOf(trades) = TickersOf(s.trades) \cup {t}
    <3>1. \A i \in 1..(n + 1) : i = n + 1 \/ i \in 1..n
      BY <1>1
    <3>2. n + 1 \in 1..(n + 1) /\ 1..n \subseteq 1..(n + 1)
      BY <1>1
    <3>. QED BY <2>5, <2>6, <3>1, <3>2 DEF TickersOf
  <2>8. \A i \in 1..n : s.trades[i].ticker # t
    <3>1. \A i \in 1..n : s.trades[i].ticker \in early
      BY <2>6 DEF Reserved, TickersOf
    <3>. QED BY <3>1
  <2>9. B[t] = 0
    <3>1. t \notin TickersOf(s.trades)
      BY DEF Reserved
    <3>2. ~(B[t] > 0)
      BY <3>1 DEF Reserved
    <3>. QED BY <1>1, <3>2
  <2>10. C \in [Tickers -> Nat] /\ C[t] = budget /\ \A u \in Tickers \ {t} : C[u] = B[u]
    BY <1>1, <2>4
  <2>. HIDE DEF C
  <2>11. /\ Total(C, Tickers) = Total(B, Tickers) + budget
         /\ Total(B, Tickers) \in Nat
    <3>1. Total(C, Tickers) = (Total(B, Tickers) - B[t]) + C[t] /\ Total(B, Tickers) \in Nat
      BY ZenonT(30), <1>1, <2>10, TotalChange, TotalType, Percentages
    <3>. QED BY <2>4, <2>9, <2>10, <3>1
  <2>12. r.cash + Total(C, Tickers) = b.cash
    <3>1. s.cash + Total(B, Tickers) = b.cash
      BY DEF Reserved
    <3>. QED BY <1>1, <2>3, <2>4, <2>11, <3>1
  <2>13. ASSUME NEW u \in Tickers, C[u] > 0
         PROVE  MinCash(Equity(b)) <= r.cash /\ b.held[u] + C[u] <= MaxValue(Equity(b)) /\ u \in TickersOf(r.trades)
    <3>1. MinCash(Equity(b)) <= r.cash
      BY <1>1, <2>2, <2>3, <2>4
    <3>2. CASE u = t
      BY <2>2, <2>3, <2>4, <2>7, <2>10, <3>1, <3>2
    <3>3. CASE u # t
      <4>1. B[u] > 0 /\ C[u] = B[u]
        BY <2>10, <2>13, <3>3
      <4>2. b.held[u] + B[u] <= MaxValue(Equity(b)) /\ u \in TickersOf(s.trades)
        BY <4>1 DEF Reserved
      <4>. QED BY <2>3, <2>7, <3>1, <4>1, <4>2
    <3>. QED BY <3>2, <3>3
  <2>14. Within(trades, C)
    <3>0. Within(s.trades, B)
      BY DEF Reserved
    <3>1. ASSUME NEW i \in 1..n
          PROVE  /\ s.trades[i].side = "BUY" => s.trades[i].budget <= B[s.trades[i].ticker]
                 /\ s.trades[i].ticker \in Tickers
      <4>1. s.trades[i] \in Purchase
        BY <1>1, <2>6
      <4>2. s.trades[i].ticker \in Tickers
        BY <4>1 DEF Purchase, Proposal
      <4>. QED BY <2>6, <3>0, <4>2 DEF Within
    <3>2. ASSUME NEW i \in 1..n, NEW j \in 1..n, s.trades[i].side = "BUY", s.trades[j].side = "BUY",
                 s.trades[i].ticker = s.trades[j].ticker
          PROVE  i = j
      BY <2>6, <3>0, <3>2 DEF Within
    <3>3. \A i \in 1..(n + 1) : i = n + 1 \/ i \in 1..n
      BY <1>1
    <3>4. ASSUME NEW i \in 1..(n + 1), trades[i].side = "BUY"
          PROVE  trades[i].budget <= C[trades[i].ticker]
      <4>1. CASE i = n + 1
        BY <2>4, <2>5, <2>6, <2>10, <4>1
      <4>2. CASE i \in 1..n
        <5>1. s.trades[i].ticker \in Tickers \ {t} /\ s.trades[i].budget <= B[s.trades[i].ticker]
          BY <2>6, <2>8, <3>1, <3>4, <4>2
        <5>. QED BY <2>6, <2>10, <4>2, <5>1
      <4>. QED BY <3>3, <4>1, <4>2
    <3>5. ASSUME NEW i \in 1..(n + 1), NEW j \in 1..(n + 1), trades[i].side = "BUY", trades[j].side = "BUY",
                 trades[i].ticker = trades[j].ticker
          PROVE  i = j
      BY <2>5, <2>6, <2>8, <3>2, <3>3, <3>5
    <3>. QED BY <2>6, <3>4, <3>5 DEF Within
  <2>15. TickersOf(trades) \subseteq early \cup {t}
    BY <2>7 DEF Reserved
  <2>16. Reserved(C, r, b, early \cup {t})
    BY <2>3, <2>10, <2>12, <2>13, <2>14, <2>15 DEF Reserved, Holdings
  <2>. QED BY <2>1, <2>16
<1>. QED BY <1>2, <1>3

LEMMA BuysReserve ==
  ASSUME NEW b \in Ledger, NEW m, IsMarket(m)
  PROVE  \E B \in Holdings :
           /\ Within(Buys(b, m), B) /\ Affordable(B, b.cash, Equity(b), b.held)
           /\ \A t \in Tickers : B[t] > 0 => t \in TickersOf(Buys(b, m))
<1> DEFINE q == Candidates(m)
           n == Len(q)
           early(k) == {q[j] : j \in 1..k}
<1>0. PICK g : BuysRun(g, b, m)
  BY BuysRuns
<1>1. /\ g \in [0..n -> Tally(b)] /\ g[0] = NoBuys(b) /\ g[n].trades = Buys(b, m)
      /\ \A k \in 1..n : g[k] = WithBuy(g[k - 1], b, q[k])
  BY <1>0 DEF BuysRun
<1>2. n \in Nat /\ q \in [1..n -> Tickers] /\ \A j, k \in 1..n : q[j] = q[k] => j = k
  <2>1. q \in Seq(Tickers) /\ IsInjective(q)
    BY CandidatesTyped, CandidatesDistinct
  <2>. HIDE DEF q
  <2>. QED BY <2>1 DEF IsInjective
<1> DEFINE I == {k \in 0..n : \E B : Reserved(B, g[k], b, early(k))}
<1>3. 0 \in I
  <2>1. NoBuys(b).cash = b.cash /\ NoBuys(b).trades = <<>>
    BY DEF NoBuys
  <2>2. Nothing \in Holdings /\ Total(Nothing, Tickers) = 0 /\ \A t \in Tickers : Nothing[t] = 0
    BY TotalZero, Percentages DEF Nothing, Holdings
  <2>3. TickersOf(<<>>) = {} /\ Within(<<>>, Nothing)
    BY DEF TickersOf, Within
  <2>4. b.cash + 0 = b.cash
    BY LedgerTyped
  <2>5. Reserved(Nothing, g[0], b, early(0))
    BY <1>1, <2>1, <2>2, <2>3, <2>4 DEF Reserved
  <2>6. 0 \in 0..n
    <3>. HIDE DEF n
    <3>. QED BY <1>2
  <2>. HIDE DEF n, early
  <2>. QED BY <2>5, <2>6
<1>4. ASSUME NEW k \in 1..n, k - 1 \in I PROVE k \in I
  <2>1. PICK B : Reserved(B, g[k - 1], b, early(k - 1))
    BY <1>4
  <2>2. k \in 0..n /\ k - 1 \in 0..n /\ q[k] \in Tickers /\ g[k - 1] \in Tally(b)
    <3>1. k \in 0..n /\ k - 1 \in 0..n /\ q[k] \in Tickers
      BY <1>2
    <3>. QED BY <1>1, <3>1
  <2>3. q[k] \notin early(k - 1)
    <3>1. \A j \in 1..(k - 1) : j \in 1..n /\ j # k
      BY <1>2
    <3>. QED BY <1>2, <3>1
  <2>4. early(k) = early(k - 1) \cup {q[k]}
    <3>1. 1..k = (1..(k - 1)) \cup {k}
      BY <1>2
    <3>. QED BY <3>1
  <2>. HIDE DEF early
  <2>5. PICK C : Reserved(C, WithBuy(g[k - 1], b, q[k]), b, early(k - 1) \cup {q[k]})
    BY <2>1, <2>2, <2>3, WithBuyReserves
  <2>. QED BY <1>1, <2>2, <2>4, <2>5
<1>5. \A k \in 0..n : k \in I
  <2>. HIDE DEF I, n
  <2>. QED BY <1>2, <1>3, <1>4, UpTo
<1>6. PICK B : Reserved(B, g[n], b, early(n))
  <2>1. n \in 0..n
    <3>. HIDE DEF n
    <3>. QED BY <1>2
  <2>. HIDE DEF n, early
  <2>. QED BY <1>5, <2>1
<1>7. g[n] \in Tally(b)
  <2>1. n \in 0..n
    BY <1>2
  <2>. QED BY <1>1, <2>1
<1>. HIDE DEF n, early
<1> DEFINE s == g[n]
<1>8. s.cash \in Nat /\ s.trades = Buys(b, m) /\ Reserved(B, s, b, early(n))
  BY <1>1, <1>6, <1>7 DEF Tally
<1>. HIDE DEF s
<1>9. B \in Holdings /\ Within(Buys(b, m), B) /\ \A t \in Tickers : B[t] > 0 => t \in TickersOf(Buys(b, m))
  BY <1>8 DEF Reserved
<1>10. Affordable(B, b.cash, Equity(b), b.held)
  <2> SUFFICES ASSUME NEW t \in Tickers, B[t] > 0
               PROVE  /\ Total(B, Tickers) + MinCash(Equity(b)) <= b.cash
                      /\ b.held[t] + B[t] <= MaxValue(Equity(b))
    BY DEF Affordable
  <2>1. /\ MinCash(Equity(b)) <= s.cash /\ b.held[t] + B[t] <= MaxValue(Equity(b))
        /\ s.cash + Total(B, Tickers) = b.cash
    BY <1>8 DEF Reserved
  <2>2. Total(B, Tickers) \in Nat /\ MinCash(Equity(b)) \in Nat
    BY <1>9, TotalType, Percentages, LedgerTyped, LimitsTyped DEF Holdings
  <2>. QED BY <1>8, <2>1, <2>2
<1>. QED BY <1>9, <1>10

LEMMA ProposeTyped ==
  ASSUME NEW b \in Ledger, NEW m, IsMarket(m)
  PROVE  Propose(b, m) \in Seq(Proposal)
<1>1. Sells(b, m) \in Seq(Proposal)
  BY ZenonT(30), SellsTyped, WiderSeq
<1>2. Buys(b, m) \in Seq(Proposal)
  BY BuysFit, WiderSeq DEF Purchase
<1>. QED BY <1>1, <1>2 DEF Propose

\* The buys that the engine proposes for a book, and their names.
LEMMA ProposeReserves ==
  ASSUME NEW b \in Ledger, NEW m, IsMarket(m)
  PROVE  \E B \in Holdings :
           /\ Within(Propose(b, m), B) /\ Affordable(B, b.cash, Equity(b), b.held)
           /\ \A t \in Tickers : B[t] > 0 => t \in TickersOf(Propose(b, m))
<1>1. CASE Equity(b) <= 0
  <2>1. Propose(b, m) = <<>>
    BY <1>1 DEF Propose
  <2>2. Nothing \in Holdings /\ \A t \in Tickers : Nothing[t] = 0
    BY DEF Nothing, Holdings
  <2>3. Within(<<>>, Nothing) /\ Affordable(Nothing, b.cash, Equity(b), b.held)
    BY <2>2 DEF Within, Affordable
  <2>. QED BY <2>1, <2>2, <2>3
<1>2. CASE ~(Equity(b) <= 0)
  <2> DEFINE sells == Sells(b, m)
             buys == Buys(b, m)
             all == Propose(b, m)
             k == Len(sells)
             n == Len(buys)
  <2>1. all = sells \o buys
    BY <1>2 DEF Propose
  <2>2. PICK B \in Holdings :
          /\ Within(buys, B) /\ Affordable(B, b.cash, Equity(b), b.held)
          /\ \A t \in Tickers : B[t] > 0 => t \in TickersOf(buys)
    BY BuysReserve
  <2>3. sells \in Seq({p \in Proposal : p.side = "SELL" /\ p.ticker \in Exits(b, m)}) /\ buys \in Seq(Purchase)
    BY SellsTyped, BuysFit
  <2>. HIDE DEF sells, buys, all
  <2>4. /\ k \in Nat /\ n \in Nat /\ DOMAIN all = 1..(k + n) /\ DOMAIN buys = 1..n
        /\ \A i \in 1..k : all[i] = sells[i]
        /\ \A i \in 1..n : all[k + i] = buys[i]
    BY <2>1, <2>3
  <2>5. \A i \in 1..k : all[i].side # "BUY"
    <3>1. \A i \in 1..k : sells[i].side = "SELL"
      BY <2>3
    <3>. QED BY <2>4, <3>1
  <2>. HIDE DEF k, n
  <2>6. ASSUME NEW i \in 1..(k + n), all[i].side = "BUY"
        PROVE  i - k \in 1..n /\ all[i] = buys[i - k]
    <3>1. ~(i \in 1..k)
      BY <2>5, <2>6
    <3>2. i - k \in 1..n /\ k + (i - k) = i
      BY <2>4, <3>1
    <3>. QED BY <2>4, <3>2
  <2>7. Within(all, B)
    <3>1. ASSUME NEW i \in 1..(k + n), all[i].side = "BUY"
          PROVE  all[i].budget <= B[all[i].ticker]
      BY SMTT(30), <2>2, <2>4, <2>6, <3>1 DEF Within
    <3>2. ASSUME NEW i \in 1..(k + n), NEW j \in 1..(k + n), all[i].side = "BUY", all[j].side = "BUY",
                 all[i].ticker = all[j].ticker
          PROVE  i = j
      <4>1. i - k \in 1..n /\ j - k \in 1..n /\ all[i] = buys[i - k] /\ all[j] = buys[j - k]
        BY <2>6, <3>2
      <4>2. i - k = j - k
        BY <2>2, <2>4, <3>2, <4>1 DEF Within
      <4>. QED BY <2>4, <4>2
    <3>. QED BY <2>4, <3>1, <3>2 DEF Within
  <2>8. TickersOf(buys) \subseteq TickersOf(all)
    <3>1. \A i \in 1..n : k + i \in 1..(k + n)
      BY <2>4
    <3>. QED BY <2>4, <3>1 DEF TickersOf
  <2>. QED BY <2>2, <2>7, <2>8 DEF all
<1>. QED BY <1>1, <1>2

LEMMA KeptWithin ==
  ASSUME NEW r \in Seq(Proposal), NEW S, NEW B, Within(r, B)
  PROVE  Within(Kept(r, S), B)
<1> DEFINE s == Kept(r, S)
           n == Len(s)
<1>1. PICK f : Places(f, s, r)
  BY KeptPlaces
<1>2. DOMAIN s = 1..n
  <2>1. s \in Seq(Proposal)
    BY KeptOfSame
  <2>. HIDE DEF s
  <2>. QED BY <2>1
<1>. HIDE DEF s
<1>3. /\ \A i \in 1..n : f[i] \in DOMAIN r /\ s[i] = r[f[i]]
      /\ \A i, j \in 1..n : f[i] = f[j] => i = j
  BY <1>1 DEF Places
<1>. HIDE DEF n
<1>4. \A i \in 1..n : s[i].side = "BUY" => s[i].budget <= B[s[i].ticker]
  BY <1>3 DEF Within
<1>5. ASSUME NEW i \in 1..n, NEW j \in 1..n, s[i].side = "BUY", s[j].side = "BUY", s[i].ticker = s[j].ticker
      PROVE  i = j
  <2>1. f[i] = f[j]
    BY <1>3, <1>5 DEF Within
  <2>. QED BY <1>3, <2>1
<1>6. Within(s, B)
  BY <1>2, <1>4, <1>5 DEF Within
<1>. QED BY <1>6 DEF s

-----------------------------------------------------------------------------
(* Decisions of the LLM.                                                   *)

LEMMA ApprovedTyped ==
  ASSUME NEW proposals \in Seq(Proposal), NEW decisions
  PROVE  Approved(proposals, decisions) \in Seq(Proposal)
BY KeptOfSame DEF Approved

\* The budgets planned so far, for names held and on an equity as valued.
Plans(cash, exclude, equity, held) ==
  {s \in [cash: Nat, budget: Holdings] :
     /\ s.cash + Total(s.budget, Tickers) <= cash
     /\ \A t \in Tickers : s.budget[t] > 0 =>
          MinCash(equity) <= s.cash /\ held[t] + s.budget[t] <= MaxValue(equity) /\ t \notin exclude}

LEMMA PlannedFits ==
  ASSUME NEW held \in Holdings, NEW equity \in Nat, NEW exclude, NEW cash \in Nat,
         NEW s \in Plans(cash, exclude, equity, held), NEW d \in Answer
  PROVE  Planned(s, d, exclude, equity, held) \in Plans(cash, exclude, equity, held)
<1> DEFINE t == d.ticker
           budget == LlmBudget(d, s.cash, equity, held[t])
           budgets == [s.budget EXCEPT ![t] = budget]
           r == [cash |-> s.cash - budget, budget |-> budgets]
<1>1. s.cash \in Nat /\ s.budget \in [Tickers -> Nat]
  BY DEF Plans, Holdings
<1>2. t \in Tickers /\ held[t] \in Nat /\ MinCash(equity) \in Nat /\ MaxValue(equity) \in Nat
  BY LimitsTyped DEF Answer, Holdings
<1>3. /\ budget \in Int
      /\ budget >= 1 => budget + MinCash(equity) <= s.cash /\ held[t] + budget <= MaxValue(equity)
  BY <1>1, <1>2, LlmBudgetFits
<1>4. Planned(s, d, exclude, equity, held) =
        IF d.action # "BUY" \/ t \in exclude \/ budget < 1 THEN s ELSE r
  BY DEF Planned
<1>5. r.cash = s.cash - budget /\ r.budget = budgets
  OBVIOUS
<1>. HIDE DEF budget, r
<1>6. CASE budget >= 1 /\ t \notin exclude
  <2>1. budget \in Nat /\ s.cash - budget \in Nat
    BY <1>1, <1>2, <1>3, <1>6
  <2>2. budgets \in [Tickers -> Nat] /\ budgets[t] = budget /\ \A u \in Tickers \ {t} : budgets[u] = s.budget[u]
    BY <1>1, <1>2, <2>1
  <2>3. r \in [cash: Nat, budget: Holdings]
    BY <2>1, <2>2 DEF r, Holdings
  <2>. HIDE DEF budgets, t
  <2>4. /\ Total(budgets, Tickers) = (Total(s.budget, Tickers) - s.budget[t]) + budgets[t]
        /\ Total(s.budget, Tickers) \in Nat /\ s.budget[t] \in Nat
    BY <1>1, <1>2, <2>2, TotalChange, TotalType, Percentages
  <2>5. r.cash + Total(r.budget, Tickers) <= cash
    <3>1. s.cash + Total(s.budget, Tickers) <= cash
      BY DEF Plans
    <3>. QED BY <1>1, <1>5, <2>1, <2>2, <2>4, <3>1
  <2>6. ASSUME NEW u \in Tickers, r.budget[u] > 0
        PROVE  MinCash(equity) <= r.cash /\ held[u] + r.budget[u] <= MaxValue(equity) /\ u \notin exclude
    <3>1. MinCash(equity) <= r.cash
      BY <1>1, <1>2, <1>3, <1>5, <1>6, <2>1
    <3>2. CASE u = t
      BY <1>3, <1>5, <1>6, <2>2, <3>1, <3>2
    <3>3. CASE u # t
      <4>1. r.budget[u] = s.budget[u] /\ s.budget[u] > 0
        BY <1>5, <2>2, <2>6, <3>3
      <4>. QED BY <3>1, <4>1 DEF Plans
    <3>. QED BY <3>2, <3>3
  <2>7. r \in Plans(cash, exclude, equity, held)
    BY <2>3, <2>5, <2>6 DEF Plans
  <2>. QED BY <1>4, <2>7
<1>7. CASE ~(budget >= 1 /\ t \notin exclude)
  <2>1. budget < 1 \/ t \in exclude
    BY <1>3, <1>7
  <2>. QED BY <1>4, <2>1
<1>. QED BY <1>6, <1>7

\* The plan as a whole leaves the buffer, each of its buys keeps its name's
\* limit, and it buys nothing that is handled elsewhere.
LEMMA PlanFits ==
  ASSUME NEW decisions \in Seq(Answer), NEW exclude, NEW cash \in Nat, NEW equity \in Nat,
         NEW held \in Holdings, NEW B, B = Plan(decisions, exclude, cash, equity, held)
  PROVE  /\ B \in Holdings /\ Affordable(B, cash, equity, held)
         /\ \A t \in Tickers : t \in exclude => B[t] = 0
<1> DEFINE A == Plans(cash, exclude, equity, held)
           T == Answer
           q == decisions
           n == Len(q)
           base == [cash |-> cash, budget |-> Nothing]
           op(s, x) == Planned(s, x, exclude, equity, held)
           F == [p \in A \X T |-> op(p[1], p[2])]
           Solves(h) == h = [s \in SUBSET (DOMAIN q) |->
                               IF s = {} THEN base ELSE op(h[s \ {Max(s)}], q[Max(s)])]
           h == CHOOSE g : Solves(g)
<1>1. n \in Nat /\ q \in [1..n -> T] /\ DOMAIN q = 1..n /\ base \in A
  <2>1. base \in [cash: Nat, budget: Holdings] /\ base.cash = cash /\ base.budget = Nothing
    BY DEF Nothing, Holdings
  <2>2. Total(Nothing, Tickers) = 0 /\ \A t \in Tickers : Nothing[t] = 0
    BY TotalZero, Percentages DEF Nothing
  <2>. HIDE DEF base
  <2>3. base \in A
    BY <2>1, <2>2 DEF Plans
  <2>. QED BY <2>3
<1>2. ASSUME NEW s \in A, NEW x \in T PROVE op(s, x) \in A
  BY PlannedFits
<1>3. B = h[DOMAIN q].budget
  BY DEF Plan, FoldLeft, MapThenFoldSet
<1>4. F \in [A \X T -> A] /\ \A s \in A, x \in T : F[<<s, x>>] = op(s, x)
  BY <1>2
<1>. HIDE DEF F, n, A, T, q, op, base
<1>5. Solves(h)
  <2>1. Foldable(A, T, F, n, q, base)
    BY <1>1, <1>4 DEF Foldable
  <2>2. PICK g : RunsFold(g, A, T, F, n, q, base)
    BY <2>1, FoldSolved
  <2>3. \A s \in SUBSET (1..n) : g[s] = IF s = {} THEN base ELSE op(g[s \ {Max(s)}], q[Max(s)])
    BY <1>4, <2>2 DEF RunsFold
  <2>4. Solves(g)
    BY <1>1, <2>2, <2>3 DEF RunsFold
  <2>. QED BY <2>4
<1>. HIDE DEF h
<1>6. h[{}] = base /\ \A s \in SUBSET (1..n) : s # {} => h[s] = op(h[s \ {Max(s)}], q[Max(s)])
  BY <1>1, <1>5
<1>7. ASSUME NEW s \in SUBSET (1..n), s # {}, h[s \ {Max(s)}] \in A PROVE h[s] \in A
  BY <1>1, <1>2, <1>6, <1>7, LastOfPart
<1>8. h[DOMAIN q] \in A
  BY <1>1, <1>6, <1>7, FoldStays
<1> DEFINE s == h[DOMAIN q]
<1>9. s \in Plans(cash, exclude, equity, held) /\ B = s.budget
  BY <1>3, <1>8 DEF A
<1>. HIDE DEF s
<1>10. /\ s.cash \in Nat /\ B \in [Tickers -> Nat] /\ s.cash + Total(B, Tickers) <= cash
       /\ \A t \in Tickers : B[t] > 0 =>
            MinCash(equity) <= s.cash /\ held[t] + B[t] <= MaxValue(equity) /\ t \notin exclude
  BY <1>9 DEF Plans, Holdings
<1>11. Total(B, Tickers) \in Nat /\ MinCash(equity) \in Nat
  BY <1>10, TotalType, LimitsTyped, Percentages
<1>12. Affordable(B, cash, equity, held)
  <2> SUFFICES ASSUME NEW t \in Tickers, B[t] > 0
               PROVE  /\ Total(B, Tickers) + MinCash(equity) <= cash
                      /\ held[t] + B[t] <= MaxValue(equity)
    BY DEF Affordable
  <2>. QED BY <1>10, <1>11
<1>13. ASSUME NEW t \in Tickers, t \in exclude PROVE B[t] = 0
  BY <1>10, <1>13
<1>. QED BY <1>10, <1>12, <1>13 DEF Holdings

-----------------------------------------------------------------------------
(* Trades.                                                                 *)

LEMMA SellEffect ==
  ASSUME NEW b \in Ledger, NEW t \in Tickers, NEW size \in Nat, NEW c, c = Sell(b, t, size)
  PROVE  /\ c \in Ledger /\ Equity(c) = Equity(b) /\ Open(c) \subseteq Open(b)
         /\ c.cash >= b.cash /\ c.held[t] <= b.held[t]
         /\ \A u \in Tickers \ {t} : c.held[u] = b.held[u]
<1> DEFINE sold == IF size = 0 THEN b.held[t] ELSE Min({size, b.held[t]})
           held == [b.held EXCEPT ![t] = @ - sold]
<1>1. b.cash \in Nat /\ b.held \in [Tickers -> Nat] /\ b.held[t] \in Nat
  BY LedgerTyped
<1>2. c = [cash |-> b.cash + sold, held |-> held]
  BY DEF Sell
<1>3. sold \in Nat /\ sold <= b.held[t]
  <2>1. Min({size, b.held[t]}) = IF size <= b.held[t] THEN size ELSE b.held[t]
    BY <1>1, MinOfTwo
  <2>. QED BY <1>1, <2>1
<1>. HIDE DEF sold
<1>4. /\ held \in [Tickers -> Nat] /\ held[t] = b.held[t] - sold
      /\ \A u \in Tickers \ {t} : held[u] = b.held[u]
  BY <1>1, <1>3
<1>. HIDE DEF held
<1>5. c.cash = b.cash + sold /\ c.held = held
  BY <1>2
<1>6. c \in Ledger
  BY <1>1, <1>2, <1>3, <1>4 DEF Ledger, Holdings
<1>7. Total(held, Tickers) = (Total(b.held, Tickers) - b.held[t]) + held[t]
  BY <1>1, <1>4, TotalChange, Percentages
<1>8. /\ Equity(c) = c.cash + Total(c.held, Tickers) /\ Equity(b) = b.cash + Total(b.held, Tickers)
      /\ Total(b.held, Tickers) \in Nat
  BY <1>1, <1>6, LedgerTyped, TotalType, Percentages
<1>9. Equity(c) = Equity(b)
  BY <1>1, <1>3, <1>4, <1>5, <1>7, <1>8
<1>10. Open(c) \subseteq Open(b)
  <2>1. \A u \in Tickers : c.held[u] > 0 => b.held[u] > 0
    BY <1>1, <1>3, <1>4, <1>5
  <2>. QED BY <2>1 DEF Open
<1>. QED BY <1>1, <1>3, <1>4, <1>5, <1>6, <1>9, <1>10

LEMMA BuyEffect ==
  ASSUME NEW b \in Ledger, NEW t \in Tickers, NEW budget \in Nat, NEW c, c = Buy(b, t, budget)
  PROVE  /\ c \in Ledger /\ Equity(c) = Equity(b) /\ Open(c) \subseteq Open(b) \cup {t}
         /\ b.cash - budget <= c.cash /\ c.cash <= b.cash
         /\ b.held[t] <= c.held[t] /\ c.held[t] <= b.held[t] + budget
         /\ \A u \in Tickers \ {t} : c.held[u] = b.held[u]
<1>1. b.cash \in Nat /\ b.held \in [Tickers -> Nat] /\ b.held[t] \in Nat
  BY LedgerTyped
<1>2. CASE budget < 1 \/ budget > b.cash
  <2>1. c = b
    BY <1>2 DEF Buy
  <2>. QED BY <1>1, <2>1
<1>3. CASE ~(budget < 1 \/ budget > b.cash)
  <2> DEFINE held == [b.held EXCEPT ![t] = @ + budget]
  <2>1. c = [cash |-> b.cash - budget, held |-> held]
    BY <1>3 DEF Buy
  <2>2. b.cash - budget \in Nat
    BY <1>1, <1>3
  <2>3. /\ held \in [Tickers -> Nat] /\ held[t] = b.held[t] + budget
        /\ \A u \in Tickers \ {t} : held[u] = b.held[u]
    BY <1>1
  <2>. HIDE DEF held
  <2>4. c.cash = b.cash - budget /\ c.held = held
    BY <2>1
  <2>5. c \in Ledger
    BY <2>1, <2>2, <2>3 DEF Ledger, Holdings
  <2>6. Total(held, Tickers) = (Total(b.held, Tickers) - b.held[t]) + held[t]
    BY <1>1, <2>3, TotalChange, Percentages
  <2>7. /\ Equity(c) = c.cash + Total(c.held, Tickers) /\ Equity(b) = b.cash + Total(b.held, Tickers)
        /\ Total(b.held, Tickers) \in Nat
    BY <1>1, <2>5, LedgerTyped, TotalType, Percentages
  <2>8. Equity(c) = Equity(b)
    BY <1>1, <2>3, <2>4, <2>6, <2>7
  <2>9. Open(c) \subseteq Open(b) \cup {t}
    BY <2>3, <2>4 DEF Open
  <2>. QED BY <1>1, <2>3, <2>4, <2>5, <2>8, <2>9
<1>. QED BY <1>2, <1>3

\* The books in the course of a batch of trades.
Trades(b, p, c) ==
  /\ c \in Ledger /\ Equity(c) = Equity(b)
  /\ Open(c) \subseteq IF p.side = "BUY" THEN Open(b) \cup {p.ticker} ELSE Open(b)
  /\ \A t \in Tickers \ {p.ticker} : c.held[t] = b.held[t]
  /\ p.side = "SELL" => c.held[p.ticker] <= b.held[p.ticker]
  /\ p.side = "BUY" => /\ b.held[p.ticker] <= c.held[p.ticker]
                       /\ c.held[p.ticker] <= b.held[p.ticker] + p.budget

LEMMA ExecuteEffect ==
  ASSUME NEW b \in Ledger, NEW p \in Proposal, NEW c, c = Execute(b, p)
  PROVE  Trades(b, p, c)
<1>1. p.ticker \in Tickers /\ p.budget \in Nat /\ p.side \in {"BUY", "SELL"}
  BY DEF Proposal
<1>2. CASE p.side = "SELL"
  <2>1. c = Sell(b, p.ticker, 0) /\ 0 \in Nat
    BY <1>2 DEF Execute
  <2>2. /\ c \in Ledger /\ Equity(c) = Equity(b) /\ Open(c) \subseteq Open(b)
        /\ c.held[p.ticker] <= b.held[p.ticker]
        /\ \A t \in Tickers \ {p.ticker} : c.held[t] = b.held[t]
    BY <1>1, <2>1, SellEffect
  <2>. QED BY <1>2, <2>2 DEF Trades
<1>3. CASE p.side = "BUY"
  <2>1. c = Buy(b, p.ticker, p.budget)
    BY <1>3 DEF Execute
  <2>2. /\ c \in Ledger /\ Equity(c) = Equity(b) /\ Open(c) \subseteq Open(b) \cup {p.ticker}
        /\ b.held[p.ticker] <= c.held[p.ticker] /\ c.held[p.ticker] <= b.held[p.ticker] + p.budget
        /\ \A t \in Tickers \ {p.ticker} : c.held[t] = b.held[t]
    BY <1>1, <2>1, BuyEffect
  <2>. QED BY <1>3, <2>2 DEF Trades
<1>. QED BY <1>1, <1>2, <1>3

BatchRun(g, b, trades) ==
  /\ g \in [0..Len(trades) -> Ledger]
  /\ g[0] = b /\ g[Len(trades)] = Executed(b, trades)
  /\ \A k \in 1..Len(trades) : g[k] = Execute(g[k - 1], trades[k])

LEMMA BatchRuns ==
  ASSUME NEW b \in Ledger, NEW trades \in Seq(Proposal)
  PROVE  \E g : BatchRun(g, b, trades)
<1> DEFINE A == Ledger
           T == Proposal
           q == trades
           n == Len(q)
           base == b
           op(s, x) == Execute(s, x)
           F == [p \in A \X T |-> op(p[1], p[2])]
           Solves(h) == h = [s \in SUBSET (DOMAIN q) |->
                               IF s = {} THEN base ELSE op(h[s \ {Max(s)}], q[Max(s)])]
           h == CHOOSE g : Solves(g)
<1>1. n \in Nat /\ q \in [1..n -> T] /\ DOMAIN q = 1..n /\ base \in A
  OBVIOUS
<1>2. ASSUME NEW s \in A, NEW x \in T PROVE op(s, x) \in A
  <2>1. Trades(s, x, Execute(s, x))
    BY ExecuteEffect
  <2>. QED BY <2>1 DEF Trades
<1>3. Executed(b, trades) = h[DOMAIN q]
  BY DEF Executed, FoldLeft, MapThenFoldSet
<1>4. F \in [A \X T -> A] /\ \A s \in A, x \in T : F[<<s, x>>] = op(s, x)
  BY <1>2
<1>. HIDE DEF F, n, A, T, q, op, base
<1>5. Foldable(A, T, F, n, q, base)
  BY <1>1, <1>4 DEF Foldable
<1>6. Solves(h)
  <2>1. PICK g : RunsFold(g, A, T, F, n, q, base)
    BY <1>5, FoldSolved
  <2>2. \A s \in SUBSET (1..n) : g[s] = IF s = {} THEN base ELSE op(g[s \ {Max(s)}], q[Max(s)])
    BY <1>4, <2>1 DEF RunsFold
  <2>3. Solves(g)
    BY <1>1, <2>1, <2>2 DEF RunsFold
  <2>. QED BY <2>3
<1>. HIDE DEF h
<1>7. h[{}] = base /\ \A s \in SUBSET (1..n) : s # {} => h[s] = op(h[s \ {Max(s)}], q[Max(s)])
  BY <1>1, <1>6
<1>8. FoldedBy(h, A, F, n, q, base)
  <2>1. ASSUME NEW s \in SUBSET (1..n), s # {}, h[s \ {Max(s)}] \in A
        PROVE  h[s] = F[<<h[s \ {Max(s)}], q[Max(s)]>>]
    BY <1>1, <1>4, <1>7, <2>1, LastOfPart
  <2>. QED BY <1>7, <2>1 DEF FoldedBy
<1>9. PICK g : StepsOf(g, A, T, F, n, q, base) /\ g[n] = h[1..n]
  BY <1>5, <1>8, FoldRuns
<1>10. /\ g \in [0..n -> A] /\ g[0] = base
       /\ \A k \in 1..n : g[k - 1] \in A /\ q[k] \in T /\ g[k] = op(g[k - 1], q[k])
  BY <1>4, <1>9 DEF StepsOf
<1>11. g[n] = Executed(b, trades)
  BY <1>1, <1>3, <1>9
<1>. QED BY <1>10, <1>11 DEF BatchRun, A, n, q, op, base

\* A batch of trades neither makes nor loses money, and opens only names that
\* it buys.
Reached(b, names) == {c \in Ledger : Equity(c) = Equity(b) /\ Open(c) \subseteq Open(b) \cup names}

LEMMA ExecutedEffect ==
  ASSUME NEW b \in Ledger, NEW names, NEW trades \in Seq({p \in Proposal : p.side = "BUY" => p.ticker \in names})
  PROVE  Executed(b, trades) \in Reached(b, names)
<1> DEFINE n == Len(trades)
<1>1. trades \in Seq(Proposal) /\ n \in Nat
  BY WiderSeq
<1>2. PICK g : BatchRun(g, b, trades)
  BY <1>1, BatchRuns
<1>3. /\ g \in [0..n -> Ledger] /\ g[0] = b /\ g[n] = Executed(b, trades)
      /\ \A k \in 1..n : g[k] = Execute(g[k - 1], trades[k])
  BY <1>2 DEF BatchRun
<1>4. \A k \in 1..n : trades[k] \in Proposal /\ (trades[k].side = "BUY" => trades[k].ticker \in names)
  OBVIOUS
<1> DEFINE I == {k \in 0..n : g[k] \in Reached(b, names)}
<1>. HIDE DEF n
<1>5. 0 \in I
  BY <1>1, <1>3 DEF Reached
<1>6. ASSUME NEW k \in 1..n, k - 1 \in I PROVE k \in I
  <2>1. k \in 0..n /\ g[k - 1] \in Ledger /\ g[k - 1] \in Reached(b, names)
    BY <1>1, <1>3, <1>6 DEF Reached
  <2>2. /\ g[k] \in Ledger /\ Equity(g[k]) = Equity(g[k - 1])
        /\ Open(g[k]) \subseteq Open(g[k - 1]) \cup names
    <3>1. g[k] = Execute(g[k - 1], trades[k])
      BY <1>3
    <3>2. Trades(g[k - 1], trades[k], g[k])
      BY <1>4, <2>1, <3>1, ExecuteEffect
    <3>. QED BY <1>4, <3>2 DEF Trades
  <2>3. g[k] \in Reached(b, names)
    BY <2>1, <2>2 DEF Reached
  <2>. QED BY <2>1, <2>3
<1>7. \A k \in 0..n : k \in I
  <2>. HIDE DEF I
  <2>. QED BY <1>1, <1>5, <1>6, UpTo
<1>8. n \in 0..n
  BY <1>1
<1>. QED BY <1>3, <1>7, <1>8

\* A name ends with at most what its one purchase adds, and with no less than
\* before when nothing of it is sold.
LEMMA ExecutedOn ==
  ASSUME NEW b \in Ledger, NEW trades \in Seq(Proposal), NEW t \in Tickers, NEW v \in Nat,
         NEW c, c = Executed(b, trades),
         \A i \in DOMAIN trades : trades[i].ticker = t /\ trades[i].side = "BUY" => trades[i].budget <= v,
         \A i, j \in DOMAIN trades :
           /\ trades[i].ticker = t /\ trades[i].side = "BUY"
           /\ trades[j].ticker = t /\ trades[j].side = "BUY"
           => i = j
  PROVE  c.held[t] <= b.held[t] + v
<1> DEFINE n == Len(trades)
           Buying(i) == trades[i].ticker = t /\ trades[i].side = "BUY"
<1>1. n \in Nat /\ DOMAIN trades = 1..n /\ \A k \in 1..n : trades[k] \in Proposal
  OBVIOUS
<1>2. PICK g : BatchRun(g, b, trades)
  BY BatchRuns
<1>3. /\ g \in [0..n -> Ledger] /\ g[0] = b /\ g[n] = c
      /\ \A k \in 1..n : g[k] = Execute(g[k - 1], trades[k])
  BY <1>2 DEF BatchRun
<1>. HIDE DEF n
<1> DEFINE size(k) == g[k].held[t]
           I == {k \in 0..n : size(k) <= b.held[t] + v /\ ((\A i \in 1..k : ~Buying(i)) => size(k) <= b.held[t])}
<1>4. \A k \in 0..n : size(k) \in Nat
  BY <1>3, LedgerTyped
<1>5. 0 \in I
  BY <1>1, <1>3, <1>4, LedgerTyped
<1>6. ASSUME NEW k \in 1..n, k - 1 \in I PROVE k \in I
  <2>1. /\ k \in 0..n /\ k - 1 \in 0..n /\ b.held[t] \in Nat
        /\ trades[k].ticker \in Tickers /\ trades[k].side \in {"BUY", "SELL"} /\ trades[k].budget \in Nat
    BY <1>1, LedgerTyped DEF Proposal
  <2>2. /\ t # trades[k].ticker => size(k) = size(k - 1)
        /\ t = trades[k].ticker /\ trades[k].side = "SELL" => size(k) <= size(k - 1)
        /\ Buying(k) => size(k) <= size(k - 1) + trades[k].budget
    <3>1. g[k] = Execute(g[k - 1], trades[k]) /\ g[k - 1] \in Ledger /\ trades[k] \in Proposal
      BY <1>1, <1>3, <2>1
    <3>2. Trades(g[k - 1], trades[k], g[k])
      BY <3>1, ExecuteEffect
    <3>. QED BY <3>2 DEF Trades
  <2>3. /\ size(k - 1) <= b.held[t] + v /\ size(k - 1) \in Nat /\ size(k) \in Nat
        /\ (\A i \in 1..(k - 1) : ~Buying(i)) => size(k - 1) <= b.held[t]
    BY <1>4, <1>6, <2>1
  <2>. HIDE DEF size
  <2>4. CASE Buying(k)
    <3>1. \A i \in 1..(k - 1) : ~Buying(i)
      <4>1. \A i \in 1..(k - 1) : i \in DOMAIN trades /\ i # k
        BY <1>1
      <4>. QED BY <1>1, <2>4, <4>1
    <3>2. trades[k].budget <= v
      BY <1>1, <2>4
    <3>3. k \in 1..k
      BY <1>1
    <3>. QED BY <2>1, <2>2, <2>3, <2>4, <3>1, <3>2, <3>3
  <2>5. CASE ~Buying(k)
    <3>1. size(k) <= size(k - 1)
      BY <2>1, <2>2, <2>3, <2>5
    <3>2. 1..(k - 1) \subseteq 1..k
      BY <1>1
    <3>. QED BY <2>1, <2>3, <3>1, <3>2
  <2>. QED BY <2>4, <2>5
<1>7. \A k \in 0..n : k \in I
  <2>. HIDE DEF I
  <2>. QED BY <1>1, <1>5, <1>6, UpTo
<1>8. n \in 0..n
  BY <1>1
<1>. QED BY <1>3, <1>7, <1>8

LEMMA ExecutedUnsold ==
  ASSUME NEW b \in Ledger, NEW trades \in Seq(Proposal), NEW t \in Tickers,
         NEW c, c = Executed(b, trades),
         \A i \in DOMAIN trades : trades[i].ticker = t => trades[i].side = "BUY"
  PROVE  b.held[t] <= c.held[t]
<1> DEFINE n == Len(trades)
<1>1. n \in Nat /\ DOMAIN trades = 1..n /\ \A k \in 1..n : trades[k] \in Proposal
  OBVIOUS
<1>2. PICK g : BatchRun(g, b, trades)
  BY BatchRuns
<1>3. /\ g \in [0..n -> Ledger] /\ g[0] = b /\ g[n] = c
      /\ \A k \in 1..n : g[k] = Execute(g[k - 1], trades[k])
  BY <1>2 DEF BatchRun
<1>. HIDE DEF n
<1> DEFINE size(k) == g[k].held[t]
           I == {k \in 0..n : b.held[t] <= size(k)}
<1>4. \A k \in 0..n : size(k) \in Nat
  BY <1>3, LedgerTyped
<1>5. 0 \in I
  BY <1>1, <1>3, <1>4
<1>6. ASSUME NEW k \in 1..n, k - 1 \in I PROVE k \in I
  <2>1. k \in 0..n /\ k - 1 \in 0..n /\ b.held[t] \in Nat
    BY <1>1, LedgerTyped
  <2>2. size(k - 1) <= size(k)
    <3>1. g[k] = Execute(g[k - 1], trades[k]) /\ g[k - 1] \in Ledger /\ trades[k] \in Proposal
      BY <1>1, <1>3, <2>1
    <3>2. t = trades[k].ticker => trades[k].side = "BUY"
      BY <1>1
    <3>3. Trades(g[k - 1], trades[k], g[k])
      BY <3>1, ExecuteEffect
    <3>4. t # trades[k].ticker => size(k) = size(k - 1)
      BY <3>3 DEF Trades
    <3>5. t = trades[k].ticker => size(k - 1) <= size(k)
      BY <3>2, <3>3 DEF Trades
    <3>. QED BY <1>4, <2>1, <3>4, <3>5
  <2>3. size(k - 1) \in Nat /\ size(k) \in Nat /\ b.held[t] <= size(k - 1)
    BY <1>4, <1>6, <2>1
  <2>. HIDE DEF size
  <2>. QED BY <2>1, <2>2, <2>3
<1>7. \A k \in 0..n : k \in I
  <2>. HIDE DEF I
  <2>. QED BY <1>1, <1>5, <1>6, UpTo
<1>8. n \in 0..n
  BY <1>1
<1>. QED BY <1>3, <1>7, <1>8

LEMMA ExecutedWithin ==
  ASSUME NEW b \in Ledger, NEW trades \in Seq(Proposal), NEW B \in Holdings, Within(trades, B),
         NEW c, c = Executed(b, trades), NEW t \in Tickers
  PROVE  c.held[t] <= b.held[t] + B[t]
<1>1. B[t] \in Nat
  BY DEF Holdings
<1>2. \A i \in DOMAIN trades : trades[i].ticker = t /\ trades[i].side = "BUY" => trades[i].budget <= B[t]
  BY DEF Within
<1>3. \A i, j \in DOMAIN trades :
        /\ trades[i].ticker = t /\ trades[i].side = "BUY"
        /\ trades[j].ticker = t /\ trades[j].side = "BUY"
        => i = j
  BY DEF Within
<1>. QED BY <1>1, <1>2, <1>3, ExecutedOn

\* A book that has spent no more than was set aside keeps the buffer, once
\* something was.
LEMMA BufferLeft ==
  ASSUME NEW b \in Ledger, NEW c \in Ledger, Equity(c) = Equity(b), NEW B \in Holdings,
         \A t \in Tickers : c.held[t] <= b.held[t] + B[t]
  PROVE  /\ b.cash <= c.cash + Total(B, Tickers)
         /\ Affordable(B, b.cash, Equity(b), b.held) /\ (\E t \in Tickers : B[t] > 0)
            => MinCash(Equity(b)) <= c.cash
<1>1. /\ b.held \in [Tickers -> Nat] /\ c.held \in [Tickers -> Nat] /\ B \in [Tickers -> Nat]
      /\ Equity(b) = b.cash + Total(b.held, Tickers) /\ Equity(c) = c.cash + Total(c.held, Tickers)
      /\ b.cash \in Nat /\ c.cash \in Nat /\ Equity(b) \in Nat
  BY LedgerTyped DEF Holdings
<1>2. Total(c.held, Tickers) <= Total(b.held, Tickers) + Total(B, Tickers)
  BY <1>1, TotalsBound, Percentages
<1>3. Total(c.held, Tickers) \in Nat /\ Total(b.held, Tickers) \in Nat /\ Total(B, Tickers) \in Nat
  BY <1>1, TotalType, Percentages
<1>4. b.cash <= c.cash + Total(B, Tickers)
  BY <1>1, <1>2, <1>3
<1>5. ASSUME Affordable(B, b.cash, Equity(b), b.held), NEW t \in Tickers, B[t] > 0
      PROVE  MinCash(Equity(b)) <= c.cash
  <2>1. Total(B, Tickers) + MinCash(Equity(b)) <= b.cash
    BY <1>5 DEF Affordable
  <2>2. MinCash(Equity(b)) \in Nat
    BY <1>1, LimitsTyped
  <2>. QED BY <1>1, <1>3, <1>4, <2>1, <2>2
<1>. QED BY <1>4, <1>5
=============================================================================
