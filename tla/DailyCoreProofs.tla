--------------------------- MODULE DailyCoreProofs ---------------------------
(* DailyBook and DailyCore, for every value of the constants: what a        *)
(* deployment pass does to a book, whatever the ranking, the money and the   *)
(* monthly contribution through every overlap of the transactions, and that  *)
(* the engine's transactions and the backfill are steps of the book.         *)
EXTENDS DailyCore, FiniteLemmas

-----------------------------------------------------------------------------
(* The operators of the book.                                              *)

LEMMA Constants ==
  /\ IsFiniteSet(Tickers) /\ Rankings \subseteq Seq(Tickers)
  /\ TargetN \in Nat /\ TargetN > 0
  /\ StartCash \in Nat /\ Contribution \in Nat /\ Contribution > 0
  /\ \A scale \in Scales : scale \in 0..4
BY BookAssumption

LEMMA LibraryOperators ==
  /\ \A v, S : Abstract!Worth(v, S) = Total(v, S)
  /\ \A S : Abstract!Min(S) = Min(S) /\ Abstract!Max(S) = Max(S)
<1>1. ASSUME NEW v, NEW S PROVE Abstract!Worth(v, S) = Total(v, S)
  BY DEF Abstract!Worth, Total, MapThenSumSet, Abstract!MapThenSumSet, MapThenFoldSet,
    Abstract!MapThenFoldSet
<1>2. \A S : Abstract!Min(S) = Min(S) /\ Abstract!Max(S) = Max(S)
  BY DEF Abstract!Min, Min, Abstract!Max, Max
<1>. QED BY <1>1, <1>2

LEMMA EquityTyped ==
  ASSUME NEW b \in Abstract!Book
  PROVE  /\ Abstract!Invested(b) = Total(b.value, Tickers) /\ Abstract!Invested(b) \in Nat
         /\ Abstract!Equity(b) = b.cash + Total(b.value, Tickers) /\ Abstract!Equity(b) \in Nat
         /\ Abstract!Weight(b) \in Nat
         /\ b.cash \in Nat /\ b.value \in [Tickers -> Nat]
<1>1. b.cash \in Nat /\ b.value \in [Tickers -> Nat]
  BY DEF Abstract!Book
<1>2. Total(b.value, Tickers) \in Nat
  BY <1>1, TotalType, Constants
<1>. QED BY <1>1, <1>2, LibraryOperators, Constants
       DEF Abstract!Invested, Abstract!Equity, Abstract!Weight

\* A sale turns value into cash.
LEMMA SoldBook ==
  ASSUME NEW b \in Abstract!Book, NEW S \in SUBSET Tickers
  PROVE  /\ Abstract!Sold(b, S) \in Abstract!Book
         /\ Abstract!Equity(Abstract!Sold(b, S)) = Abstract!Equity(b)
<1> DEFINE rest == [t \in Tickers |-> IF t \in S THEN 0 ELSE b.value[t]]
           c == Abstract!Sold(b, S)
<1>1. b.cash \in Nat /\ b.value \in [Tickers -> Nat] /\ rest \in [Tickers -> Nat]
  BY DEF Abstract!Book
<1>2. /\ Total(b.value, S) \in Nat /\ Total(rest, Tickers) \in Nat
      /\ Total(b.value, Tickers) = Total(b.value, S) + Total(rest, Tickers)
  BY <1>1, TotalOfParts, Constants
<1>3. c = [cash |-> b.cash + Total(b.value, S), value |-> rest]
  BY LibraryOperators DEF Abstract!Sold
<1>. HIDE DEF rest, c
<1>4. c \in Abstract!Book
  BY <1>1, <1>2, <1>3 DEF Abstract!Book
<1>5. Abstract!Equity(c) = c.cash + Total(c.value, Tickers)
      /\ Abstract!Equity(b) = b.cash + Total(b.value, Tickers)
  BY <1>4, EquityTyped
<1>6. Abstract!Equity(c) = Abstract!Equity(b)
  BY <1>1, <1>2, <1>3, <1>5
<1>. QED BY <1>4, <1>6 DEF c

-----------------------------------------------------------------------------
(* One purchase of the pass.                                               *)

Buying == [book: Abstract!Book, room: Nat]

\* Nothing more can be bought of t.
Satisfied(s, t, weight) == Abstract!Budget(s, t, weight) < 1

LEMMA BudgetIsLeast ==
  ASSUME NEW s \in Buying, NEW t \in Tickers, NEW weight \in Nat
  PROVE  LET budget == Abstract!Budget(s, t, weight)
         IN  /\ budget \in {weight - s.book.value[t], s.room, s.book.cash}
             /\ budget <= weight - s.book.value[t] /\ budget <= s.room /\ budget <= s.book.cash
             /\ budget \in Int
<1>1. weight - s.book.value[t] \in Int /\ s.room \in Int /\ s.book.cash \in Int
  BY DEF Buying, Abstract!Book
<1>. QED BY <1>1, MinOfThree, LibraryOperators DEF Abstract!Budget

\* From s to r money was spent on holdings, and nothing was sold.
Grew(s, r) ==
  /\ s \in Buying /\ r \in Buying
  /\ Abstract!Equity(r.book) = Abstract!Equity(s.book)
  /\ r.room + Abstract!Invested(r.book) = s.room + Abstract!Invested(s.book)
  /\ r.book.cash <= s.book.cash /\ r.room <= s.room
  /\ s.book.cash - r.book.cash = s.room - r.room
  /\ \A u \in Tickers : r.book.value[u] >= s.book.value[u]

LEMMA BuyingTyped ==
  ASSUME NEW s \in Buying
  PROVE  /\ s.book \in Abstract!Book /\ s.room \in Nat
         /\ s.book.cash \in Nat /\ s.book.value \in [Tickers -> Nat]
         /\ \A u \in Tickers : s.book.value[u] \in Nat
         /\ Abstract!Equity(s.book) \in Nat /\ Abstract!Invested(s.book) \in Nat
<1>1. s.book \in Abstract!Book /\ s.room \in Nat
  BY DEF Buying
<1>2. s.book.cash \in Nat /\ s.book.value \in [Tickers -> Nat]
  BY <1>1 DEF Abstract!Book
<1>3. Abstract!Equity(s.book) \in Nat /\ Abstract!Invested(s.book) \in Nat
  BY <1>1, EquityTyped
<1>. QED BY <1>1, <1>2, <1>3

LEMMA GrewNot ==
  ASSUME NEW s \in Buying
  PROVE  Grew(s, s)
<1>1. s.room \in Nat /\ s.book.cash \in Nat /\ \A u \in Tickers : s.book.value[u] \in Nat
  BY BuyingTyped
<1>. QED BY <1>1 DEF Grew

LEMMA GrewTwice ==
  ASSUME NEW p, NEW q, NEW r, Grew(p, q), Grew(q, r)
  PROVE  Grew(p, r)
<1>1. p \in Buying /\ q \in Buying /\ r \in Buying
  BY DEF Grew
<1>2. /\ p.room \in Nat /\ p.book.cash \in Nat /\ q.room \in Nat /\ q.book.cash \in Nat
      /\ r.room \in Nat /\ r.book.cash \in Nat
  BY <1>1, BuyingTyped
<1>3. ASSUME NEW u \in Tickers PROVE r.book.value[u] >= p.book.value[u]
  <2>1. p.book.value[u] \in Nat /\ q.book.value[u] \in Nat /\ r.book.value[u] \in Nat
    BY <1>1, BuyingTyped
  <2>2. r.book.value[u] >= q.book.value[u] /\ q.book.value[u] >= p.book.value[u]
    BY DEF Grew
  <2>. QED BY <2>1, <2>2
<1>4. r.book.cash <= p.book.cash /\ r.room <= p.room
  BY <1>2 DEF Grew
<1>5. p.book.cash - r.book.cash = p.room - r.room
  BY <1>2 DEF Grew
<1>. QED BY <1>1, <1>3, <1>4, <1>5 DEF Grew

LEMMA BoughtStep ==
  ASSUME NEW s \in Buying, NEW t \in Tickers, NEW weight \in Nat, NEW r,
         r = Abstract!Bought(s, t, weight)
  PROVE  /\ Grew(s, r)
         /\ \A u \in Tickers \ {t} : r.book.value[u] = s.book.value[u]
         /\ Satisfied(r, t, weight)
         /\ r # s => r.book.value[t] > s.book.value[t] /\ s.room >= 1 /\ s.book.cash >= 1
         /\ Satisfied(s, t, weight) => r = s
<1> DEFINE budget == Abstract!Budget(s, t, weight)
           v == [s.book.value EXCEPT ![t] = @ + budget]
<1>1. /\ budget \in {weight - s.book.value[t], s.room, s.book.cash}
      /\ budget <= weight - s.book.value[t] /\ budget <= s.room /\ budget <= s.book.cash
      /\ budget \in Int
  BY BudgetIsLeast
<1>2. /\ s.book \in Abstract!Book /\ s.room \in Nat
      /\ s.book.cash \in Nat /\ s.book.value \in [Tickers -> Nat]
  BY DEF Buying, Abstract!Book
<1>3. CASE budget < 1
  <2>1. r = s
    BY <1>3 DEF Abstract!Bought
  <2>2. Satisfied(s, t, weight)
    BY <1>3 DEF Satisfied
  <2>. QED BY <2>1, <2>2, GrewNot
<1>4. CASE ~(budget < 1)
  <2>1. r = [book |-> [cash |-> s.book.cash - budget, value |-> v], room |-> s.room - budget]
    BY <1>4 DEF Abstract!Bought
  <2>2. /\ s.book.cash - budget \in Nat /\ s.room - budget \in Nat
        /\ budget \in Nat /\ budget >= 1
    BY <1>1, <1>2, <1>4
  <2>3. /\ v \in [Tickers -> Nat] /\ v[t] = s.book.value[t] + budget
        /\ \A u \in Tickers \ {t} : v[u] = s.book.value[u]
    <3>. HIDE DEF budget
    <3>. QED BY <1>2, <2>2
  <2>. HIDE DEF v, budget
  <2>4. r \in Buying /\ r.book \in Abstract!Book /\ r.book.value = v
    BY <2>1, <2>2, <2>3 DEF Buying, Abstract!Book
  <2>5. Total(v, Tickers) = (Total(s.book.value, Tickers) - s.book.value[t]) + v[t]
    BY <1>2, <2>3, TotalChange, Constants
  <2>6. /\ s.book.value[t] \in Nat /\ Total(s.book.value, Tickers) \in Nat
        /\ Total(v, Tickers) = Total(s.book.value, Tickers) + budget
    <3>1. s.book.value[t] \in Nat /\ Total(s.book.value, Tickers) \in Nat
      BY <1>2, TotalType, Constants
    <3>. QED BY <2>2, <2>3, <2>5, <3>1
  <2>7. /\ Abstract!Equity(s.book) = s.book.cash + Total(s.book.value, Tickers)
        /\ Abstract!Invested(s.book) = Total(s.book.value, Tickers)
        /\ Abstract!Equity(r.book) = r.book.cash + Total(v, Tickers)
        /\ Abstract!Invested(r.book) = Total(v, Tickers)
    BY <1>2, <2>4, EquityTyped
  <2>8. r.book.cash = s.book.cash - budget /\ r.room = s.room - budget
    BY <2>1
  <2>9. Satisfied(r, t, weight)
    <3>1. /\ Abstract!Budget(r, t, weight) <= weight - r.book.value[t]
          /\ Abstract!Budget(r, t, weight) <= r.room /\ Abstract!Budget(r, t, weight) <= r.book.cash
          /\ Abstract!Budget(r, t, weight) \in Int
      BY <2>4, BudgetIsLeast
    <3>2. weight - r.book.value[t] = (weight - s.book.value[t]) - budget
      BY <2>2, <2>3, <2>4, <2>6
    <3>3. weight - s.book.value[t] \in Int
      BY <2>6
    <3>4. weight - r.book.value[t] = 0 \/ r.room = 0 \/ r.book.cash = 0
      <4>1. CASE budget = weight - s.book.value[t]
        BY <3>2, <3>3, <4>1
      <4>2. CASE budget = s.room
        BY <1>2, <2>8, <4>2
      <4>3. CASE budget = s.book.cash
        BY <1>2, <2>8, <4>3
      <4>. QED BY <1>1, <4>1, <4>2, <4>3
    <3>5. Abstract!Budget(r, t, weight) <= 0
      BY <3>1, <3>4
    <3>. QED BY <3>1, <3>5 DEF Satisfied
  <2>10. ~Satisfied(s, t, weight)
    BY <1>4 DEF Satisfied, budget
  <2>11. /\ Abstract!Equity(r.book) = Abstract!Equity(s.book)
         /\ r.room + Abstract!Invested(r.book) = s.room + Abstract!Invested(s.book)
         /\ r.book.cash <= s.book.cash /\ r.room <= s.room
         /\ s.book.cash - r.book.cash = s.room - r.room
         /\ s.room >= 1 /\ s.book.cash >= 1
    BY <1>2, <2>2, <2>6, <2>7, <2>8
  <2>12. ASSUME NEW u \in Tickers PROVE v[u] >= s.book.value[u]
    <3>1. s.book.value[u] \in Nat
      BY <1>2
    <3>2. CASE u = t
      BY <2>2, <2>3, <3>1, <3>2
    <3>3. CASE u # t
      BY <2>3, <3>1, <3>3
    <3>. QED BY <3>2, <3>3
  <2>13. v[t] > s.book.value[t]
    BY <2>2, <2>3, <2>6
  <2>14. Grew(s, r)
    BY <2>4, <2>11, <2>12 DEF Grew
  <2>. QED BY <2>3, <2>4, <2>9, <2>10, <2>11, <2>13, <2>14
<1>. QED BY <1>3, <1>4

-----------------------------------------------------------------------------
(* The purchases of a pass, one after the other.                           *)

LEMMA TargetsTyped ==
  ASSUME NEW ranking \in Rankings
  PROVE  LET q == Abstract!Targets(ranking)
         IN  /\ q \in Seq(Tickers) /\ Len(q) \in Nat /\ Len(q) <= Len(ranking)
             /\ Len(q) <= TargetN
             /\ q \in [1..Len(q) -> Tickers]
             /\ \A k \in 1..Len(q) : q[k] = ranking[k]
<1> DEFINE n == Min({TargetN, Len(ranking)})
<1>1. ranking \in Seq(Tickers) /\ Len(ranking) \in Nat
  BY Constants
<1>2. n \in Nat /\ n <= Len(ranking) /\ n <= TargetN
  BY <1>1, Constants, MinOfTwo
<1>3. Abstract!Targets(ranking) = SubSeq(ranking, 1, n)
  BY LibraryOperators DEF Abstract!Targets
<1>. HIDE DEF n
<1>4. /\ SubSeq(ranking, 1, n) \in Seq(Tickers) /\ Len(SubSeq(ranking, 1, n)) = n
      /\ \A k \in 1..n : SubSeq(ranking, 1, n)[k] = ranking[k]
  BY <1>1, <1>2
<1>5. SubSeq(ranking, 1, n) \in [1..n -> Tickers]
  <2>1. \A s \in Seq(Tickers) : s \in [1..Len(s) -> Tickers]
    OBVIOUS
  <2>. QED BY <1>4, <2>1
<1>. QED BY <1>2, <1>3, <1>4, <1>5

LEMMA RoomTyped ==
  ASSUME NEW b \in Abstract!Book, NEW scale \in Scales
  PROVE  /\ Abstract!Room(b, scale) \in Nat
         /\ scale = 4 => Abstract!Room(b, scale) = Abstract!Equity(b)
         /\ scale # 4 => Abstract!Room(b, scale) = 0
                        \/ 4 * (Abstract!Room(b, scale) + Abstract!Invested(b))
                             <= scale * Abstract!Equity(b)
<1>1. /\ Abstract!Equity(b) \in Nat /\ Abstract!Invested(b) \in Nat /\ scale \in 0..4
  BY EquityTyped, Constants
<1> DEFINE quarter == (Abstract!Equity(b) * scale) \div 4
<1>2. quarter \in Int /\ 4 * quarter <= scale * Abstract!Equity(b)
  <2>1. scale \in {0, 1, 2, 3, 4}
    BY <1>1
  <2>. QED BY <1>1, <2>1
<1>3. Abstract!Room(b, scale) = IF scale = 4 THEN Abstract!Equity(b)
                                ELSE IF quarter - Abstract!Invested(b) > 0
                                     THEN quarter - Abstract!Invested(b) ELSE 0
  BY DEF Abstract!Room
<1>. HIDE DEF quarter
<1>. QED BY <1>1, <1>2, <1>3

\* The books a deployment goes through, target by target.
Runs(run, b, in) ==
  LET q == Abstract!Targets(in.ranking)
  IN  /\ run \in [0..Len(q) -> Buying]
      /\ run[0] = [book |-> b, room |-> Abstract!Room(b, in.scale)]
      /\ \A k \in 1..Len(q) :
           run[k] = IF q[k] \in in.priced THEN Abstract!Bought(run[k - 1], q[k], Abstract!Weight(b))
                    ELSE run[k - 1]

\* The fold that the replay makes is such a run.
LEMMA DeploymentRuns ==
  ASSUME NEW b \in Abstract!Book, NEW in \in Abstract!Input
  PROVE  \E run : /\ Runs(run, b, in)
                  /\ Abstract!Deployed(b, in) = run[Len(Abstract!Targets(in.ranking))].book
<1> DEFINE q == Abstract!Targets(in.ranking)
           n == Len(q)
           W == Abstract!Weight(b)
           base == [book |-> b, room |-> Abstract!Room(b, in.scale)]
           buy(s, t) == IF t \in in.priced THEN Abstract!Bought(s, t, W) ELSE s
           F == [p \in Buying \X Tickers |-> buy(p[1], p[2])]
           Solves(h) == h = [s \in SUBSET (DOMAIN q) |->
                               IF s = {} THEN base ELSE buy(h[s \ {Max(s)}], q[Max(s)])]
           h == CHOOSE g : Solves(g)
<1>1. in.ranking \in Rankings /\ in.scale \in Scales
  BY DEF Abstract!Input
<1>2. n \in Nat /\ q \in [1..n -> Tickers] /\ DOMAIN q = 1..n
  BY <1>1, TargetsTyped
<1>3. W \in Nat
  BY EquityTyped
<1>4. base \in Buying
  BY <1>1, RoomTyped DEF Buying
<1>5. \A s \in Buying, t \in Tickers : buy(s, t) \in Buying
  BY <1>3, BoughtStep DEF Grew
<1>6. Abstract!Deployed(b, in) = h[DOMAIN q].book
  BY LibraryOperators DEF Abstract!Deployed, Abstract!FoldLeft, Abstract!MapThenFoldSet
<1>7. Solves(h)
  <2>1. F \in [Buying \X Tickers -> Buying]
    BY <1>5
  <2>. HIDE DEF F, q, n, base, W
  <2>7. Foldable(Buying, Tickers, F, n, q, base)
    BY <1>2, <1>4, <2>1 DEF Foldable
  <2>8. PICK g : SolvesFold(g, Buying, F, n, q, base)
    BY <2>7, FoldHasSolution
  <2>2. /\ g \in [SUBSET (1..n) -> Buying]
        /\ \A s \in SUBSET (1..n) :
             g[s] = IF s = {} THEN base ELSE F[<<g[s \ {Max(s)}], q[Max(s)]>>]
    BY <2>8 DEF SolvesFold
  <2>3. ASSUME NEW s \in SUBSET (1..n), s # {}
        PROVE  F[<<g[s \ {Max(s)}], q[Max(s)]>>] = buy(g[s \ {Max(s)}], q[Max(s)])
    <3>1. Max(s) \in 1..n
      <4>1. IsFiniteSet(1..n)
        BY <1>2, FS_Interval, 1 \in Int, n \in Int
      <4>2. IsFiniteSet(s)
        BY <4>1, FS_Subset
      <4>3. s \in SUBSET Nat
        OBVIOUS
      <4>. QED BY <2>3, <4>2, <4>3, MaxOfFinite
    <3>2. g[s \ {Max(s)}] \in Buying /\ q[Max(s)] \in Tickers
      BY <1>2, <2>2, <3>1
    <3>. QED BY <3>2 DEF F
  <2>4. \A s \in SUBSET (1..n) :
          g[s] = IF s = {} THEN base ELSE buy(g[s \ {Max(s)}], q[Max(s)])
    BY <2>2, <2>3
  <2>5. g = [s \in SUBSET (DOMAIN q) |->
               IF s = {} THEN base ELSE buy(g[s \ {Max(s)}], q[Max(s)])]
    BY <1>2, <2>2, <2>4
  <2>6. Solves(g)
    BY <2>5
  <2>. QED BY <2>6
<1>. HIDE DEF h, q, n, base, W, F
<1>8. \A s \in SUBSET (1..n) : h[s] = IF s = {} THEN base ELSE buy(h[s \ {Max(s)}], q[Max(s)])
  BY <1>2, <1>7
<1> DEFINE run == [k \in 0..n |-> h[1..k]]
<1>9. 1..0 = {} /\ h[1..0] = base
  <2>1. 1..0 = {} /\ {} \in SUBSET (1..n)
    OBVIOUS
  <2>. QED BY <1>8, <2>1
<1>10. ASSUME NEW k \in 1..n PROVE h[1..k] = buy(h[1..(k - 1)], q[k])
  BY <1>2, <1>8, LastOfInterval
<1>11. \A k \in 0..n : h[1..k] \in Buying
  <2> DEFINE S == {k \in 0..n : h[1..k] \in Buying}
  <2>1. 0 \in S
    BY <1>2, <1>4, <1>9
  <2>2. ASSUME NEW k \in 1..n, k - 1 \in S PROVE k \in S
    BY <1>2, <1>5, <1>10, <2>2
  <2>3. \A k \in 0..n : k \in S
    <3>. HIDE DEF S
    <3>. QED BY <1>2, <2>1, <2>2, UpTo
  <2>. QED BY <2>3
<1>12. Runs(run, b, in)
  <2>1. run \in [0..n -> Buying] /\ run[0] = base
    BY <1>2, <1>9, <1>11
  <2>2. ASSUME NEW k \in 1..n PROVE run[k] = buy(run[k - 1], q[k])
    <3>1. run[k] = h[1..k] /\ run[k - 1] = h[1..(k - 1)]
      BY <1>2
    <3>. HIDE DEF run
    <3>. QED BY <1>10, <3>1
  <2>. HIDE DEF run
  <2>. QED BY <2>1, <2>2 DEF Runs, q, n, base, W
<1>13. Abstract!Deployed(b, in) = run[n].book
  BY <1>2, <1>6
<1>. QED BY <1>12, <1>13 DEF q, n

LEMMA SatisfiedStays ==
  ASSUME NEW s \in Buying, NEW r \in Buying, NEW t \in Tickers, NEW weight \in Nat,
         Satisfied(s, t, weight), r.book.cash <= s.book.cash, r.room <= s.room,
         r.book.value[t] >= s.book.value[t]
  PROVE  Satisfied(r, t, weight)
<1>1. /\ s.book.cash \in Nat /\ s.room \in Nat /\ s.book.value[t] \in Nat
      /\ r.book.cash \in Nat /\ r.room \in Nat /\ r.book.value[t] \in Nat
  BY DEF Buying, Abstract!Book
<1>2. Abstract!Budget(s, t, weight) \in {weight - s.book.value[t], s.room, s.book.cash}
  BY BudgetIsLeast
<1>3. /\ Abstract!Budget(r, t, weight) <= weight - r.book.value[t]
      /\ Abstract!Budget(r, t, weight) <= r.room /\ Abstract!Budget(r, t, weight) <= r.book.cash
      /\ Abstract!Budget(r, t, weight) \in Int
  BY BudgetIsLeast
<1>. QED BY <1>1, <1>2, <1>3 DEF Satisfied

\* A purchase or none, for one target of a run.
LEMMA RunStep ==
  ASSUME NEW b \in Abstract!Book, NEW in \in Abstract!Input, NEW run, Runs(run, b, in),
         NEW k \in 1..Len(Abstract!Targets(in.ranking)), NEW t, NEW s, NEW r,
         t = Abstract!Targets(in.ranking)[k], s = run[k - 1], r = run[k]
  PROVE  /\ t \in Tickers /\ Grew(s, r)
         /\ \A u \in Tickers \ {t} : r.book.value[u] = s.book.value[u]
         /\ t \in in.priced => Satisfied(r, t, Abstract!Weight(b))
         /\ r # s => /\ r.book.value[t] > s.book.value[t] /\ s.room >= 1 /\ s.book.cash >= 1
                    /\ t \in in.priced
         /\ Satisfied(s, t, Abstract!Weight(b)) => r = s
<1> DEFINE q == Abstract!Targets(in.ranking)
           W == Abstract!Weight(b)
<1>1. in.ranking \in Rankings /\ W \in Nat
  BY EquityTyped DEF Abstract!Input
<1>2. Len(q) \in Nat /\ q \in [1..Len(q) -> Tickers]
  BY <1>1, TargetsTyped
<1>3. k - 1 \in 0..Len(q) /\ t \in Tickers
  BY <1>2
<1>4. s \in Buying
  BY <1>3 DEF Runs
<1>5. r = IF t \in in.priced THEN Abstract!Bought(s, t, W) ELSE s
  BY DEF Runs
<1>. HIDE DEF q, W
<1>6. CASE t \in in.priced
  <2>1. r = Abstract!Bought(s, t, W)
    BY <1>5, <1>6
  <2>. QED BY <1>1, <1>3, <1>4, <1>6, <2>1, BoughtStep DEF W
<1>7. CASE t \notin in.priced
  <2>1. r = s
    BY <1>5, <1>7
  <2>. QED BY <1>3, <1>4, <1>7, <2>1, GrewNot
<1>. QED BY <1>6, <1>7

\* From any point of a run on, money is spent and holdings grow.
LEMMA RunGrows ==
  ASSUME NEW b \in Abstract!Book, NEW in \in Abstract!Input, NEW run, Runs(run, b, in),
         NEW i \in 0..Len(Abstract!Targets(in.ranking)),
         NEW j \in 0..Len(Abstract!Targets(in.ranking)), i <= j
  PROVE  Grew(run[i], run[j])
<1> DEFINE n == Len(Abstract!Targets(in.ranking))
           S == {k \in 0..n : k >= i => Grew(run[i], run[k])}
<1>1. in.ranking \in Rankings
  BY DEF Abstract!Input
<1>2. n \in Nat
  BY <1>1, TargetsTyped
<1>3. run[i] \in Buying
  BY DEF Runs
<1>4. Grew(run[i], run[i])
  BY <1>3, GrewNot
<1>5. 0 \in S
  BY <1>2, <1>4
<1>6. ASSUME NEW k \in 1..n, k - 1 \in S PROVE k \in S
  <2>1. k - 1 \in 0..n /\ k \in 0..n
    BY <1>2
  <2>2. Grew(run[k - 1], run[k])
    BY RunStep
  <2>3. CASE k < i
    BY <2>1, <2>3
  <2>4. CASE k = i
    BY <1>4, <2>1, <2>4
  <2>5. CASE k > i
    <3>1. Grew(run[i], run[k - 1])
      BY <1>6, <2>1, <2>5
    <3>2. Grew(run[i], run[k])
      BY <2>2, <3>1, GrewTwice
    <3>. QED BY <2>1, <3>2
  <2>. QED BY <1>2, <2>1, <2>3, <2>4, <2>5
<1>7. \A k \in 0..n : k \in S
  <2>. HIDE DEF S
  <2>. QED BY <1>2, <1>5, <1>6, UpTo
<1>. QED BY <1>7
-----------------------------------------------------------------------------
(* A whole pass.                                                           *)

\* n: the targets of the pass; run: its books.
Deploys(run, n, b, in) ==
  /\ Runs(run, b, in) /\ n = Len(Abstract!Targets(in.ranking)) /\ n \in Nat
  /\ Abstract!Deployed(b, in) = run[n].book
  /\ Grew(run[0], run[n])
  /\ run[0].book = b /\ run[0].room = Abstract!Room(b, in.scale)

LEMMA DeploymentGrows ==
  ASSUME NEW b \in Abstract!Book, NEW in \in Abstract!Input
  PROVE  \E run, n : Deploys(run, n, b, in)
<1> DEFINE n == Len(Abstract!Targets(in.ranking))
<1>1. PICK run : Runs(run, b, in) /\ Abstract!Deployed(b, in) = run[n].book
  BY DeploymentRuns
<1>2. in.ranking \in Rankings
  BY DEF Abstract!Input
<1>3. n \in Nat /\ 0 \in 0..n /\ n \in 0..n /\ 0 <= n
  BY <1>2, TargetsTyped
<1>4. Grew(run[0], run[n])
  BY <1>1, <1>3, RunGrows
<1>5. run[0].book = b /\ run[0].room = Abstract!Room(b, in.scale)
  BY <1>1 DEF Runs
<1>6. Deploys(run, n, b, in)
  BY <1>1, <1>3, <1>4, <1>5 DEF Deploys
<1>. QED BY <1>6

\* The pass a clear verdict leads to, and the book it starts from.
Sale(b, in) == Abstract!Sold(b, Abstract!Released(in))

LEMMA SaleBook ==
  ASSUME NEW b \in Abstract!Book, NEW in \in Abstract!Input
  PROVE  /\ Sale(b, in) \in Abstract!Book
         /\ Abstract!Equity(Sale(b, in)) = Abstract!Equity(b)
         /\ Abstract!Released(in) \in SUBSET Tickers
<1>1. Abstract!Released(in) \in SUBSET Tickers
  BY DEF Abstract!Released
<1>. QED BY <1>1, SoldBook DEF Sale

LEMMA PassedCases ==
  ASSUME NEW b, NEW in \in Abstract!Input
  PROVE  /\ in.verdict = "out" => Abstract!Passed(b, in) = Abstract!Sold(b, Tickers)
         /\ in.verdict = "parked" => Abstract!Passed(b, in) = Sale(b, in)
         /\ in.verdict = "clear" => Abstract!Passed(b, in) = Abstract!Deployed(Sale(b, in), in)
         /\ in.verdict \in {"out", "parked", "clear"}
BY DEF Abstract!Passed, Sale, Abstract!Input, Abstract!Verdicts

\* A pass neither makes nor loses money, and ends in a book without debt.
LEMMA PassedBook ==
  ASSUME NEW b \in Abstract!Book, NEW in \in Abstract!Input
  PROVE  /\ Abstract!Passed(b, in) \in Abstract!Book
         /\ Abstract!Equity(Abstract!Passed(b, in)) = Abstract!Equity(b)
<1>1. CASE in.verdict = "out"
  BY <1>1, PassedCases, SoldBook
<1>2. CASE in.verdict = "parked"
  BY <1>2, PassedCases, SaleBook
<1>3. CASE in.verdict = "clear"
  <2>1. Sale(b, in) \in Abstract!Book
    BY SaleBook
  <2>2. PICK run, n : Deploys(run, n, Sale(b, in), in)
    BY <2>1, DeploymentGrows
  <2>3. run[n].book \in Abstract!Book /\ Abstract!Equity(run[n].book) = Abstract!Equity(run[0].book)
    BY <2>2, BuyingTyped DEF Deploys, Grew
  <2>. QED BY <1>3, <2>2, <2>3, PassedCases, SaleBook DEF Deploys
<1>. QED BY <1>1, <1>2, <1>3, PassedCases

\* To sell what is worth nothing changes nothing.
LEMMA SoldNothing ==
  ASSUME NEW b \in Abstract!Book, NEW S \in SUBSET Tickers, \A t \in S : b.value[t] = 0
  PROVE  Abstract!Sold(b, S) = b
<1> DEFINE rest == [t \in Tickers |-> IF t \in S THEN 0 ELSE b.value[t]]
<1>1. b.cash \in Nat /\ b.value \in [Tickers -> Nat]
  BY DEF Abstract!Book
<1>2. rest = b.value
  BY <1>1
<1>3. /\ Total(b.value, S) \in Nat /\ Total(rest, Tickers) \in Nat
      /\ Total(b.value, Tickers) = Total(b.value, S) + Total(rest, Tickers)
  BY <1>1, TotalOfParts, Constants
<1>4. Total(b.value, S) = 0
  BY <1>2, <1>3
<1>5. Abstract!Sold(b, S) = [cash |-> b.cash + Total(b.value, S), value |-> rest]
  BY LibraryOperators DEF Abstract!Sold
<1>6. Abstract!Sold(b, S) = [cash |-> b.cash, value |-> b.value]
  BY <1>1, <1>2, <1>4, <1>5
<1>. QED BY <1>6 DEF Abstract!Book

\* What a sale leaves of the released names.
LEMMA SaleReleases ==
  ASSUME NEW b \in Abstract!Book, NEW S \in SUBSET Tickers
  PROVE  \A t \in S : Abstract!Sold(b, S).value[t] = 0
BY DEF Abstract!Sold

\* Who is not a target is not traded.
LEMMA OthersKept ==
  ASSUME NEW b \in Abstract!Book, NEW in \in Abstract!Input, NEW run, NEW n, Deploys(run, n, b, in),
         NEW u \in Tickers,
         \A k \in 1..n : Abstract!Targets(in.ranking)[k] # u \/ run[k] = run[k - 1]
  PROVE  run[n].book.value[u] = b.value[u]
<1> DEFINE S == {k \in 0..n : run[k].book.value[u] = b.value[u]}
<1>1. n \in Nat /\ n = Len(Abstract!Targets(in.ranking)) /\ Runs(run, b, in) /\ run[0].book = b
  BY DEF Deploys
<1>2. 0 \in S
  BY <1>1
<1>3. ASSUME NEW k \in 1..n, k - 1 \in S PROVE k \in S
  <2>1. Abstract!Targets(in.ranking)[k] # u => run[k].book.value[u] = run[k - 1].book.value[u]
    BY <1>1, RunStep
  <2>2. k \in 0..n
    BY <1>1
  <2>. QED BY <1>3, <2>1, <2>2
<1>4. \A k \in 0..n : k \in S
  <2>. HIDE DEF S
  <2>. QED BY <1>1, <1>2, <1>3, UpTo
<1>. QED BY <1>1, <1>4
\* At the end of a deployment every priced target is satisfied.
LEMMA AllSatisfied ==
  ASSUME NEW b \in Abstract!Book, NEW in \in Abstract!Input, NEW run, NEW n, Deploys(run, n, b, in),
         NEW k \in 1..n, Abstract!Targets(in.ranking)[k] \in in.priced
  PROVE  Satisfied(run[n], Abstract!Targets(in.ranking)[k], Abstract!Weight(b))
<1> DEFINE t == Abstract!Targets(in.ranking)[k]
           W == Abstract!Weight(b)
<1>1. n \in Nat /\ n = Len(Abstract!Targets(in.ranking)) /\ Runs(run, b, in)
  BY DEF Deploys
<1>2. Satisfied(run[k], t, W) /\ t \in Tickers
  BY <1>1, RunStep
<1>3. Grew(run[k], run[n])
  <2>1. k \in 0..n /\ n \in 0..n /\ k <= n
    BY <1>1
  <2>. QED BY <1>1, <2>1, RunGrows
<1>4. W \in Nat
  BY EquityTyped
<1>. HIDE DEF t, W
<1>5. Satisfied(run[n], t, W)
  BY <1>2, <1>3, <1>4, SatisfiedStays DEF Grew
<1>. QED BY <1>5 DEF t, W

\* Where every priced target is satisfied, a deployment does nothing.
LEMMA DeployedNothing ==
  ASSUME NEW b \in Abstract!Book, NEW in \in Abstract!Input,
         \A k \in 1..Len(Abstract!Targets(in.ranking)) :
           Abstract!Targets(in.ranking)[k] \in in.priced =>
             Satisfied([book |-> b, room |-> Abstract!Room(b, in.scale)],
                       Abstract!Targets(in.ranking)[k], Abstract!Weight(b))
  PROVE  Abstract!Deployed(b, in) = b
<1> DEFINE base == [book |-> b, room |-> Abstract!Room(b, in.scale)]
<1>1. PICK run, n : Deploys(run, n, b, in)
  BY DeploymentGrows
<1>2. n \in Nat /\ n = Len(Abstract!Targets(in.ranking)) /\ Runs(run, b, in)
  BY <1>1 DEF Deploys
<1> DEFINE S == {k \in 0..n : run[k] = base}
<1>3. run[0] = base
  BY <1>2 DEF Runs
<1>. HIDE DEF base
<1>4. 0 \in S
  BY <1>2, <1>3
<1>5. ASSUME NEW k \in 1..n, k - 1 \in S PROVE k \in S
  <2>1. run[k - 1] = base /\ k \in 0..n
    BY <1>2, <1>5
  <2> DEFINE t == Abstract!Targets(in.ranking)[k]
  <2>2. /\ run[k] # run[k - 1] => t \in in.priced
        /\ Satisfied(run[k - 1], t, Abstract!Weight(b)) => run[k] = run[k - 1]
    BY <1>2, RunStep
  <2>3. t \in in.priced => Satisfied(base, t, Abstract!Weight(b))
    BY <1>2 DEF base
  <2>. QED BY <2>1, <2>2, <2>3
<1>6. \A k \in 0..n : k \in S
  <2>. HIDE DEF S
  <2>. QED BY <1>2, <1>4, <1>5, UpTo
<1>7. run[n] = base
  BY <1>2, <1>6
<1>. QED BY <1>1, <1>7 DEF Deploys, base

\* A pass repeated on the inputs of the first trades nothing.
LEMMA PassIsHarmless ==
  ASSUME NEW b \in Abstract!Book, NEW in \in Abstract!Input
  PROVE  Abstract!Passed(Abstract!Passed(b, in), in) = Abstract!Passed(b, in)
<1> DEFINE after == Abstract!Passed(b, in)
<1>1. after \in Abstract!Book
  BY PassedBook
<1>2. CASE in.verdict = "out"
  <2>1. after = Abstract!Sold(b, Tickers)
    BY <1>2, PassedCases
  <2>2. \A t \in Tickers : after.value[t] = 0
    BY <2>1, SaleReleases
  <2>. HIDE DEF after
  <2>3. Abstract!Sold(after, Tickers) = after
    BY <1>1, <2>2, SoldNothing
  <2>4. Abstract!Passed(after, in) = after
    BY <1>2, <2>3, PassedCases
  <2>. QED BY <2>4 DEF after
<1>3. CASE in.verdict = "parked"
  <2>1. after = Abstract!Sold(b, Abstract!Released(in)) /\ Abstract!Released(in) \in SUBSET Tickers
    BY <1>3, PassedCases, SaleBook DEF Sale
  <2>2. \A t \in Abstract!Released(in) : after.value[t] = 0
    BY <2>1, SaleReleases
  <2>. HIDE DEF after
  <2>3. Sale(after, in) = after
    BY <1>1, <2>1, <2>2, SoldNothing DEF Sale
  <2>4. Abstract!Passed(after, in) = after
    BY <1>3, <2>3, PassedCases
  <2>. QED BY <2>4 DEF after
<1>4. CASE in.verdict = "clear"
  <2> DEFINE c == Sale(b, in)
             q == Abstract!Targets(in.ranking)
  <2>1. c \in Abstract!Book /\ Abstract!Released(in) \in SUBSET Tickers
    BY SaleBook
  <2>2. PICK run, n : Deploys(run, n, c, in)
    BY <2>1, DeploymentGrows
  <2>3. /\ n \in Nat /\ n = Len(q) /\ Runs(run, c, in) /\ after = run[n].book
        /\ Grew(run[0], run[n]) /\ run[0].book = c /\ run[0].room = Abstract!Room(c, in.scale)
    BY <1>4, <2>2, PassedCases DEF Deploys
  <2>4. in.ranking \in Rankings /\ in.scale \in Scales
    BY DEF Abstract!Input
  <2>5. ASSUME NEW t \in Abstract!Released(in) PROVE after.value[t] = 0
    <3>1. \A k \in 1..n : q[k] # t
      <4>1. \A k \in 1..n : q[k] = in.ranking[k] /\ k \in DOMAIN in.ranking
        <5>1. in.ranking \in Seq(Tickers)
          BY <2>4, Constants
        <5>. QED BY <2>3, <2>4, <5>1, TargetsTyped
      <4>2. t \notin Abstract!ToSet(in.ranking)
        BY DEF Abstract!Released
      <4>. QED BY <4>1, <4>2 DEF Abstract!ToSet
    <3>2. after.value[t] = c.value[t]
      BY <2>1, <2>2, <2>3, <3>1, OthersKept
    <3>3. c.value[t] = 0
      BY <2>1, SaleReleases DEF Sale
    <3>. QED BY <3>2, <3>3
  <2>. HIDE DEF c, q, after
  <2>6. Sale(after, in) = after
    BY <1>1, <2>1, <2>5, SoldNothing DEF Sale
  <2>7. run[n] \in Buying /\ run[0] \in Buying
    BY <2>3 DEF Grew
  <2>8. Abstract!Weight(after) = Abstract!Weight(c) /\ Abstract!Equity(after) = Abstract!Equity(c)
    BY <2>3 DEF Abstract!Weight, Grew
  <2> DEFINE base == [book |-> after, room |-> Abstract!Room(after, in.scale)]
  <2>9. base \in Buying
    BY <1>1, <2>4, RoomTyped DEF Buying
  <2>10. Abstract!Room(after, in.scale) <= run[n].room \/ in.scale = 4
    <3> DEFINE part == (Abstract!Equity(c) * in.scale) \div 4
    <3>1. in.scale # 4 =>
            /\ Abstract!Room(c, in.scale) = IF part - Abstract!Invested(c) > 0
                                             THEN part - Abstract!Invested(c) ELSE 0
            /\ Abstract!Room(after, in.scale) = IF part - Abstract!Invested(after) > 0
                                                 THEN part - Abstract!Invested(after) ELSE 0
      BY <2>8 DEF Abstract!Room
    <3>2. run[n].room + Abstract!Invested(after) = Abstract!Room(c, in.scale) + Abstract!Invested(c)
      BY <2>3 DEF Grew
    <3>3. /\ Abstract!Invested(c) \in Nat /\ Abstract!Invested(after) \in Nat
          /\ run[n].room \in Nat /\ Abstract!Equity(c) \in Nat /\ in.scale \in 0..4
      BY <1>1, <2>1, <2>4, <2>7, BuyingTyped, EquityTyped, Constants
    <3>4. part \in Int
      BY <3>3
    <3>. HIDE DEF part
    <3>. QED BY <3>1, <3>2, <3>3, <3>4
  <2>11. in.scale = 4 => run[n].book.cash <= run[n].room
    <3>1. in.scale = 4 => Abstract!Room(c, in.scale) = Abstract!Equity(c)
      BY <2>1, <2>4, RoomTyped
    <3>2. c.cash - run[n].book.cash = Abstract!Room(c, in.scale) - run[n].room
      BY <2>3 DEF Grew
    <3>3. Abstract!Equity(c) = c.cash + Total(c.value, Tickers) /\ Total(c.value, Tickers) \in Nat
          /\ c.cash \in Nat
      BY <2>1, EquityTyped
    <3>4. run[n].room \in Nat /\ run[n].book.cash \in Nat
      BY <2>7, BuyingTyped
    <3>. QED BY <3>1, <3>2, <3>3, <3>4
  <2>12. ASSUME NEW k \in 1..n, q[k] \in in.priced
         PROVE  Satisfied(base, q[k], Abstract!Weight(after))
    <3> DEFINE t == q[k]
               W == Abstract!Weight(after)
    <3>1. Satisfied(run[n], t, W) /\ t \in Tickers /\ W \in Nat
      BY <1>1, <2>1, <2>2, <2>3, <2>4, <2>8, <2>12, AllSatisfied, TargetsTyped, EquityTyped DEF q
    <3>. HIDE DEF t, W
    <3>2. Abstract!Budget(run[n], t, W) \in {W - after.value[t], run[n].room, after.cash}
      BY <2>3, <2>7, <3>1, BudgetIsLeast
    <3>3. /\ Abstract!Budget(base, t, W) <= W - after.value[t]
          /\ Abstract!Budget(base, t, W) <= Abstract!Room(after, in.scale)
          /\ Abstract!Budget(base, t, W) <= after.cash /\ Abstract!Budget(base, t, W) \in Int
      BY <2>9, <3>1, BudgetIsLeast
    <3>4. /\ after.cash \in Nat /\ after.value[t] \in Nat /\ run[n].room \in Nat
          /\ Abstract!Room(after, in.scale) \in Nat
      BY <1>1, <2>4, <2>7, <3>1, BuyingTyped, RoomTyped DEF Abstract!Book
    <3>5. Abstract!Budget(run[n], t, W) < 1
      BY <3>1 DEF Satisfied
    <3>6. Abstract!Budget(base, t, W) < 1
      BY SMTT(30), <2>3, <2>10, <2>11, <3>1, <3>2, <3>3, <3>4, <3>5
    <3>. QED BY <3>6 DEF Satisfied, t, W
  <2>13. Abstract!Deployed(after, in) = after
    BY <1>1, <2>3, <2>12, DeployedNothing DEF q
  <2>14. Abstract!Passed(after, in) = after
    BY <1>4, <2>6, <2>13, PassedCases
  <2>. QED BY <2>14 DEF after
<1>. QED BY <1>2, <1>3, <1>4, PassedCases
\* When a target is bought, a better-ranked one with a price has its weight.
LEMMA BestFirst ==
  ASSUME NEW b \in Abstract!Book, NEW in \in Abstract!Input, NEW run, NEW n, Deploys(run, n, b, in),
         NEW i \in 1..Len(in.ranking), NEW j \in 1..Len(in.ranking), i < j,
         in.ranking[i] \in in.priced,
         run[n].book.value[in.ranking[j]] > b.value[in.ranking[j]]
  PROVE  run[n].book.value[in.ranking[i]] >= Abstract!Weight(b)
<1> DEFINE q == Abstract!Targets(in.ranking)
           W == Abstract!Weight(b)
           u == in.ranking[j]
           t == in.ranking[i]
<1>1. /\ n \in Nat /\ n = Len(q) /\ Runs(run, b, in)
      /\ in.ranking \in Rankings /\ in.ranking \in Seq(Tickers)
  BY Constants DEF Deploys, Abstract!Input
<1>2. /\ n <= Len(in.ranking) /\ Len(in.ranking) \in Nat /\ u \in Tickers /\ t \in Tickers
      /\ \A k \in 1..n : q[k] = in.ranking[k]
  BY <1>1, TargetsTyped
<1>3. PICK k \in 1..n : q[k] = u /\ run[k] # run[k - 1]
  <2>1. run[n].book.value[u] # b.value[u]
    <3>1. b.value[u] \in Nat
      BY <1>2 DEF Abstract!Book
    <3>. QED BY <3>1
  <2>. QED BY <1>2, <2>1, OthersKept
<1>4. k = j
  <2>1. in.ranking[k] = in.ranking[j] /\ k \in DOMAIN in.ranking /\ j \in DOMAIN in.ranking
    BY <1>1, <1>2, <1>3
  <2>. QED BY <1>1, <2>1, BookAssumption DEF IsInjective
<1>5. /\ i \in 1..n /\ i \in 0..n /\ j - 1 \in 0..n /\ n \in 0..n /\ i <= j - 1 /\ i <= n
      /\ t = q[i]
  BY <1>1, <1>2, <1>4
<1>6. run[j - 1].room >= 1 /\ run[j - 1].book.cash >= 1
  BY <1>1, <1>3, <1>4, RunStep
<1>7. Grew(run[i], run[j - 1]) /\ Grew(run[i], run[n])
  BY <1>1, <1>5, RunGrows
<1>8. Satisfied(run[i], t, W)
  BY <1>1, <1>5, RunStep
<1>9. /\ run[i] \in Buying /\ run[j - 1] \in Buying /\ run[n] \in Buying /\ W \in Nat
  BY <1>7, EquityTyped DEF Grew
<1>. HIDE DEF q, W, u, t
<1>10. Abstract!Budget(run[i], t, W) \in {W - run[i].book.value[t], run[i].room, run[i].book.cash}
  BY <1>2, <1>9, BudgetIsLeast
<1>11. /\ run[i].room >= 1 /\ run[i].book.cash >= 1
       /\ run[i].room \in Nat /\ run[i].book.cash \in Nat
  <2>1. run[i].room >= run[j - 1].room /\ run[i].book.cash >= run[j - 1].book.cash
    BY <1>7 DEF Grew
  <2>2. /\ run[i].room \in Nat /\ run[i].book.cash \in Nat
        /\ run[j - 1].room \in Nat /\ run[j - 1].book.cash \in Nat
    BY <1>9, BuyingTyped
  <2>. QED BY SMTT(30), <1>6, <2>1, <2>2
<1>12. run[i].book.value[t] \in Nat /\ run[n].book.value[t] \in Nat
  BY <1>2, <1>9, BuyingTyped
<1>13. run[n].book.value[t] >= run[i].book.value[t]
  BY <1>2, <1>7 DEF Grew
<1>14. run[i].book.value[t] >= W
  BY SMTT(30), <1>8, <1>9, <1>10, <1>11, <1>12 DEF Satisfied
<1>15. run[n].book.value[t] >= W
  BY <1>9, <1>12, <1>13, <1>14
<1>. QED BY <1>15 DEF W, t

\* New money stays within the room, and no room means no purchase.
LEMMA CapKept ==
  ASSUME NEW b \in Abstract!Book, NEW in \in Abstract!Input, NEW run, NEW n, Deploys(run, n, b, in),
         in.scale < 4
  PROVE  4 * Abstract!Invested(run[n].book) <= in.scale * Abstract!Equity(run[n].book)
         \/ run[n].book = b
<1>1. /\ n \in Nat /\ n = Len(Abstract!Targets(in.ranking)) /\ Runs(run, b, in)
      /\ Grew(run[0], run[n]) /\ run[0].book = b /\ run[0].room = Abstract!Room(b, in.scale)
      /\ in.scale \in Scales /\ in.scale \in 0..4
  BY Constants DEF Deploys, Abstract!Input
<1>2. /\ run[n].room \in Nat /\ Abstract!Invested(run[n].book) \in Nat
      /\ Abstract!Equity(run[n].book) \in Nat /\ Abstract!Invested(b) \in Nat
      /\ Abstract!Equity(b) \in Nat /\ Abstract!Room(b, in.scale) \in Nat
  BY <1>1, BuyingTyped, EquityTyped, RoomTyped DEF Grew
<1>3. /\ run[n].room + Abstract!Invested(run[n].book)
            = Abstract!Room(b, in.scale) + Abstract!Invested(b)
      /\ Abstract!Equity(run[n].book) = Abstract!Equity(b)
  BY <1>1 DEF Grew
<1>4. CASE Abstract!Room(b, in.scale) = 0
  <2> DEFINE S == {k \in 0..n : run[k] = run[0]}
  <2>1. 0 \in S
    BY <1>1
  <2>2. ASSUME NEW k \in 1..n, k - 1 \in S PROVE k \in S
    <3>1. run[k - 1] = run[0] /\ k \in 0..n
      BY <1>1, <2>2
    <3>2. run[k] # run[k - 1] => run[k - 1].room >= 1
      BY <1>1, RunStep
    <3>. QED BY <1>1, <1>4, <3>1, <3>2
  <2>3. \A k \in 0..n : k \in S
    <3>. HIDE DEF S
    <3>. QED BY <1>1, <2>1, <2>2, UpTo
  <2>. QED BY <1>1, <2>3
<1>5. CASE Abstract!Room(b, in.scale) # 0
  <2>1. 4 * (Abstract!Room(b, in.scale) + Abstract!Invested(b)) <= in.scale * Abstract!Equity(b)
    BY <1>1, <1>5, RoomTyped
  <2>2. in.scale * Abstract!Equity(b) \in Int
    BY <1>1, <1>2
  <2>3. 4 * Abstract!Invested(run[n].book)
          <= 4 * (Abstract!Room(b, in.scale) + Abstract!Invested(b))
    BY <1>2, <1>3
  <2>. QED BY <1>2, <1>3, <2>1, <2>2, <2>3
<1>. QED BY <1>4, <1>5

-----------------------------------------------------------------------------
(* What DailyBook promises of a pass, on any book.                         *)

LEMMA BookPromises ==
  ASSUME BookNow \in Abstract!Book
  PROVE  Abstract!RerunTradesNothing /\ Abstract!BestRankFirst /\ Abstract!VolCapHeld
<1> DEFINE b == BookNow
<1>1. Abstract!RerunTradesNothing
  BY PassedBook, PassIsHarmless DEF Abstract!RerunTradesNothing
<1>2. ASSUME NEW in \in Abstract!Input, in.verdict = "clear"
      PROVE  \E run, n : /\ Deploys(run, n, Sale(b, in), in) /\ Sale(b, in) \in Abstract!Book
                         /\ Abstract!Passed(b, in) = run[n].book
                         /\ run[0].book = Sale(b, in) /\ Grew(run[0], run[n])
  <2>1. Sale(b, in) \in Abstract!Book
    BY SaleBook
  <2>2. PICK run, n : Deploys(run, n, Sale(b, in), in)
    BY <2>1, DeploymentGrows
  <2>. QED BY <1>2, <2>1, <2>2, PassedCases DEF Deploys
<1>3. Abstract!BestRankFirst
  <2> SUFFICES ASSUME NEW in \in Abstract!Input, in.verdict = "clear",
                      NEW i \in 1..Len(in.ranking), NEW j \in 1..Len(in.ranking),
                      i < j, in.ranking[i] \in in.priced,
                      Abstract!Passed(b, in).value[in.ranking[j]] > Sale(b, in).value[in.ranking[j]]
               PROVE  Abstract!Passed(b, in).value[in.ranking[i]] >= Abstract!Weight(Sale(b, in))
    BY DEF Abstract!BestRankFirst, Sale
  <2>. HIDE DEF b
  <2>1. PICK run, n : /\ Deploys(run, n, Sale(b, in), in) /\ Sale(b, in) \in Abstract!Book
                      /\ Abstract!Passed(b, in) = run[n].book
    BY <1>2
  <2>. QED BY <2>1, BestFirst
<1>4. Abstract!VolCapHeld
  <2> SUFFICES ASSUME NEW in \in Abstract!Input, in.verdict = "clear", in.scale < 4
               PROVE  /\ \A t \in Tickers :
                            Abstract!Passed(b, in).value[t] >= Sale(b, in).value[t]
                      /\ \/ 4 * Abstract!Invested(Abstract!Passed(b, in))
                              <= in.scale * Abstract!Equity(Abstract!Passed(b, in))
                         \/ Abstract!Passed(b, in) = Sale(b, in)
    BY DEF Abstract!VolCapHeld, Sale
  <2>. HIDE DEF b
  <2>1. PICK run, n : /\ Deploys(run, n, Sale(b, in), in) /\ Sale(b, in) \in Abstract!Book
                      /\ Abstract!Passed(b, in) = run[n].book
                      /\ run[0].book = Sale(b, in) /\ Grew(run[0], run[n])
    BY <1>2
  <2>2. \A t \in Tickers : run[n].book.value[t] >= Sale(b, in).value[t]
    BY <2>1 DEF Grew
  <2>3. 4 * Abstract!Invested(run[n].book) <= in.scale * Abstract!Equity(run[n].book)
        \/ run[n].book = Sale(b, in)
    BY <2>1, CapKept
  <2>. QED BY <2>1, <2>2, <2>3
<1>. QED BY <1>1, <1>3, <1>4

-----------------------------------------------------------------------------
(* DailyCore: types.                                                       *)

LEMMA ModelConstants ==
  /\ LastMonth \in Nat /\ LastMonth > 0 /\ 1 \in Months
  /\ MaxRuns \in Nat /\ MaxMoves \in Nat /\ MaxCrashes \in Nat
  /\ Engine \in Callers /\ Engine \notin Depositors /\ Callers = Depositors \cup {Engine}
  /\ \A m \in Months : m \in Nat
BY ConstantAssumption DEF Months, Callers

LEMMA NothingTyped ==
  /\ FreshAccount \in Account /\ NoAccount \in Account
  /\ Nothing \in [Tickers -> Nat] /\ Abstract!Worth(Nothing, Tickers) = 0
  /\ NoMark \in Mark /\ NoDeposit \in DepositState /\ NoBook \in Books
  /\ Idle \in EngineState
  /\ \A base \in Nat : NoHistory(base) \in History
<1>1. FreshAccount \in Account /\ NoAccount \in Account
  BY Constants DEF FreshAccount, NoAccount, Account
<1>2. Nothing \in [Tickers -> Nat] /\ Abstract!Worth(Nothing, Tickers) = 0
  <2>1. Nothing \in [Tickers -> Nat] /\ \A t \in Tickers : Nothing[t] = 0
    BY DEF Nothing
  <2>. QED BY <2>1, TotalZero, Constants, LibraryOperators
<1>3. NoMark \in Mark
  BY DEF NoMark, Mark
<1>4. NoDeposit \in DepositState
  BY <1>1 DEF NoDeposit, DepositState
<1>5. NoBook \in Books
  BY <1>2 DEF NoBook, Books
<1>6. Idle \in EngineState
  <2>1. <<>> \in Seq(Tickers)
    OBVIOUS
  <2>. QED BY <1>1, <1>5, <2>1 DEF Idle, EngineState, Stages, Verdicts
<1>7. \A base \in Nat : NoHistory(base) \in History
  BY DEF NoHistory, History
<1>. QED BY <1>1, <1>2, <1>3, <1>4, <1>5, <1>6, <1>7

LEMMA BooksAreBooks ==
  /\ Books = Abstract!Book
  /\ TypeOK => BookNow \in Books
  /\ \A in \in [ranking: Rankings, verdict: Verdicts, priced: {Tickers}, scale: Scales] :
       in \in Abstract!Input
<1>1. Books = Abstract!Book
  BY DEF Books, Abstract!Book
<1>2. TypeOK => BookNow \in Books
  BY DEF TypeOK, BookNow, EngineState, Account, Books
<1>3. ASSUME NEW in \in [ranking: Rankings, verdict: Verdicts, priced: {Tickers}, scale: Scales]
      PROVE  in \in Abstract!Input
  BY DEF Verdicts, Abstract!Verdicts, Abstract!Input
<1>. QED BY <1>1, <1>2, <1>3

LEMMA InvestedTyped ==
  /\ \A v \in [Tickers -> Nat] : Abstract!Worth(v, Tickers) \in Nat
  /\ TypeOK => Invested \in Nat
<1>1. \A v \in [Tickers -> Nat] : Abstract!Worth(v, Tickers) \in Nat
  BY TotalType, Constants, LibraryOperators
<1>. QED BY <1>1 DEF TypeOK, Invested

LEMMA InitTyped == Init => TypeOK
<1> SUFFICES ASSUME Init PROVE TypeOK
  OBVIOUS
<1>1. count \in [runs: 0..MaxRuns, moves: 0..MaxMoves, crashes: 0..MaxCrashes]
  BY ModelConstants DEF Init
<1>2. history \in History
  BY NothingTyped, Constants DEF Init
<1>. QED BY <1>1, <1>2, NothingTyped, ModelConstants DEF Init, TypeOK

LEMMA MonthsFinite ==
  ASSUME NEW S \in SUBSET Months
  PROVE  IsFiniteSet(S) /\ Cardinality(S) \in Nat /\ S \in SUBSET Nat
<1>1. IsFiniteSet(Months)
  BY FS_Interval, ModelConstants, 1 \in Int, LastMonth \in Int DEF Months
<1>2. IsFiniteSet(S)
  BY <1>1, FS_Subset
<1>. QED BY <1>2, FS_CardinalityType DEF Months

LEMMA MonthsCounted ==
  ASSUME NEW S \in SUBSET Months, NEW T \in SUBSET Months, S \cap T = {}
  PROVE  Cardinality(S \cup T) = Cardinality(S) + Cardinality(T)
<1>1. /\ IsFiniteSet(S) /\ IsFiniteSet(T) /\ Cardinality(S) \in Nat /\ Cardinality(T) \in Nat
  BY MonthsFinite
<1>2. Cardinality(S \cup T) = Cardinality(S) + Cardinality(T) - Cardinality(S \cap T)
  BY <1>1, FS_Union
<1>3. Cardinality(S \cap T) = 0
  BY FS_EmptySet
<1>. QED BY <1>1, <1>2, <1>3

\* A row with a changed column is a row.
LEMMA RowsTyped ==
  ASSUME account \in Account, NEW row \in Account, NEW cash \in Nat
  PROVE  SetCash(row, cash) \in Account
<1>1. Column(row.cash, cash, account.cash) \in Nat
  BY DEF Column, Account
<1>. QED BY <1>1 DEF SetCash, Account

LEMMA DepositTypes ==
  ASSUME TypeOK, AccountInv, NEW c \in Callers,
         DepositRead(c) \/ DepositOpen(c) \/ DepositCommit(c)
  PROVE  TypeOK'
<1> USE DEF db, To, Release
<1>1. /\ month \in Months /\ month \in Nat /\ account \in Account /\ engine \in EngineState
      /\ deposit \in [Callers -> DepositState] /\ deposit[c] \in DepositState
      /\ deposit[c].row \in Account /\ history \in History /\ lock \in BOOLEAN
      /\ allowances \in SUBSET Months
  BY ModelConstants DEF TypeOK, DepositState
<1>2. [engine EXCEPT !.stage = "rank"] \in EngineState
  BY <1>1 DEF EngineState, Stages
<1>3. CASE DepositRead(c)
  <2>1. [at |-> IF account.exists THEN "commit" ELSE "open", month |-> month, row |-> account]
          \in DepositState
    BY <1>1 DEF DepositState
  <2>2. deposit' \in [Callers -> DepositState]
    BY <1>1, <1>3, <2>1 DEF DepositRead
  <2>3. engine' \in EngineState
    BY <1>1, <1>2, <1>3 DEF DepositRead
  <2>. QED BY <1>3, <2>2, <2>3 DEF DepositRead, TypeOK
<1>4. CASE DepositOpen(c)
  <2>1. deposit' \in [Callers -> DepositState]
    <3>1. [deposit EXCEPT ![c] = NoDeposit] \in [Callers -> DepositState]
      BY <1>1, NothingTyped
    <3>2. [deposit EXCEPT ![c].at = "commit", ![c].row = FreshAccount] \in [Callers -> DepositState]
      BY <1>1, NothingTyped DEF DepositState
    <3>. QED BY <1>4, <3>1, <3>2 DEF DepositOpen
  <2>2. account' \in Account /\ engine' \in EngineState /\ lock' \in BOOLEAN
    BY <1>1, <1>4, NothingTyped DEF DepositOpen
  <2>. QED BY <1>4, <2>1, <2>2 DEF DepositOpen, TypeOK
<1>5. CASE DepositCommit(c)
  <2>1. deposit' \in [Callers -> DepositState]
    BY <1>1, <1>5, NothingTyped DEF DepositCommit
  <2>2. engine' \in EngineState
    BY <1>1, <1>2, <1>5 DEF DepositCommit
  <2>3. deposit[c].month \in Months /\ deposit[c].month \in Nat
    BY <1>1, <1>5, ModelConstants DEF DepositCommit, AccountInv, Months
  <2>4. account' \in Account /\ allowances' \in SUBSET Months /\ history' \in History
    <3>1. CASE AlreadyDeposited(deposit[c].month)
      BY <1>1, <1>5, <3>1 DEF DepositCommit
    <3>2. CASE ~AlreadyDeposited(deposit[c].month)
      <4>1. SetCash(deposit[c].row, deposit[c].row.cash + Contribution) \in Account
        <5>1. deposit[c].row.cash + Contribution \in Nat
          BY <1>1, Constants DEF Account
        <5>. QED BY <1>1, <5>1, RowsTyped
      <4>2. [SetCash(deposit[c].row, deposit[c].row.cash + Contribution)
              EXCEPT !.allowanceMonth = deposit[c].month] \in Account
        BY <2>3, <4>1 DEF Account
      <4>3. [history EXCEPT !.credits[deposit[c].month] = @ + 1,
                            !.raced = @ \/ Overlaps(c)] \in History
        <5>1. (history.raced \/ Overlaps(c)) \in BOOLEAN
          OBVIOUS
        <5>. HIDE DEF Overlaps
        <5>2. history.credits \in [Months -> Nat] /\ history.credits[deposit[c].month] + 1 \in Nat
          BY <1>1, <2>3 DEF History
        <5>3. [history.credits EXCEPT ![deposit[c].month] = @ + 1] \in [Months -> Nat]
          BY <2>3, <5>2
        <5>. QED BY <1>1, <5>1, <5>3 DEF History
      <4>. QED BY <1>1, <1>5, <2>3, <3>2, <4>2, <4>3 DEF DepositCommit
    <3>. QED BY <3>1, <3>2
  <2>. QED BY <1>5, <2>1, <2>2, <2>4 DEF DepositCommit, TypeOK
<1>. QED BY <1>3, <1>4, <1>5

LEMMA SaleTypes ==
  ASSUME TypeOK, NEW t \in Tickers, SellRead(t) \/ SellCommit(t)
  PROVE  TypeOK'
<1> USE DEF db, Unlocked, Elsewhere
<1>1. /\ engine \in EngineState /\ account \in Account /\ value \in [Tickers -> Nat]
      /\ engine.row \in Account
  BY DEF TypeOK, EngineState
<1>2. CASE SellRead(t)
  <2>1. engine' \in EngineState
    BY <1>1, <1>2 DEF SellRead, EngineState, Stages
  <2>. QED BY <1>2, <2>1 DEF SellRead, TypeOK
<1>3. CASE SellCommit(t)
  <2>1. engine' \in EngineState
    BY <1>1, <1>3 DEF SellCommit, EngineState, Stages
  <2>2. engine.row.cash + value[t] \in Nat
    BY <1>1 DEF Account
  <2>3. account' \in Account
    BY <1>1, <1>3, <2>2, RowsTyped DEF SellCommit
  <2>4. value' \in [Tickers -> Nat]
    BY <1>1, <1>3 DEF SellCommit
  <2>. QED BY <1>3, <2>1, <2>3, <2>4 DEF SellCommit, TypeOK
<1>. QED BY <1>2, <1>3

\* A budget is bounded by the weight left, the cash seen and the room.
LEMMA BudgetForTyped ==
  ASSUME TypeOK, NEW t \in Tickers
  PROVE  /\ BudgetFor(t) \in Int /\ BudgetFor(t) <= engine.room /\ BudgetFor(t) <= engine.seen
         /\ BudgetFor(t) <= engine.weight - value[t]
<1>1. engine.weight - value[t] \in Int /\ engine.seen \in Int /\ engine.room \in Int
  BY DEF TypeOK, EngineState
<1>. QED BY <1>1, MinOfThree DEF BudgetFor

LEMMA PurchaseTypes ==
  ASSUME TypeOK, RowInv, BuyRead \/ \E t \in Tickers : BuyCommit(t)
  PROVE  TypeOK'
<1> USE DEF db, Unlocked, Elsewhere
<1>1. /\ engine \in EngineState /\ account \in Account /\ value \in [Tickers -> Nat]
      /\ engine.row \in Account /\ engine.targets \in Seq(Tickers)
  BY DEF TypeOK, EngineState
<1>2. CASE BuyRead
  <2>1. Head(engine.targets) \in Tickers /\ Tail(engine.targets) \in Seq(Tickers)
    BY <1>1, <1>2 DEF BuyRead
  <2> DEFINE t == Head(engine.targets)
             rest == [engine EXCEPT !.targets = Tail(@)]
  <2>2. rest \in EngineState
    BY <1>1, <2>1 DEF EngineState
  <2>3. CASE engine' = rest
    BY <1>2, <2>2, <2>3 DEF BuyRead, TypeOK
  <2>4. CASE /\ BudgetFor(t) >= 1
             /\ engine' = [rest EXCEPT !.stage = "buying", !.ticker = {t},
                                       !.budget = BudgetFor(t), !.row = account]
    <3>1. BudgetFor(t) \in Nat
      BY <2>1, <2>4, BudgetForTyped
    <3>. HIDE DEF t, rest
    <3>2. {t} \in SUBSET Tickers
      BY <2>1 DEF t
    <3>3. engine' \in EngineState
      BY <1>1, <2>2, <2>4, <3>1, <3>2 DEF EngineState, Stages
    <3>. QED BY <1>2, <3>3 DEF BuyRead, TypeOK
  <2>. QED BY <1>2, <2>3, <2>4 DEF BuyRead
<1>3. ASSUME NEW t \in Tickers, BuyCommit(t) PROVE TypeOK'
  <2>1. /\ engine.room - engine.budget \in Nat /\ engine.row.cash - engine.budget \in Nat
        /\ engine.budget \in Nat
    BY SMTT(30), <1>1, <1>3 DEF BuyCommit, RowInv, EngineState, Account
  <2>2. engine' \in EngineState
    BY <1>1, <1>3, <2>1 DEF BuyCommit, EngineState, Stages
  <2>3. account' \in Account
    BY <1>1, <1>3, <2>1, RowsTyped DEF BuyCommit
  <2>4. value' \in [Tickers -> Nat]
    BY <1>1, <1>3, <2>1 DEF BuyCommit
  <2>. QED BY <1>3, <2>2, <2>3, <2>4 DEF BuyCommit, TypeOK
<1>. QED BY <1>2, <1>3

LEMMA PassTypes ==
  ASSUME TypeOK, Rank \/ Weigh \/ Revalue \/ Deployed \/ Value \/ Snapshot
  PROVE  TypeOK'
<1> USE DEF db, Unlocked, Elsewhere, To
<1>1. /\ engine \in EngineState /\ account \in Account /\ value \in [Tickers -> Nat]
      /\ account.cash \in Nat /\ Invested \in Nat
  BY InvestedTyped DEF TypeOK, Account
<1>2. CASE Rank
  <2>1. CASE engine' = [engine EXCEPT !.stage = "value"]
    <3>1. engine' \in EngineState
      BY <1>1, <2>1 DEF EngineState, Stages
    <3>. QED BY <1>2, <3>1 DEF Rank, TypeOK
  <2>2. ASSUME NEW ranking \in Rankings, NEW verdict \in Verdicts, NEW priced \in SUBSET Tickers,
               NEW scale \in Scales,
               engine' = [engine EXCEPT
                 !.stage = "sell",
                 !.start = [cash |-> account.cash, value |-> value],
                 !.names = IF verdict = "out" THEN Held ELSE Held \ ToSet(ranking),
                 !.targets = SubSeq(ranking, 1, Min({TargetN, Len(ranking)})),
                 !.verdict = verdict, !.priced = priced, !.scale = scale]
        PROVE  TypeOK'
    <3> DEFINE start == [cash |-> account.cash, value |-> value]
               names == IF verdict = "out" THEN Held ELSE Held \ ToSet(ranking)
               targets == SubSeq(ranking, 1, Min({TargetN, Len(ranking)}))
    <3>1. start \in Books
      BY <1>1 DEF Books
    <3>2. names \in SUBSET Tickers
      BY DEF Held
    <3>3. targets \in Seq(Tickers)
      BY TargetsTyped, LibraryOperators DEF Abstract!Targets
    <3>. HIDE DEF start, names, targets
    <3>4. engine' = [engine EXCEPT !.stage = "sell", !.start = start, !.names = names,
                       !.targets = targets, !.verdict = verdict, !.priced = priced, !.scale = scale]
      BY <2>2 DEF start, names, targets
    <3>5. engine' \in EngineState
      BY <1>1, <3>1, <3>2, <3>3, <3>4 DEF EngineState, Stages
    <3>. QED BY <1>2, <3>5 DEF Rank, TypeOK
  <2>. QED BY <1>2, <2>1, <2>2 DEF Rank
<1>3. CASE Weigh
  <2> DEFINE equity == account.cash + Invested
             room == (equity * engine.scale) \div 4 - Invested
             new == IF engine.scale = 4 THEN equity ELSE IF room > 0 THEN room ELSE 0
             weight == equity \div TargetN
  <2>1. equity \in Nat
    BY <1>1
  <2>2. engine.scale \in 0..4
    BY <1>1, Constants DEF EngineState
  <2>3. room \in Int
    <3>1. \A x \in Nat, y \in 0..4 : (x * y) \div 4 \in Int
      OBVIOUS
    <3>. HIDE DEF equity
    <3>. QED BY <1>1, <2>1, <2>2, <3>1
  <2>4. weight \in Nat
    <3>. HIDE DEF equity
    <3>. QED BY <2>1, Constants
  <2>. HIDE DEF room
  <2>5. new \in Nat
    BY <2>1, <2>3
  <2>6. engine' = [engine EXCEPT !.stage = "value"]
        \/ engine' = [engine EXCEPT !.stage = "buy", !.seen = account.cash, !.weight = weight,
                                    !.room = new]
    BY <1>3 DEF Weigh, room
  <2>. HIDE DEF new, weight
  <2>7. [engine EXCEPT !.stage = "value"] \in EngineState
    BY <1>1 DEF EngineState, Stages
  <2>8. [engine EXCEPT !.stage = "buy", !.seen = account.cash, !.weight = weight, !.room = new]
          \in EngineState
    BY <1>1, <2>4, <2>5 DEF EngineState, Stages
  <2>9. engine' \in EngineState
    BY <2>6, <2>7, <2>8
  <2>. QED BY <1>3, <2>9 DEF Weigh, TypeOK
<1>4. CASE Revalue \/ Deployed \/ Value
  <2>1. \A stage \in {"buy", "value", "mark"} :
           /\ [engine EXCEPT !.stage = stage] \in EngineState
           /\ [engine EXCEPT !.stage = stage, !.seen = account.cash] \in EngineState
    BY ZenonT(30), <1>1 DEF EngineState, Stages
  <2>2. engine' \in EngineState
    BY <1>4, <2>1 DEF Revalue, Deployed, Value
  <2>. QED BY <1>4, <2>2 DEF Revalue, Deployed, Value, TypeOK
<1>5. CASE Snapshot
  <2>1. /\ engine.seen + Invested \in Nat /\ Cardinality(allowances) \in Nat
        /\ history.gains \in Int /\ history.base \in Nat
    <3>1. Cardinality(allowances) \in Nat
      BY MonthsFinite DEF TypeOK
    <3>. QED BY <1>1, <3>1 DEF TypeOK, EngineState, History
  <2>2. mark' \in Mark
    BY <1>5, <2>1 DEF Snapshot, MarkOf, Mark
  <2>. QED BY <1>5, <2>2, NothingTyped DEF Snapshot, Release, TypeOK
<1>. QED BY <1>2, <1>3, <1>4, <1>5

LEMMA CreditedBook ==
  ASSUME NEW b \in Books
  PROVE  /\ Abstract!Credited(b) \in Books
         /\ Abstract!Credited(b).cash = b.cash + Contribution
         /\ Abstract!Credited(b).value = b.value
<1>1. b.cash + Contribution \in Nat
  BY Constants DEF Books
<1>. QED BY <1>1 DEF Abstract!Credited, Books

\* A replayed day adds its month's contribution.
LEMMA DayBook ==
  ASSUME NEW b \in Books, NEW in \in Abstract!Input, NEW r,
         r = Abstract!Passed(Abstract!Credited(b), in)
  PROVE  /\ r \in Books
         /\ r.cash + Abstract!Worth(r.value, Tickers)
              = b.cash + Abstract!Worth(b.value, Tickers) + Contribution
<1> DEFINE c == Abstract!Credited(b)
<1>1. c \in Abstract!Book /\ c.cash = b.cash + Contribution /\ c.value = b.value
  BY CreditedBook, BooksAreBooks
<1>. HIDE DEF c
<1>2. r \in Abstract!Book /\ Abstract!Equity(r) = Abstract!Equity(c)
  BY <1>1, PassedBook DEF c
<1>3. /\ Abstract!Equity(r) = r.cash + Abstract!Worth(r.value, Tickers)
      /\ Abstract!Equity(c) = c.cash + Abstract!Worth(c.value, Tickers)
  BY <1>1, <1>2, EquityTyped, LibraryOperators
<1>4. Abstract!Worth(b.value, Tickers) \in Nat /\ b.cash \in Nat
  BY TotalType, Constants, LibraryOperators DEF Books
<1>5. Abstract!Worth(c.value, Tickers) = Abstract!Worth(b.value, Tickers)
  BY <1>1
<1>6. r \in Books
  BY <1>2, BooksAreBooks
<1> DEFINE before == Abstract!Worth(b.value, Tickers)
           after == Abstract!Worth(r.value, Tickers)
<1>7. r.cash + after = (b.cash + Contribution) + before
  BY <1>1, <1>2, <1>3, <1>5
<1>8. before \in Nat /\ b.cash \in Nat /\ Contribution \in Nat
  BY <1>4, Constants
<1>. HIDE DEF before, after
<1>9. r.cash + after = b.cash + before + Contribution
  BY <1>7, <1>8
<1>. QED BY <1>6, <1>9 DEF before, after

\* A holder of the lock is counted and starts with nothing but its stage.
LEMMA AcquireTypes ==
  ASSUME TypeOK, NEW state \in EngineState, Acquire(state)
  PROVE  /\ engine' = state /\ lock' = TRUE /\ ~lock
         /\ count' \in [runs: 0..MaxRuns, moves: 0..MaxMoves, crashes: 0..MaxCrashes]
<1>1. count.runs \in Nat /\ count.runs + 1 \in 0..MaxRuns
  BY ModelConstants DEF TypeOK, Acquire
<1>. QED BY <1>1 DEF TypeOK, Acquire

LEMMA ReplayTypes ==
  ASSUME TypeOK, AccountInv, ReplayInv, BackfillStart \/ WipeRead \/ WipeCommit \/ ReplayDay
  PROVE  TypeOK'
<1> USE DEF db, Unlocked, Elsewhere
<1>1. /\ engine \in EngineState /\ account \in Account /\ engine.row \in Account
      /\ month \in Nat /\ month \in Months
  BY ModelConstants DEF TypeOK, EngineState
<1>2. CASE BackfillStart
  <2>1. PICK first \in Months, last \in {month - 1, month} :
          Acquire([Idle EXCEPT !.stage = "wipe", !.days = first..last])
    BY <1>2 DEF BackfillStart
  <2>2. first..last \in SUBSET Months
    BY <1>1, ModelConstants DEF Months
  <2>. HIDE DEF Months
  <2> DEFINE days == first..last
  <2>. HIDE DEF days
  <2>3. [Idle EXCEPT !.stage = "wipe", !.days = days] \in EngineState
    BY <2>2, NothingTyped DEF EngineState, Stages, days
  <2>4. Acquire([Idle EXCEPT !.stage = "wipe", !.days = days])
    BY <2>1 DEF days
  <2>. QED BY <1>2, <2>3, <2>4, AcquireTypes DEF BackfillStart, TypeOK
<1>3. CASE WipeRead
  <2>1. engine' \in EngineState
    BY <1>1, <1>3 DEF WipeRead, EngineState, Stages
  <2>. QED BY <1>3, <2>1 DEF WipeRead, TypeOK
<1>4. CASE WipeCommit
  <2> DEFINE row == IF engine.row.exists THEN engine.row ELSE account
             live == IF engine.row.exists THEN engine.row.allowanceMonth ELSE 0
             cash == Column(row.cash, 0, account.cash)
             marker == Column(row.allowanceMonth, 0, account.allowanceMonth)
  <2>1. cash \in Nat /\ marker \in Nat /\ live \in Nat
    BY <1>1 DEF Column, Account
  <2>. HIDE DEF cash, marker, live
  <2>2. account' = [account EXCEPT !.exists = TRUE, !.cash = cash, !.allowanceMonth = marker]
    BY <1>4 DEF WipeCommit, cash, marker
  <2>3. account' \in Account
    BY <1>1, <2>1, <2>2 DEF Account
  <2>4. engine' = [engine EXCEPT !.stage = "replay", !.live = live]
    BY <1>4 DEF WipeCommit, live
  <2>5. engine' \in EngineState
    BY <1>1, <2>1, <2>4 DEF EngineState, Stages
  <2>6. history' \in History
    <3>1. NoHistory(0) \in History /\ history.raced \in BOOLEAN
      BY NothingTyped DEF TypeOK, History
    <3>2. history' = [NoHistory(0) EXCEPT !.raced = history.raced]
      BY <1>4 DEF WipeCommit
    <3>. QED BY <3>1, <3>2 DEF History
  <2>. QED BY <1>4, <2>3, <2>5, <2>6, NothingTyped DEF WipeCommit, NoRows, TypeOK
<1>5. CASE ReplayDay
  <2>1. PICK in \in [ranking: Rankings, verdict: Verdicts, priced: {Tickers}, scale: Scales] :
          engine' = [engine EXCEPT
            !.days = @ \ {Min(@)}, !.funded = @ \cup {Min(engine.days)},
            !.book = Abstract!Passed(Abstract!Credited(@), in)]
    BY <1>5 DEF ReplayDay
  <2> DEFINE first == Min(engine.days)
             credited == Abstract!Credited(engine.book)
             passed == Abstract!Passed(credited, in)
  <2>2. first \in Months
    <3>1. engine.days \in SUBSET Months /\ engine.days # {}
      BY <1>1, <1>5 DEF ReplayDay, EngineState
    <3>. QED BY <3>1, MonthsFinite, MinOfNat
  <2>3. credited \in Books
    <3>1. engine.book \in Books
      BY <1>1 DEF EngineState
    <3>. QED BY <3>1, CreditedBook
  <2>. HIDE DEF credited
  <2>4. passed \in Books
    BY <2>3, PassedBook, BooksAreBooks
  <2>. HIDE DEF first, passed
  <2>5. engine' = [engine EXCEPT !.days = @ \ {first}, !.funded = @ \cup {first}, !.book = passed]
    BY <2>1 DEF first, passed, credited
  <2>6. engine.days \ {first} \in SUBSET Months /\ engine.funded \cup {first} \in SUBSET Months
    BY <1>1, <2>2 DEF EngineState
  <2>7. engine' \in EngineState
    BY <1>1, <2>4, <2>5, <2>6 DEF EngineState
  <2>. QED BY <1>5, <2>7 DEF ReplayDay, TypeOK
<1>. QED BY <1>2, <1>3, <1>4, <1>5

LEMMA PersistTypes ==
  ASSUME TypeOK, ReplayEnd \/ PersistRead \/ PersistCommit
  PROVE  TypeOK'
<1> USE DEF db, Unlocked, Elsewhere
<1>1. /\ engine \in EngineState /\ account \in Account /\ engine.row \in Account
      /\ month \in Nat /\ month \in Months /\ engine.funded \in SUBSET Months
      /\ engine.days \in SUBSET Months /\ engine.book \in Books /\ engine.live \in Nat
  BY ModelConstants DEF TypeOK, EngineState
<1>2. CASE ReplayEnd
  <2> DEFINE again == FundedAgain(engine.live) \ engine.funded
             cash == engine.book.cash + Contribution * Cardinality(again)
  <2>1. again \in SUBSET Months
    BY <1>1 DEF FundedAgain
  <2>2. Cardinality(again) \in Nat
    BY <2>1, MonthsFinite
  <2>3. cash \in Nat
    <3>. HIDE DEF again
    <3>1. \A n \in Nat : Contribution * n \in Nat
      BY Constants
    <3>. QED BY <1>1, <2>2, <3>1 DEF Books
  <2>. HIDE DEF again, cash
  <2>4. engine' = [engine EXCEPT !.stage = "persist", !.funded = @ \cup again,
                      !.days = engine.funded, !.book.cash = cash]
    BY <1>2 DEF ReplayEnd, again, cash
  <2>5. [engine.book EXCEPT !.cash = cash] \in Books
    BY <1>1, <2>3 DEF Books
  <2>6. engine' = [engine EXCEPT !.stage = "persist", !.funded = @ \cup again,
                      !.days = engine.funded, !.book = [engine.book EXCEPT !.cash = cash]]
    BY <2>4
  <2>7. engine' \in EngineState
    BY <1>1, <2>1, <2>5, <2>6 DEF EngineState, Stages
  <2>. QED BY <1>2, <2>7 DEF ReplayEnd, TypeOK
<1>3. CASE PersistRead
  <2>1. engine' \in EngineState
    BY <1>1, <1>3 DEF PersistRead, EngineState, Stages
  <2>. QED BY <1>3, <2>1 DEF PersistRead, TypeOK
<1>4. CASE PersistCommit
  <2>1. engine' \in EngineState /\ lock' \in BOOLEAN
    BY <1>4, NothingTyped DEF PersistCommit, Release
  <2>2. CASE engine.funded \cap allowances # {}
    BY <1>4, <2>1, <2>2 DEF PersistCommit, TypeOK
  <2>3. CASE engine.funded \cap allowances = {}
    <3> DEFINE cash == Column(engine.row.cash, engine.book.cash, account.cash)
               marker == Column(engine.row.allowanceMonth,
                                MarkerAfter(engine.funded, engine.live), account.allowanceMonth)
               equity == Cardinality(engine.days) * Contribution
    <3>1. cash \in Nat
      BY <1>1 DEF Column, Account, Books
    <3>2. MarkerAfter(engine.funded, engine.live) \in Nat
      <4>1. /\ engine.funded \cup {engine.live} \in SUBSET Nat
            /\ engine.funded \cup {engine.live} # {}
            /\ IsFiniteSet(engine.funded \cup {engine.live})
        BY <1>1, MonthsFinite, FS_AddElement
      <4>. QED BY <4>1, MaxOfFinite DEF MarkerAfter
    <3>3. marker \in Nat
      BY <1>1, <3>2 DEF Column, Account
    <3>4. Cardinality(engine.days) \in Nat
      BY <1>1, MonthsFinite
    <3>5. equity \in Nat
      BY <3>4, Constants
    <3>. HIDE DEF cash, marker, equity
    <3>6. account' = [account EXCEPT !.cash = cash, !.allowanceMonth = marker]
      BY <1>4, <2>3 DEF PersistCommit, cash, marker
    <3>7. mark' = [NoMark EXCEPT !.equity = equity, !.funded = Cardinality(engine.days)]
      BY <1>4, <2>3 DEF PersistCommit, equity
    <3>8. account' \in Account
      BY <1>1, <3>1, <3>3, <3>6 DEF Account
    <3>9. mark' \in Mark
      BY <3>4, <3>5, <3>7, NothingTyped DEF Mark
    <3>10. value' \in [Tickers -> Nat] /\ allowances' \in SUBSET Months
      BY <1>1, <1>4, <2>3 DEF PersistCommit, Books, TypeOK
    <3>. QED BY <1>4, <2>1, <3>8, <3>9, <3>10 DEF PersistCommit, TypeOK
  <2>. QED BY <2>2, <2>3
<1>. QED BY <1>2, <1>3, <1>4

LEMMA OtherTypes ==
  ASSUME TypeOK,
         CycleStart \/ Reset \/ Tick \/ Crash \/ Fail \/ \E t \in Tickers : Move(t)
  PROVE  TypeOK'
<1> USE DEF db
<1>1. /\ month \in Nat /\ month \in Months /\ LastMonth \in Nat
      /\ deposit \in [Callers -> DepositState] /\ count.crashes \in 0..MaxCrashes
      /\ count.moves \in 0..MaxMoves
      /\ count \in [runs: 0..MaxRuns, moves: 0..MaxMoves, crashes: 0..MaxCrashes]
  BY ModelConstants DEF TypeOK
<1>2. CASE CycleStart
  <2>1. [Idle EXCEPT !.stage = "deposit"] \in EngineState
    BY NothingTyped DEF EngineState, Stages
  <2>. QED BY <1>2, <2>1, AcquireTypes DEF CycleStart, TypeOK
<1>3. CASE Reset
  <2>1. history' \in History
    BY <1>3, NothingTyped, Constants DEF Reset
  <2>. QED BY <1>3, <2>1, NothingTyped DEF Reset, NoRows, TypeOK
<1>4. CASE Tick
  <2>1. month' \in Months
    BY <1>1, <1>4 DEF Tick, Months
  <2>. QED BY <1>4, <2>1 DEF Tick, TypeOK
<1>5. CASE Crash
  <2>1. count' \in [runs: 0..MaxRuns, moves: 0..MaxMoves, crashes: 0..MaxCrashes]
    <3>1. count.crashes + 1 \in 0..MaxCrashes
      BY <1>1, <1>5, ModelConstants DEF Crash
    <3>. QED BY <1>1, <1>5, <3>1 DEF Crash
  <2>. QED BY <1>5, <2>1, NothingTyped DEF Crash, Release, TypeOK
<1>6. CASE Fail
  <2>1. count' \in [runs: 0..MaxRuns, moves: 0..MaxMoves, crashes: 0..MaxCrashes]
    <3>1. count.crashes + 1 \in 0..MaxCrashes
      BY <1>1, <1>6, ModelConstants DEF Fail
    <3>. QED BY <1>1, <1>6, <3>1 DEF Fail
  <2>2. deposit' \in [Callers -> DepositState]
    BY <1>1, <1>6, NothingTyped DEF Fail
  <2>. QED BY <1>6, <2>1, <2>2, NothingTyped DEF Fail, Release, TypeOK
<1>7. ASSUME NEW t \in Tickers, Move(t) PROVE TypeOK'
  <2>1. count' \in [runs: 0..MaxRuns, moves: 0..MaxMoves, crashes: 0..MaxCrashes]
    <3>1. count.moves + 1 \in 0..MaxMoves
      BY <1>1, <1>7, ModelConstants DEF Move
    <3>. QED BY <1>1, <1>7, <3>1 DEF Move
  <2>2. PICK gain \in {-1, 1} :
          /\ value[t] > 0 /\ value[t] + gain > 0
          /\ value' = [value EXCEPT ![t] = @ + gain]
          /\ history' = [history EXCEPT !.gains = @ + gain]
    BY <1>7 DEF Move
  <2>3. value' \in [Tickers -> Nat]
    <3>1. value[t] + gain \in Nat /\ value \in [Tickers -> Nat]
      BY <2>2 DEF TypeOK
    <3>. QED BY <2>2, <3>1
  <2>4. history' \in History
    <3>1. history \in History /\ history.gains + gain \in Int
      BY <2>2 DEF TypeOK, History
    <3>. QED BY <2>2, <3>1 DEF History
  <2>. QED BY <1>7, <2>1, <2>3, <2>4 DEF Move, TypeOK
<1>. QED BY <1>2, <1>3, <1>4, <1>5, <1>6, <1>7

-----------------------------------------------------------------------------
(* DailyCore: the inductive invariant.                                     *)

LEMMA TypeStep ==
  ASSUME TypeOK, AccountInv, RowInv, ReplayInv, [Next]_vars
  PROVE  TypeOK'
<1>1. CASE Next
  BY <1>1, DepositTypes, SaleTypes, PurchaseTypes, PassTypes, ReplayTypes, PersistTypes,
     OtherTypes DEF Next, Deployment, Backfill
<1>2. CASE UNCHANGED vars
  BY <1>2 DEF vars, db, TypeOK
<1>. QED BY <1>1, <1>2

\* What the lock is held by, and by whom a deposit is made.
LEMMA LockStep ==
  ASSUME TypeOK, LockInv, [Next]_vars
  PROVE  LockInv'
<1> USE DEF To, Release, LockInv
<1>1. /\ engine \in EngineState /\ deposit \in [Callers -> DepositState] /\ Engine \in Callers
      /\ \A stage : [engine EXCEPT !.stage = stage].stage = stage
      /\ Idle.stage = "idle" /\ NoDeposit.at = "idle"
  BY ModelConstants DEF TypeOK, EngineState, Idle, NoDeposit
<1>2. ASSUME NEW c \in Callers, DepositRead(c) \/ DepositOpen(c) \/ DepositCommit(c)
      PROVE  LockInv'
  <2>1. CASE DepositRead(c)
    BY <1>1, <2>1 DEF DepositRead
  <2>2. CASE DepositOpen(c)
    BY <1>1, <2>2 DEF DepositOpen
  <2>3. CASE DepositCommit(c)
    BY <1>1, <2>3 DEF DepositCommit
  <2>. QED BY <1>2, <2>1, <2>2, <2>3
<1>3. CASE CycleStart \/ BackfillStart
  <2>1. lock' = TRUE /\ engine'.stage \in {"deposit", "wipe"} /\ ~lock /\ UNCHANGED deposit
    BY ZenonT(30), <1>3 DEF CycleStart, BackfillStart, Acquire, Idle
  <2>. QED BY <2>1
<1>4. CASE \/ Rank \/ Weigh \/ BuyRead \/ Revalue \/ Deployed \/ Value
           \/ \E t \in Tickers : SellRead(t) \/ SellCommit(t) \/ BuyCommit(t)
           \/ WipeRead \/ WipeCommit \/ ReplayDay \/ ReplayEnd \/ PersistRead
  <2> DEFINE Working == /\ engine.stage \notin {"idle", "deposit"} /\ engine'.stage # "idle"
                        /\ UNCHANGED <<lock, deposit>>
  <2>a. Rank \/ Weigh \/ BuyRead \/ Revalue \/ Deployed \/ Value => Working
    BY ZenonT(30), <1>1 DEF EngineState, Rank, Weigh, BuyRead, Revalue, Deployed, Value, Unlocked, Elsewhere
  <2>b. ASSUME NEW t \in Tickers, SellRead(t) \/ SellCommit(t) \/ BuyCommit(t) PROVE Working
    BY <1>1, <2>b DEF EngineState, SellRead, SellCommit, BuyCommit, Unlocked, Elsewhere
  <2>c. WipeRead \/ WipeCommit => Working
    BY <1>1 DEF EngineState, WipeRead, WipeCommit, Unlocked, Elsewhere
  <2>d. ReplayDay \/ ReplayEnd => Working
    BY <1>1 DEF EngineState, ReplayDay, ReplayEnd, Unlocked, Elsewhere
  <2>e. PersistRead => Working
    BY <1>1 DEF EngineState, PersistRead, Unlocked, Elsewhere
  <2>1. Working
    <3>. HIDE DEF Working
    <3>. QED BY <1>4, <2>a, <2>b, <2>c, <2>d, <2>e
  <2>. QED BY <2>1
<1>5. CASE Snapshot \/ PersistCommit
  <2>1. /\ engine.stage \notin {"idle", "deposit"} /\ engine'.stage = "idle" /\ lock' = FALSE
        /\ UNCHANGED deposit
    BY <1>1, <1>5 DEF Snapshot, PersistCommit, Elsewhere
  <2>. QED BY <2>1
<1>6. CASE Reset \/ Tick \/ (\E t \in Tickers : Move(t)) \/ UNCHANGED vars
  <2>1. UNCHANGED <<engine, lock, deposit>>
    BY <1>6 DEF Reset, Tick, Move, vars
  <2>. QED BY <2>1
<1>7. CASE Crash \/ Fail
  <2>1. engine'.stage = "idle" /\ lock' = FALSE /\ deposit'[Engine].at = "idle"
    BY <1>1, <1>7 DEF Crash, Fail
  <2>. QED BY <2>1
<1>. QED BY <1>2, <1>3, <1>4, <1>5, <1>6, <1>7 DEF Next, Deployment, Backfill

\* What a committed cash column leaves of the row.
LEMMA CashSet ==
  ASSUME account \in Account, NEW row \in Account, NEW cash \in Nat
  PROVE  /\ SetCash(row, cash).exists = account.exists
         /\ SetCash(row, cash).allowanceMonth = account.allowanceMonth
         /\ row = account => SetCash(row, cash) = [account EXCEPT !.cash = cash]
<1>1. row = account => Column(row.cash, cash, account.cash) = cash
  BY DEF Column, Account
<1>. QED BY <1>1 DEF SetCash, Account

\* A deposit on the book it read.
LEMMA DepositChange ==
  ASSUME TypeOK, AccountInv, NEW c \in Callers, DepositCommit(c),
         ~AlreadyDeposited(deposit[c].month)
  PROVE  /\ deposit[c].month \in 1..month /\ deposit[c].month \in Months
         /\ deposit[c].month \notin allowances
         /\ allowances' = allowances \cup {deposit[c].month}
         /\ history'.credits = [history.credits EXCEPT ![deposit[c].month] = @ + 1]
         /\ history'.raced = (history.raced \/ Overlaps(c))
         /\ history'.base = history.base /\ history'.gains = history.gains
         /\ account' \in Account /\ account'.exists = account.exists
         /\ account'.allowanceMonth = deposit[c].month
         /\ deposit[c].row = account => account'.cash = account.cash + Contribution
<1> DEFINE m == deposit[c].month
           row == deposit[c].row
           set == SetCash(row, row.cash + Contribution)
<1>1. account \in Account /\ row \in Account /\ history \in History /\ month \in Months
  BY DEF TypeOK, DepositState
<1>2. m \in 1..month /\ m \in Months /\ m \notin allowances
  BY <1>1, ModelConstants DEF DepositCommit, AccountInv, Months, AlreadyDeposited
<1>3. row.cash + Contribution \in Nat
  BY <1>1, Constants DEF Account
<1>4. /\ set \in Account /\ set.exists = account.exists
      /\ row = account => set = [account EXCEPT !.cash = account.cash + Contribution]
  BY <1>1, <1>3, CashSet, RowsTyped
<1>5. /\ history' = [history EXCEPT !.credits[m] = @ + 1, !.raced = @ \/ Overlaps(c)]
      /\ account' = [set EXCEPT !.allowanceMonth = m]
      /\ allowances' = allowances \cup {m}
  BY DEF DepositCommit
<1>. HIDE DEF set, m, row, Overlaps
<1>6. /\ account' \in Account /\ account'.exists = set.exists /\ account'.allowanceMonth = m
      /\ account'.cash = set.cash
  BY <1>2, <1>4, <1>5, ModelConstants DEF Account
<1>7. row = account => account'.cash = account.cash + Contribution
  BY <1>1, <1>4, <1>6 DEF Account
<1>8. /\ history'.credits = [history.credits EXCEPT ![m] = @ + 1]
      /\ history'.raced = (history.raced \/ Overlaps(c))
      /\ history'.base = history.base /\ history'.gains = history.gains
  BY <1>1, <1>5 DEF History
<1>. QED BY <1>2, <1>4, <1>5, <1>6, <1>7, <1>8 DEF m, row

\* The account, the months of its marker and what was read of it.
LEMMA AccountStep ==
  ASSUME TypeOK, LockInv, AccountInv, ReplayInv, [Next]_vars
  PROVE  AccountInv'
<1> USE DEF To, Release, db
<1> DEFINE Early == {"idle", "deposit", "wipe", "wiping"}
<1>1. /\ engine \in EngineState /\ deposit \in [Callers -> DepositState] /\ Engine \in Callers
      /\ account \in Account /\ engine.row \in Account /\ month \in Nat /\ month >= 1
      /\ account.allowanceMonth \in Nat /\ engine.row.allowanceMonth \in Nat
  BY SMTT(30), ModelConstants DEF TypeOK, EngineState, Account, Months
<1>2. /\ Idle.stage = "idle" /\ Idle.row = NoAccount /\ NoDeposit.at = "idle"
      /\ NoAccount.allowanceMonth = 0 /\ FreshAccount.allowanceMonth = 0
      /\ FreshAccount.exists
  BY DEF Idle, NoDeposit, NoAccount, FreshAccount
<1>3. ASSUME NEW c \in Callers, DepositRead(c)
      PROVE  AccountInv'
  <2>1. UNCHANGED <<account, month>> /\ engine'.row = engine.row
        /\ (engine'.stage = engine.stage \/ account.exists)
    BY <1>1, <1>3 DEF DepositRead, EngineState
  <2>2. \A d \in Callers :
          \/ deposit'[d] = deposit[d]
          \/ /\ deposit'[d].at = "commit" => account.exists
             /\ deposit'[d].month = month /\ deposit'[d].row = account
    BY <1>1, <1>3 DEF DepositRead
  <2>3. ASSUME NEW d \in Callers
        PROVE  /\ deposit'[d].at = "commit" => account.exists
               /\ deposit'[d].at # "idle" => /\ deposit'[d].month \in 1..month
                                            /\ deposit'[d].row.allowanceMonth <= deposit'[d].month
    BY <1>1, <2>2 DEF AccountInv
  <2>. QED BY <2>1, <2>3 DEF AccountInv
<1>4. ASSUME NEW c \in Callers, DepositOpen(c)
      PROVE  AccountInv'
  <2>1. CASE account.exists
    <3>1. UNCHANGED <<account, month>>
      BY <1>4, <2>1 DEF DepositOpen
    <3>2. engine' = engine \/ engine' = Idle
      BY <1>4, <2>1 DEF DepositOpen
    <3>3. \A d \in Callers : deposit'[d] = deposit[d] \/ deposit'[d] = NoDeposit
      BY <1>1, <1>4, <2>1 DEF DepositOpen
    <3>4. ASSUME NEW d \in Callers
          PROVE  /\ deposit'[d].at = "commit" => account.exists
                 /\ deposit'[d].at # "idle" => /\ deposit'[d].month \in 1..month
                                              /\ deposit'[d].row.allowanceMonth <= deposit'[d].month
      BY <1>2, <3>3 DEF AccountInv
    <3>5. engine'.row.allowanceMonth <= month
      BY <1>1, <1>2, <3>2 DEF AccountInv
    <3>. QED BY <1>2, <2>1, <3>1, <3>2, <3>4, <3>5 DEF AccountInv
  <2>2. CASE ~account.exists
    <3>1. account' = FreshAccount /\ UNCHANGED <<engine, month>>
      BY <1>4, <2>2 DEF DepositOpen
    <3>2. \A d \in Callers :
            \/ deposit'[d] = deposit[d]
            \/ /\ deposit[d].at = "open" /\ deposit'[d].month = deposit[d].month
               /\ deposit'[d].row = FreshAccount
      BY <1>1, <1>4, <2>2 DEF DepositOpen, DepositState
    <3>3. ASSUME NEW d \in Callers
          PROVE  deposit'[d].at # "idle" => /\ deposit'[d].month \in 1..month
                                           /\ deposit'[d].row.allowanceMonth <= deposit'[d].month
      BY <1>1, <1>2, <3>2 DEF AccountInv
    <3>. QED BY <1>1, <1>2, <3>1, <3>3 DEF AccountInv
  <2>. QED BY <2>1, <2>2
<1>5. ASSUME NEW c \in Callers, DepositCommit(c)
      PROVE  AccountInv'
  <2>1. /\ engine'.row = engine.row /\ UNCHANGED month
        /\ account.exists
        /\ \A d \in Callers : deposit'[d] = deposit[d] \/ deposit'[d] = NoDeposit
    BY <1>1, <1>5 DEF DepositCommit, AccountInv, EngineState
  <2>2. account'.exists /\ account'.allowanceMonth <= month
    <3>1. CASE AlreadyDeposited(deposit[c].month)
      BY <1>5, <2>1, <3>1 DEF DepositCommit, AccountInv
    <3>2. CASE ~AlreadyDeposited(deposit[c].month)
      <4>1. /\ deposit[c].month \in 1..month /\ account'.exists = account.exists
            /\ account'.allowanceMonth = deposit[c].month
        BY <1>5, <3>2, DepositChange
      <4>. QED BY <1>1, <2>1, <4>1
    <3>. QED BY <3>1, <3>2
  <2>3. ASSUME NEW d \in Callers
        PROVE  deposit'[d].at # "idle" => /\ deposit'[d].month \in 1..month
                                         /\ deposit'[d].row.allowanceMonth <= deposit'[d].month
    BY <1>2, <2>1 DEF AccountInv
  <2>. QED BY <2>1, <2>2, <2>3 DEF AccountInv
<1>6. CASE CycleStart \/ BackfillStart
  <2>1. /\ UNCHANGED <<account, deposit, month>> /\ engine'.stage \in Early
        /\ engine'.row = NoAccount
    BY ZenonT(30), <1>6 DEF CycleStart, BackfillStart, Acquire, Idle
  <2>. QED BY <1>1, <1>2, <2>1 DEF AccountInv
<1>7. CASE \/ Rank \/ Weigh \/ BuyRead \/ Revalue \/ Deployed \/ Value
           \/ (\E t \in Tickers : SellRead(t))
           \/ WipeRead \/ ReplayDay \/ ReplayEnd \/ PersistRead
  <2>1. /\ engine.stage \in Early => engine'.stage \in Early
        /\ engine'.row \in {engine.row, account}
        /\ UNCHANGED <<account, deposit, month>>
    BY <1>1, <1>7 DEF EngineState, Rank, Weigh, BuyRead, Revalue, Deployed, Value, SellRead,
       WipeRead, ReplayDay, ReplayEnd, PersistRead, Unlocked, Elsewhere
  <2>. QED BY <2>1 DEF AccountInv
<1>8. ASSUME NEW t \in Tickers, SellCommit(t) \/ BuyCommit(t)
      PROVE  AccountInv'
  <2>1. /\ engine.stage \notin Early /\ engine'.row = engine.row
        /\ UNCHANGED <<deposit, month>>
    BY <1>1, <1>8 DEF EngineState, SellCommit, BuyCommit, Unlocked, Elsewhere
  <2>2. account.exists
    BY <2>1 DEF AccountInv
  <2>3. account'.exists = account.exists /\ account'.allowanceMonth = account.allowanceMonth
    BY <1>1, <1>8 DEF SellCommit, BuyCommit, SetCash, Account
  <2>. QED BY <2>1, <2>2, <2>3 DEF AccountInv
<1>9. CASE WipeCommit
  <2>1. /\ engine'.row = engine.row /\ UNCHANGED <<deposit, month>>
        /\ account'.exists /\ account'.allowanceMonth \in {0, account.allowanceMonth}
    BY <1>1, <1>9 DEF WipeCommit, EngineState, Account, Column
  <2>. QED BY <1>1, <2>1 DEF AccountInv
<1>10. CASE PersistCommit
  <2>1. /\ engine.stage \notin Early /\ engine' = Idle /\ UNCHANGED <<deposit, month>>
    BY <1>10 DEF PersistCommit, Elsewhere
  <2>2. account.exists
    BY <2>1 DEF AccountInv
  <2>3. account'.exists /\ account'.allowanceMonth <= month
    <3>1. CASE account' = account
      BY <2>2, <3>1 DEF AccountInv
    <3>2. CASE account' # account
      <4>1. MarkerAfter(engine.funded, engine.live) <= month
        <5>1. engine.funded \in SUBSET (1..month) /\ engine.live <= month
              /\ engine.funded \in SUBSET Months /\ engine.live \in Nat
          BY <1>1, <1>10 DEF PersistCommit, ReplayInv, ReplayStages, EngineState
        <5>2. /\ engine.funded \cup {engine.live} \in SUBSET Nat
              /\ IsFiniteSet(engine.funded \cup {engine.live})
          BY <5>1, MonthsFinite, FS_AddElement
        <5>3. Max(engine.funded \cup {engine.live}) \in engine.funded \cup {engine.live}
          BY <5>2, MaxOfFinite
        <5>. QED BY <1>1, <5>1, <5>3 DEF MarkerAfter
      <4> DEFINE cash == Column(engine.row.cash, engine.book.cash, account.cash)
                 marker == Column(engine.row.allowanceMonth,
                                  MarkerAfter(engine.funded, engine.live), account.allowanceMonth)
      <4>2. account' = [account EXCEPT !.cash = cash, !.allowanceMonth = marker]
        BY <1>10, <3>2 DEF PersistCommit
      <4>3. marker <= month
        BY <4>1 DEF Column, AccountInv
      <4>. HIDE DEF cash, marker
      <4>. QED BY <1>1, <2>2, <4>2, <4>3 DEF Account
    <3>. QED BY <3>1, <3>2
  <2>. QED BY <1>1, <1>2, <2>1, <2>3 DEF AccountInv
<1>11. CASE Snapshot
  <2>1. engine' = Idle /\ UNCHANGED <<account, deposit, month>>
    BY <1>11 DEF Snapshot, Elsewhere
  <2>. QED BY <1>1, <1>2, <2>1 DEF AccountInv
<1>12. CASE Reset
  <2>1. account' = FreshAccount /\ UNCHANGED <<engine, deposit, month>>
    BY <1>12 DEF Reset
  <2>. QED BY <1>1, <1>2, <2>1 DEF AccountInv
<1>13. CASE Tick
  <2>1. month' = month + 1 /\ UNCHANGED <<account, engine, deposit>>
    BY <1>13 DEF Tick
  <2>2. \A c \in Callers : deposit[c].month \in 1..month => deposit[c].month \in 1..(month + 1)
    BY <1>1
  <2>3. account.allowanceMonth <= month + 1 /\ engine.row.allowanceMonth <= month + 1
    BY <1>1 DEF AccountInv
  <2>. QED BY <2>1, <2>2, <2>3 DEF AccountInv
<1>14. CASE Crash \/ Fail
  <2>1. /\ UNCHANGED <<account, month>> /\ engine' = Idle
        /\ \A d \in Callers : deposit'[d] = deposit[d] \/ deposit'[d] = NoDeposit
    BY <1>1, <1>14 DEF Crash, Fail
  <2>2. ASSUME NEW d \in Callers
        PROVE  /\ deposit'[d].at = "commit" => account.exists
               /\ deposit'[d].at # "idle" => /\ deposit'[d].month \in 1..month
                                            /\ deposit'[d].row.allowanceMonth <= deposit'[d].month
    BY <1>2, <2>1 DEF AccountInv
  <2>. QED BY <1>1, <1>2, <2>1, <2>2 DEF AccountInv
<1>15. CASE (\E t \in Tickers : Move(t)) \/ UNCHANGED vars
  <2>1. UNCHANGED <<account, engine, deposit, month>>
    BY <1>15 DEF Move, vars
  <2>. QED BY <2>1 DEF AccountInv
<1>. QED BY <1>3, <1>4, <1>5, <1>6, <1>7, <1>8, <1>9, <1>10, <1>11, <1>12, <1>13, <1>14, <1>15
     DEF Next, Deployment, Backfill

\* A row that was read is still the account, and a purchase fits it.
LEMMA RowStep ==
  ASSUME TypeOK, LockInv, AccountInv, RowInv, [Next]_vars
  PROVE  RowInv'
<1> USE DEF To, Release, db
<1> DEFINE Reading == {"selling", "buying", "wiping", "persisting"}
<1>1. /\ engine \in EngineState /\ deposit \in [Callers -> DepositState] /\ Engine \in Callers
      /\ account \in Account /\ history \in History /\ history.raced \in BOOLEAN
      /\ Idle.stage = "idle" /\ NoHistory(0).raced = FALSE
  BY ModelConstants DEF TypeOK, EngineState, History, Idle, NoHistory
<1>2. ASSUME engine'.stage \notin Reading PROVE RowInv'
  BY <1>2 DEF RowInv
<1>3. ASSUME UNCHANGED <<engine, account>>, history.raced => history'.raced
      PROVE  RowInv'
  BY <1>3 DEF RowInv
<1>4. ASSUME NEW c \in Callers, DepositRead(c) \/ DepositOpen(c) \/ DepositCommit(c)
      PROVE  RowInv'
  <2>1. CASE engine.stage \notin Reading
    <3>1. engine'.stage \notin Reading
      BY <1>1, <1>4, <2>1 DEF DepositRead, DepositOpen, DepositCommit, EngineState
    <3>. QED BY <1>2, <3>1
  <2>2. CASE engine.stage \in Reading
    <3>1. lock /\ (deposit[c].at # "idle" => c # Engine)
      BY <2>2 DEF LockInv
    <3>2. CASE DepositRead(c)
      <4>1. UNCHANGED <<engine, account, history>>
        BY <2>2, <3>2 DEF DepositRead
      <4>. QED BY <1>3, <4>1
    <3>3. CASE DepositOpen(c)
      <4>1. deposit[c].at = "open" /\ c # Engine
        BY <3>1, <3>3 DEF DepositOpen
      <4>2. UNCHANGED <<engine, history>>
        BY <3>3, <4>1 DEF DepositOpen
      <4>3. CASE account.exists
        BY <1>3, <3>3, <4>2, <4>3 DEF DepositOpen
      <4>4. CASE ~account.exists
        <5>1. engine.stage = "wiping"
          BY <2>2, <4>4 DEF AccountInv
        <5>2. ~(~history.raced /\ engine.row.exists)
          BY <4>4, <5>1 DEF RowInv
        <5>. QED BY <4>2, <5>1, <5>2 DEF RowInv
      <4>. QED BY <4>3, <4>4
    <3>4. CASE DepositCommit(c)
      <4>1. deposit[c].at = "commit" /\ c # Engine
        BY <3>1, <3>4 DEF DepositCommit
      <4>2. UNCHANGED engine
        BY <3>4, <4>1 DEF DepositCommit
      <4>3. CASE AlreadyDeposited(deposit[c].month)
        BY <1>3, <3>4, <4>2, <4>3 DEF DepositCommit
      <4>4. CASE ~AlreadyDeposited(deposit[c].month)
        <5>1. history'.raced
          BY <3>1, <3>4, <4>1, <4>4, DepositChange DEF Overlaps
        <5>. QED BY <4>2, <5>1 DEF RowInv
      <4>. QED BY <4>3, <4>4
    <3>. QED BY <1>4, <3>2, <3>3, <3>4
  <2>. QED BY <2>1, <2>2
<1>5. CASE CycleStart \/ BackfillStart
  <2>1. engine'.stage \notin Reading
    BY ZenonT(30), <1>5 DEF CycleStart, BackfillStart, Acquire, Idle
  <2>. QED BY <1>2, <2>1
<1>6. CASE \/ Rank \/ Weigh \/ Revalue \/ Deployed \/ Value \/ Snapshot
           \/ (\E t \in Tickers : SellCommit(t) \/ BuyCommit(t))
           \/ WipeCommit \/ ReplayDay \/ ReplayEnd \/ PersistCommit \/ Crash \/ Fail
  <2>1. CASE Rank \/ Weigh \/ Revalue \/ Deployed \/ Value
    <3>1. engine'.stage \in {"value", "sell", "buy", "mark"}
      BY <1>1, <2>1 DEF EngineState, Rank, Weigh, Revalue, Deployed, Value
    <3>. QED BY <1>2, <3>1
  <2>2. CASE \E t \in Tickers : SellCommit(t) \/ BuyCommit(t)
    <3>1. engine'.stage \in {"sell", "revalue"}
      BY <1>1, <2>2 DEF EngineState, SellCommit, BuyCommit
    <3>. QED BY <1>2, <3>1
  <2>3. CASE WipeCommit \/ ReplayDay \/ ReplayEnd
    <3>1. engine'.stage \in {"replay", "persist"}
      BY <1>1, <2>3 DEF EngineState, WipeCommit, ReplayDay, ReplayEnd
    <3>. QED BY <1>2, <3>1
  <2>4. CASE Snapshot \/ PersistCommit \/ Crash \/ Fail
    <3>1. engine'.stage = "idle"
      BY <1>1, <2>4 DEF Snapshot, PersistCommit, Crash, Fail
    <3>. QED BY <1>2, <3>1
  <2>. QED BY <1>6, <2>1, <2>2, <2>3, <2>4
<1>7. CASE WipeRead \/ PersistRead \/ \E t \in Tickers : SellRead(t)
  <2>1. engine'.row = account /\ UNCHANGED <<account, history>> /\ engine'.stage # "buying"
    BY <1>1, <1>7 DEF EngineState, WipeRead, PersistRead, SellRead, Unlocked, Elsewhere
  <2>. QED BY <2>1 DEF RowInv
<1>8. CASE BuyRead
  <2> DEFINE t == Head(engine.targets)
  <2>1. UNCHANGED <<account, history>>
    BY <1>8 DEF BuyRead, Unlocked, Elsewhere
  <2>2. CASE /\ BudgetFor(t) >= 1 /\ account.cash >= BudgetFor(t)
             /\ engine' = [[engine EXCEPT !.targets = Tail(@)]
                             EXCEPT !.stage = "buying", !.ticker = {t},
                                    !.budget = BudgetFor(t), !.row = account]
    <3>1. t \in Tickers
      <4>1. engine.targets \in Seq(Tickers) /\ engine.targets # <<>>
        BY <1>1, <1>8 DEF BuyRead, EngineState
      <4>. QED BY <4>1
    <3>2. BudgetFor(t) \in 1..engine.room
      <4>1. BudgetFor(t) \in Int /\ BudgetFor(t) <= engine.room
        BY <3>1, BudgetForTyped
      <4>2. engine.room \in Nat
        BY <1>1 DEF EngineState
      <4>. HIDE DEF t
      <4>. QED BY <2>2, <4>1, <4>2
    <3>. HIDE DEF t
    <3>3. /\ engine'.stage = "buying" /\ engine'.row = account
          /\ engine'.budget = BudgetFor(t) /\ engine'.room = engine.room
      BY <1>1, <2>2 DEF EngineState
    <3>. QED BY <2>1, <2>2, <3>2, <3>3 DEF RowInv
  <2>3. CASE engine' = [engine EXCEPT !.targets = Tail(@)]
    <3>1. engine'.stage = "buy"
      BY <1>1, <1>8, <2>3 DEF BuyRead, EngineState
    <3>. QED BY <1>2, <3>1
  <2>. QED BY <1>8, <2>2, <2>3 DEF BuyRead
<1>9. CASE Reset
  <2>1. engine'.stage \notin Reading
    BY <1>9 DEF Reset, LockInv
  <2>. QED BY <1>2, <2>1
<1>10. CASE Tick \/ UNCHANGED vars
  <2>1. UNCHANGED <<engine, account, history>>
    BY <1>10 DEF Tick, vars
  <2>. QED BY <1>3, <2>1
<1>11. ASSUME NEW t \in Tickers, Move(t) PROVE RowInv'
  <2>1. UNCHANGED engine /\ engine.stage \notin Reading
    BY <1>11 DEF Move
  <2>. QED BY <1>2, <2>1
<1>. QED BY <1>4, <1>5, <1>6, <1>7, <1>8, <1>9, <1>10, <1>11 DEF Next, Deployment, Backfill

\* A month deposited since the last wipe keeps its row.
LEMMA CreditStep ==
  ASSUME TypeOK, AccountInv, CreditInv, [Next]_vars
  PROVE  CreditInv'
<1> USE DEF db
<1>1. history \in History /\ history.credits \in [Months -> Nat]
  BY DEF TypeOK, History
<1>2. ASSUME history'.credits = history.credits, allowances \subseteq allowances'
      PROVE  CreditInv'
  BY <1>2 DEF CreditInv
<1>3. ASSUME \A m \in Months : history'.credits[m] = 0 PROVE CreditInv'
  BY <1>3 DEF CreditInv
<1>4. ASSUME NEW c \in Callers, DepositRead(c) \/ DepositOpen(c) \/ DepositCommit(c)
      PROVE  CreditInv'
  <2>1. CASE DepositCommit(c) /\ ~AlreadyDeposited(deposit[c].month)
    <3> DEFINE m == deposit[c].month
    <3>1. /\ m \in Months /\ m \notin allowances /\ allowances' = allowances \cup {m}
          /\ history'.credits = [history.credits EXCEPT ![m] = @ + 1]
      BY <2>1, DepositChange
    <3>. HIDE DEF m
    <3>2. history.credits[m] = 0
      BY <1>1, <3>1 DEF CreditInv
    <3>3. ASSUME NEW n \in Months
          PROVE  history'.credits[n] <= 1 /\ (history'.credits[n] = 1 => n \in allowances')
      BY <1>1, <3>1, <3>2 DEF CreditInv
    <3>. QED BY <3>3 DEF CreditInv
  <2>2. CASE ~(DepositCommit(c) /\ ~AlreadyDeposited(deposit[c].month))
    <3>1. UNCHANGED <<history, allowances>>
      BY <1>4, <2>2 DEF DepositRead, DepositOpen, DepositCommit
    <3>. QED BY <1>2, <3>1
  <2>. QED BY <2>1, <2>2
<1>5. CASE WipeCommit \/ Reset
  <2>1. \A m \in Months : NoHistory(0).credits[m] = 0 /\ NoHistory(StartCash).credits[m] = 0
    BY DEF NoHistory
  <2>2. \/ history' = [NoHistory(0) EXCEPT !.raced = history.raced]
        \/ history' = NoHistory(StartCash)
    BY <1>5 DEF WipeCommit, Reset
  <2>3. [NoHistory(0) EXCEPT !.raced = history.raced].credits = NoHistory(0).credits
    BY DEF NoHistory
  <2>. QED BY <1>3, <2>1, <2>2, <2>3
<1>6. CASE PersistCommit
  <2>1. UNCHANGED history /\ allowances \subseteq allowances'
    BY <1>6 DEF PersistCommit, Elsewhere
  <2>. QED BY <1>2, <2>1
<1>7. ASSUME NEW t \in Tickers, Move(t) PROVE CreditInv'
  <2>1. history'.credits = history.credits /\ UNCHANGED allowances
    BY <1>1, <1>7 DEF Move, History
  <2>. QED BY <1>2, <2>1
<1>8. CASE \/ Deployment \/ CycleStart \/ BackfillStart \/ WipeRead \/ ReplayDay \/ ReplayEnd
           \/ PersistRead \/ Tick \/ Crash \/ Fail \/ UNCHANGED vars
  <2>1. UNCHANGED <<history, allowances>>
    BY <1>8 DEF Deployment, Rank, Weigh, BuyRead, Revalue, Deployed, Value, Snapshot, SellRead,
       SellCommit, BuyCommit, CycleStart, BackfillStart, WipeRead, ReplayDay, ReplayEnd,
       PersistRead, Tick, Crash, Fail, Unlocked, Elsewhere, vars
  <2>. QED BY <1>2, <2>1
<1>. QED BY <1>4, <1>5, <1>6, <1>7, <1>8 DEF Next, Backfill

\* What is counted and added here.
LEMMA MoneyTyped ==
  ASSUME TypeOK
  PROVE  /\ account.cash \in Nat /\ Invested \in Nat
         /\ history.base \in Nat /\ history.gains \in Int
         /\ Cardinality(allowances) \in Nat /\ IsFiniteSet(allowances)
         /\ \A n \in Nat : Contribution * n \in Nat
         /\ \A n \in Nat : Contribution * (n + 1) = Contribution * n + Contribution
<1>1. Cardinality(allowances) \in Nat /\ IsFiniteSet(allowances)
  BY MonthsFinite DEF TypeOK
<1>2. /\ \A n \in Nat : Contribution * n \in Nat
      /\ \A n \in Nat : Contribution * (n + 1) = Contribution * n + Contribution
  BY Constants
<1>. QED BY <1>1, <1>2, InvestedTyped DEF TypeOK, Account, History

\* The replay's book holds what its months contributed.
LEMMA ReplayStep ==
  ASSUME TypeOK, LockInv, AccountInv, RowInv, ReplayInv, [Next]_vars
  PROVE  ReplayInv'
<1> USE DEF To, Release, db
<1> DEFINE Replaying == {"wipe", "wiping"} \cup ReplayStages
<1>1. /\ engine \in EngineState /\ month \in Nat /\ month >= 1 /\ Idle.stage = "idle"
      /\ Engine \in Callers /\ account \in Account /\ engine.row \in Account
      /\ account.allowanceMonth \in Nat /\ engine.row.allowanceMonth \in Nat
      /\ engine.days \in SUBSET Months /\ engine.funded \in SUBSET Months
      /\ engine.book \in Books
  BY SMTT(30), ModelConstants DEF TypeOK, EngineState, Account, Months, Idle
<1>2. ASSUME engine'.stage \notin Replaying PROVE ReplayInv'
  BY <1>2 DEF ReplayInv, ReplayStages
<1>3. ASSUME UNCHANGED engine, UNCHANGED month,
             history.raced => history'.raced,
             engine.stage \in ReplayStages /\ ~history'.raced => UNCHANGED <<allowances, history>>
      PROVE  ReplayInv'
  BY <1>3 DEF ReplayInv, ReplayStages
<1>4. ASSUME NEW c \in Callers, DepositRead(c) \/ DepositOpen(c) \/ DepositCommit(c)
      PROVE  ReplayInv'
  <2>1. CASE engine.stage \notin Replaying
    <3>1. engine'.stage \notin Replaying
      BY <1>1, <1>4, <2>1 DEF DepositRead, DepositOpen, DepositCommit, EngineState, ReplayStages
    <3>. QED BY <1>2, <3>1
  <2>2. CASE engine.stage \in Replaying
    <3>1. lock /\ (deposit[c].at # "idle" => c # Engine) /\ engine.stage # "deposit"
      BY <2>2 DEF LockInv, ReplayStages
    <3>2. CASE DepositRead(c) \/ DepositOpen(c)
      <4>1. UNCHANGED <<engine, month, allowances, history>>
        BY <3>1, <3>2 DEF DepositRead, DepositOpen
      <4>. QED BY <1>3, <4>1
    <3>3. CASE DepositCommit(c)
      <4>1. c # Engine /\ UNCHANGED <<engine, month>>
        BY <3>1, <3>3 DEF DepositCommit
      <4>2. CASE AlreadyDeposited(deposit[c].month)
        <5>1. UNCHANGED <<allowances, history>>
          BY <3>3, <4>2 DEF DepositCommit
        <5>. QED BY <1>3, <4>1, <5>1
      <4>3. CASE ~AlreadyDeposited(deposit[c].month)
        <5>1. history'.raced
          BY <3>1, <3>3, <4>1, <4>3, DepositChange DEF Overlaps
        <5>. QED BY <1>3, <4>1, <5>1
      <4>. QED BY <4>2, <4>3
    <3>. QED BY <1>4, <3>2, <3>3
  <2>. QED BY <2>1, <2>2
<1>5. CASE BackfillStart
  <2>1. PICK first \in Months, last \in {month - 1, month} :
          Acquire([Idle EXCEPT !.stage = "wipe", !.days = first..last])
    BY <1>5 DEF BackfillStart
  <2>2. first..last \subseteq 1..month
    BY <1>1, ModelConstants DEF Months
  <2>3. /\ engine'.stage = "wipe" /\ engine'.days = first..last
        /\ engine'.funded = {} /\ engine'.live = 0 /\ engine'.book = NoBook
        /\ UNCHANGED month
    BY <1>5, <2>1 DEF BackfillStart, Acquire, Idle
  <2>4. NoBook.cash + Abstract!Worth(NoBook.value, Tickers) = Contribution * Cardinality({})
    BY NothingTyped, FS_EmptySet, Constants DEF NoBook
  <2>. QED BY <1>1, <2>2, <2>3, <2>4 DEF ReplayInv, ReplayStages
<1>6. CASE WipeRead
  <2>1. /\ engine.stage = "wipe" /\ engine' = [engine EXCEPT !.stage = "wiping", !.row = account]
        /\ UNCHANGED month
    BY <1>6 DEF WipeRead, Unlocked, Elsewhere
  <2>2. /\ engine'.stage = "wiping" /\ engine'.days = engine.days /\ engine'.funded = engine.funded
        /\ engine'.live = engine.live /\ engine'.book = engine.book
    BY <1>1, <2>1 DEF EngineState
  <2>. QED BY <2>1, <2>2 DEF ReplayInv, ReplayStages
<1>7. CASE WipeCommit
  <2>1. /\ engine.stage = "wiping" /\ UNCHANGED month /\ allowances' = {}
        /\ history' = [NoHistory(0) EXCEPT !.raced = history.raced]
        /\ engine' = [engine EXCEPT !.stage = "replay",
                        !.live = IF engine.row.exists THEN engine.row.allowanceMonth ELSE 0]
    BY <1>7 DEF WipeCommit, NoRows
  <2>2. /\ engine'.stage = "replay" /\ engine'.days = engine.days /\ engine'.funded = engine.funded
        /\ engine'.live \in {0, engine.row.allowanceMonth} /\ engine'.book = engine.book
    BY <1>1, <2>1 DEF EngineState
  <2>3. engine'.live <= month
    BY <1>1, <2>2 DEF AccountInv
  <2>4. history'.base = 0 /\ history'.gains = 0
    BY <2>1 DEF NoHistory
  <2>. QED BY <2>1, <2>2, <2>3, <2>4 DEF ReplayInv, ReplayStages
<1>8. CASE ReplayDay
  <2>1. PICK in \in [ranking: Rankings, verdict: Verdicts, priced: {Tickers}, scale: Scales] :
          engine' = [engine EXCEPT
            !.days = @ \ {Min(@)}, !.funded = @ \cup {Min(engine.days)},
            !.book = Abstract!Passed(Abstract!Credited(@), in)]
    BY <1>8 DEF ReplayDay
  <2> DEFINE first == Min(engine.days)
             credited == Abstract!Credited(engine.book)
             passed == Abstract!Passed(credited, in)
  <2>2. /\ engine.stage = "replay" /\ engine.days # {}
        /\ UNCHANGED <<month, allowances, history>>
    BY <1>8 DEF ReplayDay, Unlocked, Elsewhere
  <2>3. first \in engine.days
    <3>1. IsFiniteSet(engine.days) /\ engine.days \in SUBSET Nat
      BY <1>1, MonthsFinite
    <3>. QED BY <2>2, <3>1, MinOfNat
  <2>4. in \in Abstract!Input
    BY BooksAreBooks
  <2>. HIDE DEF credited
  <2>5. passed.cash + Abstract!Worth(passed.value, Tickers)
          = engine.book.cash + Abstract!Worth(engine.book.value, Tickers) + Contribution
    BY <1>1, <2>4, DayBook DEF credited
  <2>. HIDE DEF passed, first
  <2>7. /\ engine'.days = engine.days \ {first} /\ engine'.funded = engine.funded \cup {first}
        /\ engine'.book = passed /\ engine'.live = engine.live /\ engine'.stage = "replay"
    BY <1>1, <2>1, <2>2 DEF EngineState, first, passed, credited
  <2>8. Cardinality(engine'.funded) = Cardinality(engine.funded) + 1
        /\ Cardinality(engine.funded) \in Nat
    <3>1. engine.funded \cap {first} = {} /\ {first} \in SUBSET Months
      BY <1>1, <2>2, <2>3 DEF ReplayInv
    <3>2. Cardinality({first}) = 1 /\ Cardinality(engine.funded) \in Nat
      BY <1>1, MonthsFinite, FS_Singleton
    <3>3. Cardinality(engine.funded \cup {first}) = Cardinality(engine.funded) + 1
      BY <1>1, <3>1, <3>2, MonthsCounted
    <3>. QED BY <2>7, <3>2, <3>3
  <2>10. engine.book.cash + Abstract!Worth(engine.book.value, Tickers)
           = Contribution * Cardinality(engine.funded)
    BY <2>2 DEF ReplayInv, ReplayStages
  <2>11. passed.cash + Abstract!Worth(passed.value, Tickers)
           = Contribution * Cardinality(engine'.funded)
    BY <2>5, <2>8, <2>10, MoneyTyped
  <2>12. /\ engine'.days \cup engine'.funded \subseteq 1..month
         /\ engine'.days \cap engine'.funded = {}
    BY <2>2, <2>3, <2>7 DEF ReplayInv, ReplayStages
  <2>. QED BY <2>2, <2>7, <2>11, <2>12 DEF ReplayInv, ReplayStages
<1>9. CASE ReplayEnd
  <2> DEFINE again == FundedAgain(engine.live) \ engine.funded
             cash == engine.book.cash + Contribution * Cardinality(again)
  <2>1. /\ engine.stage = "replay" /\ UNCHANGED <<month, allowances, history>>
        /\ engine' = [engine EXCEPT !.stage = "persist", !.funded = @ \cup again,
                        !.days = engine.funded, !.book.cash = cash]
    BY <1>9 DEF ReplayEnd, Unlocked, Elsewhere
  <2>2. again \in SUBSET Months /\ again \subseteq 1..month /\ again \cap engine.funded = {}
    BY <1>1 DEF FundedAgain, TypeOK
  <2>. HIDE DEF again, cash
  <2>3. /\ engine'.stage = "persist" /\ engine'.days = engine.funded
        /\ engine'.funded = engine.funded \cup again /\ engine'.live = engine.live
        /\ engine'.book.cash = cash /\ engine'.book.value = engine.book.value
    BY <1>1, <2>1 DEF EngineState, Books
  <2>4. /\ Cardinality(again) \in Nat /\ Cardinality(engine.funded) \in Nat
        /\ Cardinality(engine'.funded) = Cardinality(engine.funded) + Cardinality(again)
    <3>1. IsFiniteSet(again) /\ IsFiniteSet(engine.funded) /\ Cardinality(again) \in Nat
          /\ Cardinality(engine.funded) \in Nat
      BY <1>1, <2>2, MonthsFinite
    <3>2. Cardinality(engine.funded \cup again) = Cardinality(engine.funded) + Cardinality(again)
      BY <1>1, <2>2, MonthsCounted
    <3>. QED BY <2>3, <3>1, <3>2
  <2>5. engine.book.cash + Abstract!Worth(engine.book.value, Tickers)
          = Contribution * Cardinality(engine.funded)
    BY <2>1 DEF ReplayInv, ReplayStages
  <2>6. cash + Abstract!Worth(engine.book.value, Tickers) = Contribution * Cardinality(engine'.funded)
    <3>1. Abstract!Worth(engine.book.value, Tickers) \in Nat /\ engine.book.cash \in Nat
      BY <1>1, InvestedTyped DEF Books
    <3>2. \A m, n \in Nat : Contribution * (m + n) = Contribution * m + Contribution * n
      BY Constants
    <3>3. /\ Contribution * Cardinality(again) \in Nat
          /\ Contribution * Cardinality(engine.funded) \in Nat
          /\ Contribution * Cardinality(engine'.funded)
               = Contribution * Cardinality(engine.funded) + Contribution * Cardinality(again)
      BY <2>4, <3>2, MoneyTyped
    <3> DEFINE x == Contribution * Cardinality(again)
               y == Contribution * Cardinality(engine.funded)
               z == Contribution * Cardinality(engine'.funded)
               worth == Abstract!Worth(engine.book.value, Tickers)
    <3>. HIDE DEF x, y, z, worth
    <3>4. x \in Nat /\ y \in Nat /\ z = y + x /\ worth \in Nat /\ engine.book.cash \in Nat
          /\ engine.book.cash + worth = y
      BY <2>5, <3>1, <3>3 DEF x, y, z, worth
    <3>5. (engine.book.cash + x) + worth = z
      BY <3>4
    <3>. QED BY <3>5 DEF x, z, worth, cash
  <2>7. engine'.days \cup engine'.funded \subseteq 1..month /\ engine.live <= month
    BY <2>1, <2>2, <2>3 DEF ReplayInv, ReplayStages
  <2>. QED BY <2>1, <2>3, <2>6, <2>7 DEF ReplayInv, ReplayStages
<1>10. CASE PersistRead
  <2>1. /\ engine.stage = "persist" /\ UNCHANGED <<month, allowances, history>>
        /\ engine' = [engine EXCEPT !.stage = "persisting", !.row = account]
    BY <1>10 DEF PersistRead, Unlocked, Elsewhere
  <2>2. /\ engine'.stage = "persisting" /\ engine'.days = engine.days
        /\ engine'.funded = engine.funded /\ engine'.live = engine.live
        /\ engine'.book = engine.book
    BY <1>1, <2>1 DEF EngineState
  <2>. QED BY <2>1, <2>2 DEF ReplayInv, ReplayStages
<1>11. CASE CycleStart
  <2>1. engine'.stage = "deposit"
    BY <1>11 DEF CycleStart, Acquire, Idle
  <2>. QED BY <1>2, <2>1 DEF ReplayStages
<1>12. CASE Deployment
  <2>1. engine'.stage \in PassStages \cup {"value", "mark", "idle"}
    <3>1. CASE Rank \/ Weigh \/ BuyRead \/ Revalue \/ Deployed \/ Value
      BY ZenonT(30), <1>1, <3>1 DEF EngineState, Rank, Weigh, BuyRead, Revalue, Deployed, Value, PassStages
    <3>2. CASE Snapshot
      BY <1>1, <3>2 DEF Snapshot
    <3>3. CASE \E t \in Tickers : SellRead(t) \/ SellCommit(t) \/ BuyCommit(t)
      BY <1>1, <3>3 DEF EngineState, SellRead, SellCommit, BuyCommit, PassStages
    <3>. QED BY <1>12, <3>1, <3>2, <3>3 DEF Deployment
  <2>. QED BY <1>2, <2>1 DEF PassStages, ReplayStages
<1>13. CASE PersistCommit \/ Crash \/ Fail
  <2>1. engine'.stage = "idle"
    BY <1>1, <1>13 DEF PersistCommit, Crash, Fail
  <2>. QED BY <1>2, <2>1 DEF ReplayStages
<1>14. CASE Reset
  <2>1. engine'.stage = "idle"
    BY <1>14 DEF Reset, LockInv
  <2>. QED BY <1>2, <2>1 DEF ReplayStages
<1>15. CASE Tick
  <2>1. UNCHANGED <<engine, allowances, history>> /\ month' = month + 1
    BY <1>15 DEF Tick
  <2>2. 1..month \subseteq 1..(month + 1)
    BY <1>1
  <2>3. engine.live \in Nat
    BY <1>1 DEF EngineState
  <2>4. engine.live <= month => engine.live <= month + 1
    BY <1>1, <2>3
  <2>. QED BY <2>1, <2>2, <2>4 DEF ReplayInv, ReplayStages
<1>16. ASSUME NEW t \in Tickers, Move(t) PROVE ReplayInv'
  <2>1. engine'.stage \in {"idle", "rank"}
    BY <1>16 DEF Move
  <2>. QED BY <1>2, <2>1 DEF ReplayStages
<1>17. CASE UNCHANGED vars
  <2>1. UNCHANGED <<engine, month, allowances, history>>
    BY <1>17 DEF vars
  <2>. QED BY <1>3, <2>1
<1>. QED BY <1>4, <1>5, <1>6, <1>7, <1>8, <1>9, <1>10, <1>11, <1>12, <1>13, <1>14, <1>15, <1>16,
     <1>17 DEF Next, Backfill

\* A holding that changes changes the worth by as much.
LEMMA WorthChange ==
  ASSUME NEW v \in [Tickers -> Nat], NEW t \in Tickers, NEW n \in Nat
  PROVE  Abstract!Worth([v EXCEPT ![t] = n], Tickers) = (Abstract!Worth(v, Tickers) - v[t]) + n
<1> DEFINE w == [v EXCEPT ![t] = n]
<1>1. w \in [Tickers -> Nat] /\ w[t] = n /\ \A u \in Tickers \ {t} : w[u] = v[u]
  OBVIOUS
<1>2. Total(w, Tickers) = (Total(v, Tickers) - v[t]) + w[t]
  <2> HIDE DEF w
  <2>. QED BY <1>1, Constants, TotalChange
<1>. QED BY <1>1, <1>2, LibraryOperators

\* What the trades of the live pass do to cash and holdings.
LEMMA TradeMoves ==
  ASSUME TypeOK, AccountInv, RowInv, NEW t \in Tickers, SellCommit(t) \/ BuyCommit(t),
         ~history.raced
  PROVE  account'.cash + Invested' = account.cash + Invested
<1>1. /\ account \in Account /\ account.cash \in Nat /\ value \in [Tickers -> Nat]
      /\ engine \in EngineState /\ value[t] \in Nat /\ Invested \in Nat
      /\ engine.row = account
  BY InvestedTyped DEF TypeOK, Account, RowInv, SellCommit, BuyCommit
<1>2. CASE SellCommit(t)
  <2>1. account'.cash = account.cash + value[t]
    <3>1. account.cash + value[t] \in Nat
      BY <1>1
    <3>2. SetCash(account, account.cash + value[t]) = [account EXCEPT !.cash = account.cash + value[t]]
      BY <1>1, <3>1, CashSet
    <3>. QED BY <1>1, <1>2, <3>2 DEF SellCommit, Account
  <2>2. Invested' = (Invested - value[t]) + 0
    <3>1. value' = [value EXCEPT ![t] = 0]
      BY <1>2 DEF SellCommit
    <3>2. Abstract!Worth([value EXCEPT ![t] = 0], Tickers)
            = (Abstract!Worth(value, Tickers) - value[t]) + 0
      BY <1>1, WorthChange, 0 \in Nat
    <3>. QED BY <3>1, <3>2 DEF Invested
  <2>. QED BY <1>1, <2>1, <2>2
<1>3. CASE BuyCommit(t)
  <2>1. engine.budget \in Nat /\ engine.budget <= account.cash
    BY <1>1, <1>3 DEF BuyCommit, RowInv, EngineState
  <2>2. account'.cash = account.cash - engine.budget
    <3>1. account.cash - engine.budget \in Nat
      BY <1>1, <2>1
    <3>2. SetCash(account, account.cash - engine.budget)
            = [account EXCEPT !.cash = account.cash - engine.budget]
      BY <1>1, <3>1, CashSet
    <3>. QED BY <1>1, <1>3, <3>2 DEF BuyCommit, Account
  <2>3. value[t] + engine.budget \in Nat
    BY <1>1, <2>1
  <2>4. Invested' = (Invested - value[t]) + (value[t] + engine.budget)
    <3>1. value' = [value EXCEPT ![t] = value[t] + engine.budget]
      BY <1>3 DEF BuyCommit
    <3>2. Abstract!Worth([value EXCEPT ![t] = value[t] + engine.budget], Tickers)
            = (Abstract!Worth(value, Tickers) - value[t]) + (value[t] + engine.budget)
      BY <1>1, <2>3, WorthChange
    <3>. QED BY <3>1, <3>2 DEF Invested
  <2>. QED BY <1>1, <2>1, <2>2, <2>4
<1>. QED BY <1>2, <1>3

\* Every step accounts for the money.
LEMMA MoneyStep ==
  ASSUME TypeOK, LockInv, AccountInv, RowInv, ReplayInv, MoneyConserved, [Next]_vars
  PROVE  MoneyConserved'
<1> USE DEF db
<1>1. /\ account \in Account /\ history \in History /\ history.raced \in BOOLEAN
      /\ value \in [Tickers -> Nat] /\ engine \in EngineState
  BY DEF TypeOK, History
<1>2. ASSUME ~history'.raced => /\ ~history.raced
                               /\ account'.cash + Invested' = account.cash + Invested
                               /\ history'.base = history.base /\ history'.gains = history.gains
                               /\ allowances' = allowances
      PROVE  MoneyConserved'
  BY <1>2 DEF MoneyConserved
<1>3. ASSUME UNCHANGED <<account, value, allowances, history>> PROVE MoneyConserved'
  BY <1>3 DEF MoneyConserved, Invested
<1>4. ASSUME NEW c \in Callers, DepositRead(c) PROVE MoneyConserved'
  BY <1>3, <1>4 DEF DepositRead
<1>5. ASSUME NEW c \in Callers, DepositOpen(c) PROVE MoneyConserved'
  <2>1. account'.cash = account.cash
    BY <1>5 DEF DepositOpen, AccountInv, NoAccount, FreshAccount
  <2>2. Invested' = Invested /\ UNCHANGED <<allowances, history>>
    BY <1>5 DEF DepositOpen, Invested
  <2>. QED BY <1>2, <2>1, <2>2
<1>6. ASSUME NEW c \in Callers, DepositCommit(c) PROVE MoneyConserved'
  <2>1. CASE AlreadyDeposited(deposit[c].month)
    BY <1>3, <1>6, <2>1 DEF DepositCommit
  <2>2. CASE ~AlreadyDeposited(deposit[c].month) /\ ~history'.raced
    <3>1. /\ deposit[c].month \in Months /\ deposit[c].month \notin allowances
          /\ allowances' = allowances \cup {deposit[c].month}
          /\ history'.base = history.base /\ history'.gains = history.gains
          /\ ~history.raced /\ account'.cash = account.cash + Contribution
      BY <1>6, <2>2, DepositChange DEF Overlaps
    <3>2. Cardinality(allowances') = Cardinality(allowances) + 1
      BY <3>1, MoneyTyped, FS_AddElement
    <3>3. Invested' = Invested
      BY <1>6 DEF DepositCommit, Invested
    <3>4. account.cash + Invested
            = history.base + history.gains + Contribution * Cardinality(allowances)
      BY <3>1 DEF MoneyConserved
    <3> DEFINE paid == Contribution * Cardinality(allowances)
               paidAfter == Contribution * Cardinality(allowances')
    <3>5. paidAfter = paid + Contribution /\ paid \in Nat
      BY <3>2, MoneyTyped
    <3>6. account.cash + Invested = history.base + history.gains + paid
      BY <3>4
    <3>. HIDE DEF paid, paidAfter
    <3>7. account'.cash + Invested' = history'.base + history'.gains + paidAfter
      <4>1. /\ account.cash \in Nat /\ Invested \in Nat /\ history.base \in Nat
            /\ history.gains \in Int /\ Contribution \in Nat
        BY MoneyTyped, Constants
      <4>. QED BY <3>1, <3>3, <3>5, <3>6, <4>1
    <3>. QED BY <3>7 DEF paidAfter, MoneyConserved
  <2>. QED BY <2>1, <2>2 DEF MoneyConserved
<1>7. ASSUME NEW t \in Tickers, SellCommit(t) \/ BuyCommit(t) PROVE MoneyConserved'
  <2>1. UNCHANGED <<allowances, history>>
    BY <1>7 DEF SellCommit, BuyCommit, Unlocked, Elsewhere
  <2>. QED BY <1>2, <1>7, <2>1, TradeMoves
<1>8. CASE \/ CycleStart \/ BackfillStart \/ Rank \/ Weigh \/ BuyRead \/ Revalue \/ Deployed
           \/ Value \/ Snapshot \/ (\E t \in Tickers : SellRead(t))
           \/ WipeRead \/ ReplayDay \/ ReplayEnd \/ PersistRead \/ Tick \/ Crash \/ Fail
           \/ UNCHANGED vars
  <2>1. UNCHANGED <<account, value, allowances, history>>
    BY <1>8 DEF CycleStart, BackfillStart, Rank, Weigh, BuyRead, Revalue, Deployed, Value,
       Snapshot, SellRead, WipeRead, ReplayDay, ReplayEnd, PersistRead, Tick, Crash, Fail,
       Unlocked, Elsewhere, vars
  <2>. QED BY <1>3, <2>1
<1>9. CASE WipeCommit
  <2>1. /\ allowances' = {} /\ value' = Nothing
        /\ history'.base = 0 /\ history'.gains = 0 /\ history'.raced = history.raced
    BY <1>9 DEF WipeCommit, NoRows, NoHistory
  <2>2. ~history.raced => account'.cash = 0
    <3>1. account'.cash = Column((IF engine.row.exists THEN engine.row ELSE account).cash, 0,
                                 account.cash)
      BY <1>1, <1>9 DEF WipeCommit, Account
    <3>2. ~history.raced /\ engine.row.exists => engine.row = account
      BY <1>9 DEF WipeCommit, RowInv
    <3>. QED BY <3>1, <3>2 DEF Column
  <2>3. Invested' = 0 /\ Contribution * Cardinality({}) = 0
    BY <2>1, NothingTyped, FS_EmptySet, Constants DEF Invested
  <2>4. ~history'.raced => account'.cash + Invested' = 0
    BY <2>1, <2>2, <2>3
  <2>. QED BY <2>1, <2>3, <2>4 DEF MoneyConserved
<1>10. CASE PersistCommit
  <2>1. UNCHANGED history
    BY <1>10 DEF PersistCommit, Elsewhere
  <2>2. CASE engine.funded \cap allowances # {}
    BY <1>3, <1>10, <2>1, <2>2 DEF PersistCommit
  <2>3. CASE engine.funded \cap allowances = {} /\ ~history.raced
    <3>1. engine.stage = "persisting" /\ engine.row = account
      BY <1>10, <2>3 DEF PersistCommit, RowInv
    <3>2. /\ allowances = {} /\ history.base = 0 /\ history.gains = 0
          /\ engine.book.cash + Abstract!Worth(engine.book.value, Tickers)
               = Contribution * Cardinality(engine.funded)
      BY <2>3, <3>1 DEF ReplayInv, ReplayStages
    <3>3. allowances' = engine.funded /\ value' = engine.book.value
      BY <1>10, <2>3, <3>2 DEF PersistCommit
    <3>4. account'.cash = engine.book.cash
      BY ZenonT(30), <1>1, <1>10, <2>3, <3>1 DEF PersistCommit, Column, Account
    <3>5. Contribution * Cardinality(engine.funded) \in Nat
      <4>1. Cardinality(engine.funded) \in Nat
        BY <1>1, MonthsFinite DEF EngineState
      <4>. QED BY <4>1, MoneyTyped
    <3>6. account'.cash + Invested' = Contribution * Cardinality(allowances')
      BY <3>2, <3>3, <3>4 DEF Invested
    <3>. QED BY <2>1, <3>2, <3>3, <3>5, <3>6 DEF MoneyConserved
  <2>. QED BY <2>1, <2>2, <2>3 DEF MoneyConserved
<1>11. CASE Reset
  <2>1. /\ allowances' = {} /\ value' = Nothing /\ account'.cash = StartCash
        /\ history'.base = StartCash /\ history'.gains = 0
    BY <1>11 DEF Reset, NoRows, NoHistory, FreshAccount
  <2>2. Invested' = 0 /\ Contribution * Cardinality({}) = 0
    BY <2>1, NothingTyped, FS_EmptySet, Constants DEF Invested
  <2>. QED BY <2>1, <2>2, Constants DEF MoneyConserved
<1>12. ASSUME NEW t \in Tickers, Move(t) PROVE MoneyConserved'
  <2>1. PICK gain \in {-1, 1} :
          /\ value[t] > 0 /\ value[t] + gain > 0
          /\ value' = [value EXCEPT ![t] = @ + gain]
          /\ history' = [history EXCEPT !.gains = @ + gain]
    BY <1>12 DEF Move
  <2>2. value[t] + gain \in Nat /\ value[t] \in Nat
    BY <1>1, <2>1
  <2>3. Invested' = (Invested - value[t]) + (value[t] + gain)
    <3>1. value' = [value EXCEPT ![t] = value[t] + gain]
      BY <2>1
    <3>2. Abstract!Worth([value EXCEPT ![t] = value[t] + gain], Tickers)
            = (Abstract!Worth(value, Tickers) - value[t]) + (value[t] + gain)
      BY <1>1, <2>2, WorthChange
    <3>. QED BY <3>1, <3>2 DEF Invested
  <2>4. /\ history'.gains = history.gains + gain /\ history'.base = history.base
        /\ history'.raced = history.raced
    BY <1>1, <2>1 DEF History
  <2>5. UNCHANGED <<account, allowances>>
    BY <1>12 DEF Move
  <2> DEFINE paid == Contribution * Cardinality(allowances)
  <2>6. paid \in Nat
    BY MoneyTyped
  <2>7. ~history.raced => account.cash + Invested = history.base + history.gains + paid
    BY DEF MoneyConserved
  <2>. HIDE DEF paid
  <2>8. ~history'.raced => account'.cash + Invested' = history'.base + history'.gains + paid
    <3>1. /\ account.cash \in Nat /\ Invested \in Nat /\ history.base \in Nat
          /\ history.gains \in Int /\ gain \in Int
      BY <2>1, MoneyTyped
    <3>. QED BY <2>2, <2>3, <2>4, <2>5, <2>6, <2>7, <3>1
  <2>. QED BY <2>5, <2>8 DEF paid, MoneyConserved
<1>. QED BY <1>4, <1>5, <1>6, <1>7, <1>8, <1>9, <1>10, <1>11, <1>12 DEF Next, Deployment, Backfill

\* The marker stays at or past the newest row.
LEMMA MarkerStep ==
  ASSUME TypeOK, LockInv, AccountInv, RowInv, ReplayInv, MarkerCoversRows, [Next]_vars
  PROVE  MarkerCoversRows'
<1> USE DEF db
<1>1. /\ account \in Account /\ history \in History /\ history.raced \in BOOLEAN
      /\ account.allowanceMonth \in Nat /\ engine \in EngineState
      /\ allowances \in SUBSET Months /\ \A m \in Months : m \in Nat
  BY ModelConstants DEF TypeOK, History, Account
<1>2. ASSUME history'.raced = history.raced, account'.allowanceMonth = account.allowanceMonth,
             allowances' = allowances
      PROVE  MarkerCoversRows'
  BY <1>2 DEF MarkerCoversRows
<1>3. ASSUME allowances' = {} PROVE MarkerCoversRows'
  BY <1>3 DEF MarkerCoversRows
<1>4. ASSUME NEW c \in Callers, DepositRead(c) PROVE MarkerCoversRows'
  BY <1>2, <1>4 DEF DepositRead
<1>5. ASSUME NEW c \in Callers, DepositOpen(c) PROVE MarkerCoversRows'
  <2>1. account'.allowanceMonth = account.allowanceMonth
    BY <1>5 DEF DepositOpen, AccountInv, NoAccount, FreshAccount
  <2>. QED BY <1>2, <1>5, <2>1 DEF DepositOpen
<1>6. ASSUME NEW c \in Callers, DepositCommit(c) PROVE MarkerCoversRows'
  <2>1. CASE AlreadyDeposited(deposit[c].month)
    BY <1>2, <1>6, <2>1 DEF DepositCommit
  <2>2. CASE ~AlreadyDeposited(deposit[c].month) /\ ~history'.raced
    <3>1. /\ deposit[c].month \in Months /\ ~history.raced
          /\ allowances' = allowances \cup {deposit[c].month}
          /\ account'.allowanceMonth = deposit[c].month /\ deposit[c].row = account
      BY <1>6, <2>2, DepositChange DEF Overlaps
    <3>2. account.allowanceMonth <= deposit[c].month
      BY <1>6, <3>1 DEF DepositCommit, AccountInv
    <3>3. ASSUME NEW m \in allowances' PROVE m <= account'.allowanceMonth
      BY <1>1, <3>1, <3>2 DEF MarkerCoversRows
    <3>. QED BY <3>3 DEF MarkerCoversRows
  <2>. QED BY <2>1, <2>2 DEF MarkerCoversRows
<1>7. ASSUME NEW t \in Tickers, SellCommit(t) \/ BuyCommit(t) PROVE MarkerCoversRows'
  <2>1. UNCHANGED <<allowances, history>>
    BY <1>7 DEF SellCommit, BuyCommit, Unlocked, Elsewhere
  <2>2. account'.allowanceMonth = account.allowanceMonth
    BY <1>1, <1>7 DEF SellCommit, BuyCommit, SetCash, Account
  <2>. QED BY <1>2, <2>1, <2>2
<1>8. CASE \/ CycleStart \/ BackfillStart \/ Rank \/ Weigh \/ BuyRead \/ Revalue \/ Deployed
           \/ Value \/ Snapshot \/ (\E t \in Tickers : SellRead(t))
           \/ WipeRead \/ ReplayDay \/ ReplayEnd \/ PersistRead \/ Tick \/ Crash \/ Fail
           \/ UNCHANGED vars
  <2>1. UNCHANGED <<account, allowances, history>>
    BY <1>8 DEF CycleStart, BackfillStart, Rank, Weigh, BuyRead, Revalue, Deployed, Value,
       Snapshot, SellRead, WipeRead, ReplayDay, ReplayEnd, PersistRead, Tick, Crash, Fail,
       Unlocked, Elsewhere, vars
  <2>. QED BY <1>2, <2>1
<1>9. CASE WipeCommit \/ Reset
  BY <1>3, <1>9 DEF WipeCommit, Reset, NoRows
<1>10. CASE PersistCommit
  <2>1. UNCHANGED history
    BY <1>10 DEF PersistCommit, Elsewhere
  <2>2. CASE engine.funded \cap allowances # {}
    BY <1>2, <1>10, <2>1, <2>2 DEF PersistCommit
  <2>3. CASE engine.funded \cap allowances = {} /\ ~history.raced
    <3>1. engine.row = account /\ allowances = {}
      BY <1>10, <2>3 DEF PersistCommit, RowInv, ReplayInv, ReplayStages
    <3>2. allowances' = engine.funded
          /\ account'.allowanceMonth = MarkerAfter(engine.funded, engine.live)
      BY <1>1, <1>10, <2>3, <3>1 DEF PersistCommit, Column, Account
    <3>3. /\ engine.funded \cup {engine.live} \in SUBSET Nat
          /\ engine.funded \cup {engine.live} # {}
          /\ IsFiniteSet(engine.funded \cup {engine.live})
      BY <1>1, MonthsFinite, FS_AddElement DEF EngineState
    <3>4. \A m \in engine.funded : Max(engine.funded \cup {engine.live}) >= m
      BY <3>3, MaxOfFinite
    <3>5. Max(engine.funded \cup {engine.live}) \in Nat /\ engine.funded \in SUBSET Nat
      BY <3>3, MaxOfFinite
    <3>. QED BY <3>2, <3>4, <3>5 DEF MarkerCoversRows, MarkerAfter
  <2>. QED BY <2>1, <2>2, <2>3 DEF MarkerCoversRows
<1>11. ASSUME NEW t \in Tickers, Move(t) PROVE MarkerCoversRows'
  <2>1. history'.raced = history.raced /\ UNCHANGED <<account, allowances>>
    BY <1>1, <1>11 DEF Move, History
  <2>. QED BY <1>2, <2>1
<1>. QED BY <1>4, <1>5, <1>6, <1>7, <1>8, <1>9, <1>10, <1>11 DEF Next, Deployment, Backfill

-----------------------------------------------------------------------------
(* DailyCore: the theorems.                                                *)

Inv ==
  /\ TypeOK /\ LockInv /\ AccountInv /\ RowInv /\ ReplayInv /\ CreditInv
  /\ MoneyConserved /\ MarkerCoversRows

LEMMA InitInv == Init => Inv
<1> SUFFICES ASSUME Init PROVE Inv
  OBVIOUS
<1>1. TypeOK
  BY InitTyped
<1>2. LockInv
  BY ModelConstants DEF Init, LockInv, Idle, NoDeposit
<1>3. AccountInv /\ RowInv
  BY ModelConstants DEF Init, AccountInv, RowInv, Idle, NoDeposit, NoAccount, FreshAccount
<1>4. ReplayInv
  BY DEF Init, ReplayInv, ReplayStages, Idle
<1>5. CreditInv
  BY DEF Init, CreditInv, NoHistory
<1>6. MoneyConserved
  <2>1. Invested = 0 /\ Contribution * Cardinality({}) = 0
    BY NothingTyped, FS_EmptySet, Constants DEF Init, Invested
  <2>2. account.cash = StartCash /\ history.base = StartCash /\ history.gains = 0 /\ allowances = {}
    BY DEF Init, NoAccount, FreshAccount, NoHistory
  <2>. QED BY <2>1, <2>2, Constants DEF MoneyConserved
<1>7. MarkerCoversRows
  BY DEF Init, MarkerCoversRows
<1>. QED BY <1>1, <1>2, <1>3, <1>4, <1>5, <1>6, <1>7 DEF Inv

LEMMA StepInv == Inv /\ [Next]_vars => Inv'
BY TypeStep, LockStep, AccountStep, RowStep, ReplayStep, CreditStep, MoneyStep, MarkerStep DEF Inv

LEMMA Invariant == Spec => []Inv
BY InitInv, StepInv, PTL DEF Spec

\* Every transaction of the daily core keeps the shape of its rows: cash never
\* goes below zero and no budget, room or replayed book does.
THEOREM TypeCorrect == Spec => []TypeOK
<1>1. Inv => TypeOK
  BY DEF Inv
<1>. QED BY <1>1, Invariant, PTL

\* However cycles, backfills, deposits, resets, price moves and crashes
\* interleave, no money appears or is lost until a deposit overlaps with
\* another operation.
THEOREM MoneyIsConserved == Spec => []MoneyConserved
<1>1. Inv => MoneyConserved
  BY DEF Inv
<1>. QED BY <1>1, Invariant, PTL

\* The account's marker never lags the newest allowance row.
THEOREM MarkerCovers == Spec => []MarkerCoversRows
<1>1. Inv => MarkerCoversRows
  BY DEF Inv
<1>. QED BY <1>1, Invariant, PTL

\* No month is deposited twice between two wipes, races included.
THEOREM OneDepositPerMonth == Spec => []DepositOncePerMonth
<1>1. Inv => DepositOncePerMonth
  BY DEF Inv, CreditInv, DepositOncePerMonth
<1>. QED BY <1>1, Invariant, PTL

\* On every book that any history of the daily core leaves to the next pass,
\* the pass conserves the money and is harmless when it is run again.
THEOREM RerunIsHarmless == Spec => []RerunTradesNothing
<1>1. Inv => RerunTradesNothing
  BY BooksAreBooks, BookPromises DEF Inv, RerunTradesNothing
<1>. QED BY <1>1, Invariant, PTL

\* On every such book the pass serves the ranking from its top.
THEOREM TopFirst == Spec => []BestRankFirst
<1>1. Inv => BestRankFirst
  BY BooksAreBooks, BookPromises DEF Inv, BestRankFirst
<1>. QED BY <1>1, Invariant, PTL

\* On every such book the pass keeps the volatility control's promise.
THEOREM CapIsHeld == Spec => []VolCapHeld
<1>1. Inv => VolCapHeld
  BY BooksAreBooks, BookPromises DEF Inv, VolCapHeld
<1>. QED BY <1>1, Invariant, PTL

-----------------------------------------------------------------------------
(* DailyCore implements DailyBook: what a pass has made of its book so far. *)

Present == [cash |-> account.cash, value |-> value]

\* The names a pass sells.
Gone(in) == IF in.verdict = "out" THEN Tickers ELSE Abstract!Released(in)

\* The inputs the engine carries are those of the day.
InputOf(in) ==
  /\ in \in Abstract!Input
  /\ engine.verdict = in.verdict /\ engine.priced = in.priced /\ engine.scale = in.scale

\* The sells made so far are a sale of those names.
Selling(in) ==
  /\ InputOf(in)
  /\ engine.targets = Abstract!Targets(in.ranking)
  /\ engine.names \in SUBSET Gone(in)
  /\ engine.stage = "selling" => engine.ticker \in SUBSET engine.names
  /\ Present = Abstract!Sold(engine.start, Gone(in) \ engine.names)

\* From position d on, the targets are still to come.
Left(targets, q, d) ==
  /\ Len(targets) = Len(q) - d
  /\ \A j \in 1..(Len(q) - d) : targets[j] = q[d + j]

\* The purchases made so far are the first k of the replay's run.
Purchasing(in, run, n, k) ==
  LET b == Sale(engine.start, in)
      q == Abstract!Targets(in.ranking)
  IN  /\ InputOf(in) /\ in.verdict = "clear"
      /\ b \in Abstract!Book /\ Deploys(run, n, b, in) /\ k \in 0..n
      /\ engine.weight = Abstract!Weight(b)
      /\ run[k] = [book |-> Present, room |-> engine.room]
      /\ engine.stage = "buy" => engine.seen = account.cash
      /\ engine.stage # "buying" => Left(engine.targets, q, k)
      /\ engine.stage = "buying" =>
           /\ k + 1 \in 1..n /\ Left(engine.targets, q, k + 1)
           /\ engine.ticker = {q[k + 1]} /\ q[k + 1] \in in.priced
           /\ engine.budget = Abstract!Budget(run[k], q[k + 1], engine.weight)
           /\ engine.budget >= 1

PassInv ==
  ~history.raced =>
    /\ engine.stage \in {"sell", "selling"} => \E in : Selling(in)
    /\ engine.stage \in {"buy", "buying", "revalue"} =>
         \E in, run, n, k : Purchasing(in, run, n, k)

\* A backfill has replayed nothing before its wipe.
WipeInv ==
  engine.stage \in {"wipe", "wiping"} => engine.book = NoBook /\ engine.funded = {}

\* What the money began with and what prices added is bounded.
BoundInv ==
  /\ history.base \in {0, StartCash}
  /\ history.gains <= count.moves

LEMMA PresentTyped ==
  ASSUME TypeOK
  PROVE  /\ Present \in Abstract!Book /\ engine.start \in Abstract!Book
         /\ engine.book \in Abstract!Book
         /\ Abstract!Equity(Present) = account.cash + Invested
         /\ Abstract!Invested(Present) = Invested
         /\ account.cash \in Nat /\ Invested \in Nat /\ value \in [Tickers -> Nat]
<1>1. /\ account.cash \in Nat /\ value \in [Tickers -> Nat]
      /\ engine.start \in Books /\ engine.book \in Books
  BY DEF TypeOK, Account, EngineState
<1>2. Present \in Abstract!Book
  BY <1>1 DEF Present, Abstract!Book
<1>3. Abstract!Equity(Present) = Present.cash + Total(Present.value, Tickers)
      /\ Abstract!Invested(Present) = Total(Present.value, Tickers)
  BY <1>2, EquityTyped
<1>4. Invested = Total(value, Tickers) /\ Invested \in Nat
  BY LibraryOperators, InvestedTyped DEF Invested
<1>5. Present.cash = account.cash /\ Present.value = value
  BY DEF Present
<1>. QED BY <1>1, <1>2, <1>3, <1>4, <1>5, BooksAreBooks

\* To sell one name more.
LEMMA SoldMore ==
  ASSUME NEW b \in Abstract!Book, NEW S \in SUBSET Tickers, NEW t \in Tickers \ S
  PROVE  /\ Abstract!Sold(b, S).value[t] = b.value[t]
         /\ Abstract!Sold(b, S \cup {t}) =
              [cash |-> Abstract!Sold(b, S).cash + b.value[t],
               value |-> [Abstract!Sold(b, S).value EXCEPT ![t] = 0]]
<1> DEFINE U == S \cup {t}
           rest(R) == [u \in Tickers |-> IF u \in R THEN 0 ELSE b.value[u]]
<1>1. b.cash \in Nat /\ b.value \in [Tickers -> Nat]
  BY DEF Abstract!Book
<1>2. \A R : Abstract!Sold(b, R) = [cash |-> b.cash + Total(b.value, R), value |-> rest(R)]
  BY LibraryOperators DEF Abstract!Sold
<1>3. Total(b.value, U) = b.value[t] + Total(b.value, S) /\ Total(b.value, S) \in Nat
  <2>. HIDE DEF U
  <2>1. \A R \in SUBSET Tickers : Total(b.value, R) = Cardinality(Cells(b.value, R))
                                  /\ Total(b.value, R) \in Nat
    BY <1>1, TotalOfPart, TotalOfParts, Constants
  <2>. USE DEF U
  <2>2. U \in SUBSET Tickers /\ t \in U /\ U \ {t} = S
    OBVIOUS
  <2>. HIDE DEF U
  <2>3. Cardinality(Cells(b.value, U)) = b.value[t] + Cardinality(Cells(b.value, U \ {t}))
    BY <1>1, <2>2, CellsStep, Constants
  <2>. QED BY <2>1, <2>2, <2>3
<1>4. rest(U) = [rest(S) EXCEPT ![t] = 0] /\ rest(S)[t] = b.value[t]
  BY <1>1
<1>5. b.value[t] \in Nat
  BY <1>1
<1>. HIDE DEF rest
<1>. QED BY <1>1, <1>2, <1>3, <1>4, <1>5

\* The targets that are left after the next one.
LEMMA LeftTail ==
  ASSUME NEW T, NEW targets \in Seq(T), NEW q, NEW d \in Nat, Len(q) \in Nat, d <= Len(q),
         Left(targets, q, d)
  PROVE  /\ targets = <<>> => d = Len(q)
         /\ targets # <<>> => /\ d + 1 \in 1..Len(q) /\ Head(targets) = q[d + 1]
                             /\ Left(Tail(targets), q, d + 1)
<1>1. Len(targets) = Len(q) - d /\ \A j \in 1..(Len(q) - d) : targets[j] = q[d + j]
  BY DEF Left
<1>2. CASE targets = <<>>
  BY <1>1, <1>2
<1>3. CASE targets # <<>>
  <2>1. Len(targets) >= 1 /\ Len(Tail(targets)) = Len(targets) - 1
        /\ Head(targets) = targets[1]
        /\ \A j \in 1..(Len(targets) - 1) : Tail(targets)[j] = targets[j + 1]
    BY <1>3
  <2>2. Head(targets) = q[d + 1] /\ d + 1 \in 1..Len(q)
    BY <1>1, <2>1
  <2>3. ASSUME NEW j \in 1..(Len(q) - (d + 1)) PROVE Tail(targets)[j] = q[(d + 1) + j]
    <3>1. j + 1 \in 1..(Len(q) - d) /\ j \in 1..(Len(targets) - 1) /\ d + (j + 1) = (d + 1) + j
      BY <1>1
    <3>. QED BY <1>1, <2>1, <3>1
  <2>4. Len(Tail(targets)) = Len(q) - (d + 1)
    BY <1>1, <2>1
  <2>. QED BY <1>3, <2>2, <2>3, <2>4 DEF Left
<1>. QED BY <1>2, <1>3
LEMMA RankStarts ==
  ASSUME TypeOK, Rank
  PROVE  /\ engine'.stage \in {"sell", "value"} /\ UNCHANGED <<account, value, history>>
         /\ engine'.stage = "sell" => engine'.start = Present /\ \E in : Selling(in)'
<1>1. engine \in EngineState /\ Rankings \subseteq Seq(Tickers)
  BY Constants DEF TypeOK
<1>2. UNCHANGED <<account, value, history>>
  BY DEF Rank, Unlocked, Elsewhere, db
<1>3. To("value") => engine'.stage = "value"
  BY <1>1 DEF To, EngineState
<1>4. ASSUME NEW ranking \in Rankings, NEW verdict \in Verdicts, NEW priced \in SUBSET Tickers,
             NEW scale \in Scales,
             engine' = [engine EXCEPT
               !.stage = "sell",
               !.start = [cash |-> account.cash, value |-> value],
               !.names = IF verdict = "out" THEN Held ELSE Held \ ToSet(ranking),
               !.targets = SubSeq(ranking, 1, Min({TargetN, Len(ranking)})),
               !.verdict = verdict, !.priced = priced, !.scale = scale]
      PROVE  engine'.stage = "sell" /\ engine'.start = Present /\ \E in : Selling(in)'
  <2> DEFINE in == [ranking |-> ranking, verdict |-> verdict, priced |-> priced, scale |-> scale]
             names == IF verdict = "out" THEN Held ELSE Held \ ToSet(ranking)
  <2>1. in \in Abstract!Input
    BY DEF Abstract!Input, Abstract!Verdicts, Verdicts
  <2>2. /\ engine'.stage = "sell" /\ engine'.start = Present /\ engine'.names = names
        /\ engine'.targets = SubSeq(ranking, 1, Min({TargetN, Len(ranking)}))
        /\ engine'.verdict = verdict /\ engine'.priced = priced /\ engine'.scale = scale
    BY <1>1, <1>4 DEF EngineState, Present
  <2>3. engine'.targets = Abstract!Targets(in.ranking)
    BY <2>2, LibraryOperators DEF Abstract!Targets
  <2>4. names \in SUBSET Gone(in) /\ \A t \in Gone(in) \ names : value[t] = 0
    <3>1. Abstract!ToSet(ranking) = ToSet(ranking)
      BY DEF Abstract!ToSet, ToSet
    <3>2. Abstract!Released(in) = Tickers \ ToSet(ranking)
      BY <3>1 DEF Abstract!Released
    <3>3. value \in [Tickers -> Nat]
      BY DEF TypeOK
    <3>4. Gone(in) = IF verdict = "out" THEN Tickers ELSE Tickers \ ToSet(ranking)
      BY <3>2 DEF Gone
    <3>5. \A t \in Tickers : t \notin Held => value[t] = 0
      BY <3>3 DEF Held
    <3>. QED BY <3>4, <3>5 DEF Held
  <2>5. Present = Abstract!Sold(Present, Gone(in) \ names)
    <3>1. Gone(in) \ names \in SUBSET Tickers
      BY DEF Gone, Abstract!Released
    <3>2. \A t \in Gone(in) \ names : Present.value[t] = 0
      BY <2>4 DEF Present
    <3>. HIDE DEF names, in
    <3>. QED BY <3>1, <3>2, PresentTyped, SoldNothing
  <2>. HIDE DEF names
  <2>6. Present' = Present
    BY <1>2 DEF Present
  <2>7. Selling(in)'
    BY <2>1, <2>2, <2>3, <2>4, <2>5, <2>6 DEF Selling, InputOf, Gone
  <2>. QED BY <2>2, <2>7
<1>5. ASSUME engine'.stage = "sell" PROVE engine'.start = Present /\ \E in : Selling(in)'
  <2>1. ~To("value")
    BY <1>3, <1>5
  <2>2. PICK ranking \in Rankings, verdict \in Verdicts, priced \in SUBSET Tickers,
             scale \in Scales :
             engine' = [engine EXCEPT
               !.stage = "sell",
               !.start = [cash |-> account.cash, value |-> value],
               !.names = IF verdict = "out" THEN Held ELSE Held \ ToSet(ranking),
               !.targets = SubSeq(ranking, 1, Min({TargetN, Len(ranking)})),
               !.verdict = verdict, !.priced = priced, !.scale = scale]
    BY ONLY Rank, <2>1 DEF Rank
  <2>3. engine'.start = Present /\ \E in : Selling(in)'
    BY ONLY <1>4, <2>2
  <2>. QED BY <2>3
<1>6. engine'.stage \in {"sell", "value"}
  BY <1>3, <1>4 DEF Rank
<1>. QED BY <1>2, <1>5, <1>6

\* A sale of the pass, read and committed.
LEMMA SellGoesOn ==
  ASSUME TypeOK, LockInv, AccountInv, RowInv, ~history.raced, NEW in, Selling(in),
         NEW t \in Tickers, SellRead(t) \/ SellCommit(t)
  PROVE  Selling(in)' /\ engine'.stage \in {"sell", "selling"} /\ UNCHANGED <<engine.start, history>>
<1>1. /\ engine \in EngineState /\ account \in Account /\ engine.row \in Account
      /\ account.cash \in Nat /\ value \in [Tickers -> Nat] /\ engine.start \in Abstract!Book
  BY PresentTyped DEF TypeOK, EngineState
<1>2. CASE SellRead(t)
  <2>1. /\ engine' = [engine EXCEPT !.stage = "selling", !.ticker = {t}, !.row = account]
        /\ t \in engine.names /\ UNCHANGED <<account, value, history>>
    BY <1>2 DEF SellRead, Unlocked, Elsewhere, db
  <2>2. /\ engine'.stage = "selling" /\ engine'.ticker = {t} /\ engine'.names = engine.names
        /\ engine'.targets = engine.targets /\ engine'.start = engine.start
        /\ engine'.verdict = engine.verdict /\ engine'.priced = engine.priced
        /\ engine'.scale = engine.scale
    BY <1>1, <2>1 DEF EngineState
  <2>. QED BY <2>1, <2>2 DEF Selling, InputOf, Present
<1>3. CASE SellCommit(t)
  <2> DEFINE S == Gone(in) \ engine.names
  <2>1. /\ engine' = [engine EXCEPT !.stage = "sell", !.ticker = {}, !.names = @ \ {t}]
        /\ engine.stage = "selling" /\ t \in engine.ticker /\ UNCHANGED history
        /\ account' = SetCash(engine.row, engine.row.cash + value[t])
        /\ value' = [value EXCEPT ![t] = 0]
    BY <1>3 DEF SellCommit, Unlocked, Elsewhere
  <2>2. engine.row = account
    BY <2>1 DEF RowInv
  <2>3. account'.cash = account.cash + value[t]
    <3>1. account.cash + value[t] \in Nat
      BY <1>1
    <3>2. account' = [account EXCEPT !.cash = account.cash + value[t]]
      BY <1>1, <2>1, <2>2, <3>1, CashSet
    <3>. QED BY <1>1, <3>2 DEF Account
  <2>4. t \in engine.names /\ t \in Gone(in)
    BY <2>1 DEF Selling
  <2>5. S \in SUBSET Tickers /\ t \notin S /\ Gone(in) \ (engine.names \ {t}) = S \cup {t}
    BY <2>4 DEF Gone, Abstract!Released
  <2>6. Present = Abstract!Sold(engine.start, S)
    BY DEF Selling
  <2>7. Abstract!Sold(engine.start, S \cup {t}) = [cash |-> account.cash + value[t],
                                                   value |-> [value EXCEPT ![t] = 0]]
    <3>. HIDE DEF S
    <3>1. /\ Abstract!Sold(engine.start, S).value[t] = engine.start.value[t]
          /\ Abstract!Sold(engine.start, S \cup {t}) =
               [cash |-> Abstract!Sold(engine.start, S).cash + engine.start.value[t],
                value |-> [Abstract!Sold(engine.start, S).value EXCEPT ![t] = 0]]
      BY <1>1, <2>5, SoldMore
    <3>. QED BY <2>6, <3>1 DEF Present
  <2>8. Present' = Abstract!Sold(engine.start, Gone(in) \ (engine.names \ {t}))
    BY <2>1, <2>3, <2>5, <2>7 DEF Present
  <2>9. /\ engine'.stage = "sell" /\ engine'.names = engine.names \ {t}
        /\ engine'.targets = engine.targets /\ engine'.start = engine.start
        /\ engine'.verdict = engine.verdict /\ engine'.priced = engine.priced
        /\ engine'.scale = engine.scale
    BY <1>1, <2>1 DEF EngineState
  <2>. HIDE DEF S
  <2>. QED BY <2>1, <2>8, <2>9 DEF Selling, InputOf, Gone
<1>. QED BY <1>2, <1>3

\* All sold: the pass is over, or its purchases begin.
LEMMA SalesEnd ==
  ASSUME TypeOK, NEW in, Selling(in), Weigh
  PROVE  /\ UNCHANGED <<account, value, history>>
         /\ \/ engine'.stage = "value" /\ Present = Abstract!Passed(engine.start, in)
            \/ /\ engine'.stage = "buy" /\ engine'.start = engine.start
               /\ \E run, n, k : Purchasing(in, run, n, k)'
<1>1. /\ engine \in EngineState /\ engine.start \in Abstract!Book /\ Present \in Abstract!Book
      /\ account.cash \in Nat /\ Invested \in Nat
      /\ Abstract!Equity(Present) = account.cash + Invested
      /\ Abstract!Invested(Present) = Invested
  BY PresentTyped DEF TypeOK
<1>2. /\ engine.names = {} /\ UNCHANGED <<account, value, history>>
  BY DEF Weigh, Unlocked, Elsewhere, db
<1>3. in \in Abstract!Input /\ engine.verdict = in.verdict /\ engine.scale = in.scale
  BY DEF Selling, InputOf
<1>4. Present = Abstract!Sold(engine.start, Gone(in))
  BY <1>2 DEF Selling
<1>5. in.verdict \in {"out", "parked", "clear"}
  BY <1>3, PassedCases
<1>6. CASE in.verdict # "clear"
  <2>1. engine'.stage = "value"
    BY <1>1, <1>3, <1>6 DEF Weigh, EngineState
  <2>2. Present = Abstract!Passed(engine.start, in)
    BY <1>3, <1>4, <1>5, <1>6, PassedCases DEF Gone, Sale
  <2>. QED BY <1>2, <2>1, <2>2
<1>7. CASE in.verdict = "clear"
  <2> DEFINE room == ((account.cash + Invested) * engine.scale) \div 4 - Invested
             b == Sale(engine.start, in)
             q == Abstract!Targets(in.ranking)
  <2>1. b = Present
    BY <1>4, <1>7 DEF Gone, Sale
  <2>2. PICK run, n : Deploys(run, n, b, in)
    BY <1>1, <1>3, <2>1, DeploymentGrows
  <2>3. engine' = [engine EXCEPT !.stage = "buy", !.seen = account.cash,
                           !.weight = (account.cash + Invested) \div TargetN,
                           !.room = IF engine.scale = 4 THEN account.cash + Invested
                                    ELSE IF room > 0 THEN room ELSE 0]
    BY <1>3, <1>7 DEF Weigh
  <2>4. Abstract!Weight(b) = (account.cash + Invested) \div TargetN
    BY <1>1, <2>1 DEF Abstract!Weight
  <2>5. Abstract!Room(b, in.scale) = IF engine.scale = 4 THEN account.cash + Invested
                                     ELSE IF room > 0 THEN room ELSE 0
    BY <1>1, <1>3, <2>1 DEF Abstract!Room
  <2>. HIDE DEF room, b, q
  <2>6. /\ engine'.stage = "buy" /\ engine'.seen = account.cash
        /\ engine'.weight = Abstract!Weight(b) /\ engine'.room = Abstract!Room(b, in.scale)
        /\ engine'.targets = engine.targets /\ engine'.start = engine.start
        /\ engine'.verdict = engine.verdict /\ engine'.priced = engine.priced
        /\ engine'.scale = engine.scale
    BY <1>1, <2>3, <2>4, <2>5 DEF EngineState
  <2>7. /\ n \in Nat /\ n = Len(q) /\ run[0].book = b /\ run[0].room = Abstract!Room(b, in.scale)
        /\ run[0] = [book |-> b, room |-> Abstract!Room(b, in.scale)]
    BY <2>2 DEF Deploys, Runs, q
  <2>8. Left(q, q, 0)
    <3>1. \A j \in 1..(Len(q) - 0) : 0 + j = j
      OBVIOUS
    <3>. QED BY <2>7, <3>1 DEF Left
  <2>9. engine.targets = q /\ engine.priced = in.priced
    BY DEF Selling, InputOf, q
  <2>10. Present' = Present
    BY <1>2 DEF Present
  <2>11. Purchasing(in, run, n, 0)'
    <3>1. InputOf(in)'
      BY <1>3, <2>6, <2>9 DEF InputOf
    <3>2. Sale(engine'.start, in) = b
      BY <2>6 DEF b
    <3>3. run[0] = [book |-> Present', room |-> engine'.room]
      BY <2>1, <2>6, <2>7, <2>10
    <3>4. engine'.targets = q /\ engine'.stage = "buy" /\ engine'.seen = account'.cash
          /\ engine'.weight = Abstract!Weight(b) /\ b \in Abstract!Book /\ 0 \in 0..n
      BY <1>1, <1>2, <2>1, <2>6, <2>7, <2>9
    <3>. QED BY <1>7, <2>2, <2>8, <3>1, <3>2, <3>3, <3>4 DEF Purchasing, q
  <2>. QED BY <1>2, <2>6, <2>11
<1>. QED BY <1>6, <1>7
\* What a purchase that goes on has in common.
LEMMA PurchaseFacts ==
  ASSUME TypeOK, NEW in, NEW run, NEW n, NEW k, Purchasing(in, run, n, k)
  PROVE  LET b == Sale(engine.start, in)
             q == Abstract!Targets(in.ranking)
         IN  /\ InputOf(in) /\ in \in Abstract!Input /\ in.verdict = "clear"
             /\ b \in Abstract!Book /\ Deploys(run, n, b, in) /\ Runs(run, b, in)
             /\ n \in Nat /\ n = Len(q) /\ k \in 0..n /\ q \in [1..n -> Tickers]
             /\ Abstract!Weight(b) = engine.weight /\ engine.weight \in Nat
             /\ run[k] \in Buying /\ run[k] = [book |-> Present, room |-> engine.room]
             /\ run[k].book.cash = account.cash /\ run[k].book.value = value
             /\ run[k].room = engine.room
             /\ \A j \in 1..n :
                  run[j] = IF q[j] \in in.priced
                           THEN Abstract!Bought(run[j - 1], q[j], engine.weight) ELSE run[j - 1]
<1> DEFINE b == Sale(engine.start, in)
           q == Abstract!Targets(in.ranking)
<1>1. /\ InputOf(in) /\ in.verdict = "clear" /\ b \in Abstract!Book /\ Deploys(run, n, b, in)
      /\ k \in 0..n /\ engine.weight = Abstract!Weight(b)
      /\ run[k] = [book |-> Present, room |-> engine.room]
  BY DEF Purchasing
<1>2. in \in Abstract!Input /\ in.ranking \in Rankings
  BY <1>1 DEF InputOf, Abstract!Input
<1>3. Runs(run, b, in) /\ n = Len(q) /\ n \in Nat
  BY <1>1 DEF Deploys, q
<1>4. q \in [1..n -> Tickers]
  BY <1>2, <1>3, TargetsTyped
<1>5. /\ run \in [0..n -> Buying]
      /\ \A j \in 1..n :
           run[j] = IF q[j] \in in.priced
                    THEN Abstract!Bought(run[j - 1], q[j], engine.weight) ELSE run[j - 1]
  <2>. HIDE DEF b
  <2>. QED BY <1>1, <1>3 DEF Runs, q
<1>6. run[k] \in Buying
  BY <1>1, <1>5
<1>7. engine.weight \in Nat
  BY DEF TypeOK, EngineState
<1>8. run[k].book.cash = account.cash /\ run[k].book.value = value /\ run[k].room = engine.room
  BY <1>1 DEF Present
<1>. QED BY <1>1, <1>2, <1>3, <1>4, <1>5, <1>6, <1>7, <1>8 DEF b, q

\* What the live engine would pay for a name is what the replay would.
LEMMA BudgetsAgree ==
  ASSUME NEW s \in Buying, NEW t \in Tickers, s.book.cash = engine.seen, s.book.value = value,
         s.room = engine.room
  PROVE  BudgetFor(t) = Abstract!Budget(s, t, engine.weight)
<1> DEFINE w == engine.weight - value[t]
<1>1. {w, engine.seen, engine.room} = {w, engine.room, engine.seen}
  OBVIOUS
<1>. HIDE DEF w
<1>2. BudgetFor(t) = Min({w, engine.seen, engine.room})
  BY DEF BudgetFor, w
<1>3. Abstract!Budget(s, t, engine.weight) = Min({w, engine.room, engine.seen})
  BY LibraryOperators DEF Abstract!Budget, w
<1>. QED BY <1>1, <1>2, <1>3

LEMMA BuyReadGoesOn ==
  ASSUME TypeOK, NEW in, NEW run, NEW n, NEW k, Purchasing(in, run, n, k), BuyRead
  PROVE  /\ \E i : Purchasing(in, run, n, i)'
         /\ engine'.stage \in {"buy", "buying"} /\ engine'.start = engine.start
         /\ UNCHANGED <<account, value, history>>
<1> DEFINE q == Abstract!Targets(in.ranking)
           t == Head(engine.targets)
           W == engine.weight
<1>1. /\ InputOf(in) /\ in.verdict = "clear" /\ Deploys(run, n, Sale(engine.start, in), in)
      /\ Sale(engine.start, in) \in Abstract!Book
      /\ n \in Nat /\ n = Len(q) /\ k \in 0..n /\ q \in [1..n -> Tickers]
      /\ Abstract!Weight(Sale(engine.start, in)) = W /\ W \in Nat
      /\ run[k] \in Buying /\ run[k] = [book |-> Present, room |-> engine.room]
      /\ run[k].book.cash = account.cash /\ run[k].book.value = value
      /\ run[k].room = engine.room
      /\ \A j \in 1..n :
           run[j] = IF q[j] \in in.priced THEN Abstract!Bought(run[j - 1], q[j], W)
                    ELSE run[j - 1]
  BY PurchaseFacts
<1>2. /\ engine.stage = "buy" /\ engine.targets # <<>>
      /\ UNCHANGED <<account, value, history>>
  BY DEF BuyRead, Unlocked, Elsewhere, db
<1>3. engine \in EngineState /\ engine.targets \in Seq(Tickers) /\ account.cash \in Nat
  BY PresentTyped DEF TypeOK, EngineState
<1>4. Left(engine.targets, q, k) /\ engine.seen = account.cash
  BY <1>2 DEF Purchasing, q
<1>. HIDE DEF q
<1>5. k + 1 \in 1..n /\ t = q[k + 1] /\ Left(Tail(engine.targets), q, k + 1)
  <2>1. k \in Nat /\ k <= Len(q) /\ Len(q) \in Nat
    BY <1>1
  <2>. QED BY <1>1, <1>2, <1>3, <1>4, <2>1, LeftTail
<1>6. t \in Tickers
  BY <1>1, <1>5
<1>. HIDE DEF t
<1>7. BudgetFor(t) = Abstract!Budget(run[k], t, W)
  BY <1>1, <1>4, <1>6, BudgetsAgree DEF W
<1>8. BudgetFor(t) <= account.cash
  BY <1>1, <1>6, <1>7, BudgetIsLeast
<1> DEFINE rest == [engine EXCEPT !.targets = Tail(engine.targets)]
<1>9. engine.priced = in.priced /\ InputOf(in)
  BY <1>1 DEF InputOf
<1>10. k + 1 \in 0..n /\ (k + 1) - 1 = k /\ k + 1 \in Nat
  BY <1>1, <1>5
<1>11. Present' = Present
  BY <1>2 DEF Present
<1>12. CASE t \in engine.priced /\ BudgetFor(t) >= 1
  <2>1. engine' = [rest EXCEPT !.stage = "buying", !.ticker = {t},
                               !.budget = BudgetFor(t), !.row = account]
    BY <1>8, <1>12 DEF BuyRead, t, rest
  <2>2. /\ engine'.stage = "buying" /\ engine'.ticker = {t} /\ engine'.budget = BudgetFor(t)
        /\ engine'.targets = Tail(engine.targets) /\ engine'.start = engine.start
        /\ engine'.verdict = engine.verdict /\ engine'.priced = engine.priced
        /\ engine'.scale = engine.scale /\ engine'.weight = W /\ engine'.room = engine.room
    BY <1>3, <2>1 DEF EngineState, rest, W
  <2>3. InputOf(in)'
    BY <1>9, <2>2 DEF InputOf
  <2>4. Purchasing(in, run, n, k)'
    BY <1>1, <1>5, <1>7, <1>9, <1>11, <1>12, <2>2, <2>3 DEF Purchasing, q
  <2>. QED BY <1>2, <2>2, <2>4
<1>13. CASE ~(t \in engine.priced /\ BudgetFor(t) >= 1)
  <2>1. engine' = rest
    BY <1>13 DEF BuyRead, t, rest
  <2>2. /\ engine'.stage = "buy" /\ engine'.seen = engine.seen
        /\ engine'.targets = Tail(engine.targets) /\ engine'.start = engine.start
        /\ engine'.verdict = engine.verdict /\ engine'.priced = engine.priced
        /\ engine'.scale = engine.scale /\ engine'.weight = W /\ engine'.room = engine.room
    BY <1>2, <1>3, <2>1 DEF EngineState, rest, W
  <2>3. InputOf(in)'
    BY <1>9, <2>2 DEF InputOf
  <2>4. run[k + 1] = run[k]
    <3>1. run[k + 1] = IF t \in in.priced THEN Abstract!Bought(run[k], t, W) ELSE run[k]
      BY <1>1, <1>5, <1>10
    <3>2. BudgetFor(t) \in Int
      BY <1>1, <1>6, <1>7, BudgetIsLeast
    <3>3. t \in in.priced => Abstract!Budget(run[k], t, W) < 1
      BY <1>7, <1>9, <1>13, <3>2
    <3>. QED BY <3>1, <3>3 DEF Abstract!Bought
  <2>5. Purchasing(in, run, n, k + 1)'
    BY <1>1, <1>2, <1>4, <1>5, <1>10, <1>11, <2>2, <2>3, <2>4 DEF Purchasing, q
  <2>. QED BY <1>2, <2>2, <2>5
<1>. QED BY <1>12, <1>13
LEMMA BuyCommitGoesOn ==
  ASSUME TypeOK, RowInv, ~history.raced, NEW in, NEW run, NEW n, NEW k,
         Purchasing(in, run, n, k), NEW t \in Tickers, BuyCommit(t)
  PROVE  /\ Purchasing(in, run, n, k + 1)'
         /\ engine'.stage = "revalue" /\ engine'.start = engine.start
         /\ UNCHANGED history
<1> DEFINE q == Abstract!Targets(in.ranking)
           W == engine.weight
           B == engine.budget
<1>1. /\ InputOf(in) /\ in.verdict = "clear" /\ Deploys(run, n, Sale(engine.start, in), in)
      /\ Sale(engine.start, in) \in Abstract!Book
      /\ n \in Nat /\ n = Len(q) /\ k \in 0..n /\ q \in [1..n -> Tickers]
      /\ Abstract!Weight(Sale(engine.start, in)) = W /\ W \in Nat
      /\ run[k] \in Buying /\ run[k] = [book |-> Present, room |-> engine.room]
      /\ run[k].book.cash = account.cash /\ run[k].book.value = value
      /\ run[k].room = engine.room
      /\ \A j \in 1..n :
           run[j] = IF q[j] \in in.priced THEN Abstract!Bought(run[j - 1], q[j], W)
                    ELSE run[j - 1]
  BY PurchaseFacts
<1>2. /\ engine.stage = "buying" /\ t \in engine.ticker /\ UNCHANGED history
      /\ account' = SetCash(engine.row, engine.row.cash - B)
      /\ value' = [value EXCEPT ![t] = @ + B]
      /\ engine' = [engine EXCEPT !.stage = "revalue", !.ticker = {}, !.room = engine.room - B]
  BY DEF BuyCommit, Unlocked, Elsewhere
<1>3. /\ k + 1 \in 1..n /\ Left(engine.targets, q, k + 1)
      /\ engine.ticker = {q[k + 1]} /\ q[k + 1] \in in.priced
      /\ B = Abstract!Budget(run[k], q[k + 1], W) /\ B >= 1
  BY <1>2 DEF Purchasing, q
<1>4. /\ engine \in EngineState /\ account \in Account /\ account.cash \in Nat
      /\ value \in [Tickers -> Nat] /\ engine.row = account
  BY <1>2, PresentTyped DEF TypeOK, RowInv
<1>. HIDE DEF q
<1>5. t = q[k + 1] /\ (k + 1) - 1 = k /\ k + 1 \in 0..n
  BY <1>1, <1>2, <1>3
<1>6. B <= account.cash /\ B \in Nat
  BY <1>1, <1>3, <1>5, BudgetIsLeast
<1>7. account'.cash = account.cash - B
  <2>1. account.cash - B \in Nat
    BY <1>4, <1>6
  <2>2. account' = [account EXCEPT !.cash = account.cash - B]
    BY <1>2, <1>4, <2>1, CashSet
  <2>. QED BY <1>4, <2>2 DEF Account
<1>8. run[k + 1] = [book |-> Present', room |-> engine.room - B]
  <2>1. run[k + 1] = Abstract!Bought(run[k], t, W)
    BY <1>1, <1>3, <1>5
  <2>2. ~(Abstract!Budget(run[k], t, W) < 1)
    BY <1>3, <1>5, <1>6
  <2>3. run[k + 1] = [book |-> [cash |-> account.cash - B, value |-> [value EXCEPT ![t] = @ + B]],
                      room |-> engine.room - B]
    BY <1>1, <1>3, <1>5, <2>1, <2>2 DEF Abstract!Bought
  <2>. QED BY <1>2, <1>7, <2>3 DEF Present
<1>9. /\ engine'.stage = "revalue" /\ engine'.room = engine.room - B
      /\ engine'.targets = engine.targets /\ engine'.start = engine.start
      /\ engine'.verdict = engine.verdict /\ engine'.priced = engine.priced
      /\ engine'.scale = engine.scale /\ engine'.weight = W
  BY <1>2, <1>4 DEF EngineState, W
<1>10. InputOf(in)'
  BY <1>1, <1>9 DEF InputOf
<1>11. Purchasing(in, run, n, k + 1)'
  BY <1>1, <1>3, <1>5, <1>8, <1>9, <1>10 DEF Purchasing, q
<1>. QED BY <1>2, <1>9, <1>11

LEMMA RevalueGoesOn ==
  ASSUME TypeOK, NEW in, NEW run, NEW n, NEW k, Purchasing(in, run, n, k), Revalue
  PROVE  /\ Purchasing(in, run, n, k)' /\ UNCHANGED <<account, value, history>>
         /\ engine'.stage = "buy" /\ engine'.start = engine.start
<1>1. engine \in EngineState
  BY DEF TypeOK
<1>2. /\ engine.stage = "revalue" /\ UNCHANGED <<account, value, history>>
      /\ engine' = [engine EXCEPT !.stage = "buy", !.seen = account.cash]
  BY DEF Revalue, Unlocked, Elsewhere, db
<1>3. /\ engine'.stage = "buy" /\ engine'.seen = account.cash /\ engine'.room = engine.room
      /\ engine'.targets = engine.targets /\ engine'.start = engine.start
      /\ engine'.verdict = engine.verdict /\ engine'.priced = engine.priced
      /\ engine'.scale = engine.scale /\ engine'.weight = engine.weight
  BY <1>1, <1>2 DEF EngineState
<1>4. InputOf(in) => InputOf(in)'
  BY <1>3 DEF InputOf
<1>5. Present' = Present
  BY <1>2 DEF Present
<1>. QED BY <1>2, <1>3, <1>4, <1>5 DEF Purchasing

\* All bought: the live book is the replay's.
LEMMA PurchasesEnd ==
  ASSUME TypeOK, NEW in, NEW run, NEW n, NEW k, Purchasing(in, run, n, k), Deployed
  PROVE  /\ Present = Abstract!Passed(engine.start, in) /\ in \in Abstract!Input
         /\ UNCHANGED <<account, value, history>> /\ engine'.stage = "value"
<1> DEFINE q == Abstract!Targets(in.ranking)
           b == Sale(engine.start, in)
<1>1. /\ in \in Abstract!Input /\ in.verdict = "clear" /\ Deploys(run, n, b, in)
      /\ n = Len(q) /\ n \in Nat /\ k \in 0..n
      /\ run[k] = [book |-> Present, room |-> engine.room]
  BY PurchaseFacts
<1>2. /\ engine.stage = "buy" /\ engine.targets = <<>> /\ To("value")
      /\ UNCHANGED <<account, value, history>>
  BY DEF Deployed, Unlocked, Elsewhere, db
<1>3. engine.targets \in Seq(Tickers) /\ engine \in EngineState
  BY DEF TypeOK, EngineState
<1>4. k = n
  <2>1. Left(engine.targets, q, k)
    BY <1>2 DEF Purchasing, q
  <2>. HIDE DEF q
  <2>2. k \in Nat /\ k <= Len(q) /\ Len(q) \in Nat
    BY <1>1
  <2>. QED BY <1>1, <1>2, <1>3, <2>1, <2>2, LeftTail
<1>5. Abstract!Deployed(b, in) = run[n].book /\ run[n].book = Present
  BY <1>1, <1>4 DEF Deploys
<1>6. engine'.stage = "value"
  BY <1>2, <1>3 DEF To, EngineState
<1>. HIDE DEF b, q
<1>7. Abstract!Passed(engine.start, in) = Abstract!Deployed(b, in)
  BY <1>1, PassedCases DEF b
<1>. QED BY <1>1, <1>2, <1>5, <1>6, <1>7

\* A pass goes on as the replay would make it.
LEMMA PassStep ==
  ASSUME TypeOK, LockInv, AccountInv, RowInv, PassInv, [Next]_vars
  PROVE  PassInv'
<1> DEFINE During == {"sell", "selling", "buy", "buying", "revalue"}
<1>1. /\ engine \in EngineState /\ Engine \in Callers /\ history \in History
      /\ history.raced \in BOOLEAN /\ Idle.stage = "idle"
      /\ \A stage : [engine EXCEPT !.stage = stage].stage = stage
  BY ModelConstants DEF TypeOK, EngineState, History, Idle
<1>2. ASSUME engine'.stage \notin During PROVE PassInv'
  BY <1>2 DEF PassInv
<1>3. ASSUME UNCHANGED <<engine, account, value>>, history.raced => history'.raced PROVE PassInv'
  <2>1. \A in : Selling(in) => Selling(in)'
    BY <1>3 DEF Selling, InputOf, Present
  <2>2. \A in, run, n, k : Purchasing(in, run, n, k) => Purchasing(in, run, n, k)'
    BY <1>3 DEF Purchasing, InputOf, Present
  <2>. HIDE DEF During
  <2>. QED BY <1>3, <2>1, <2>2 DEF PassInv
<1>4. ASSUME NEW c \in Callers, DepositRead(c) \/ DepositOpen(c) \/ DepositCommit(c)
      PROVE  PassInv'
  <2>1. CASE engine.stage \notin During
    <3>1. UNCHANGED engine \/ To("rank") \/ Release
      BY <1>4 DEF DepositRead, DepositOpen, DepositCommit
    <3>2. engine'.stage \in {engine.stage, "rank", "idle"}
      BY <1>1, <3>1 DEF To, Release
    <3>3. engine'.stage \notin During
      BY <2>1, <3>2
    <3>. QED BY <1>2, <3>3
  <2>2. CASE engine.stage \in During
    <3>1. lock /\ account.exists /\ (deposit[c].at # "idle" => c # Engine)
      BY <2>2 DEF LockInv, AccountInv
    <3>2. CASE DepositRead(c)
      <4>1. UNCHANGED <<engine, account, value, history>>
        BY <2>2, <3>2 DEF DepositRead, db
      <4>. QED BY <1>3, <4>1
    <3>3. CASE DepositOpen(c)
      <4>1. UNCHANGED <<engine, account, value, history>>
        BY <3>1, <3>3 DEF DepositOpen
      <4>. QED BY <1>3, <4>1
    <3>4. CASE DepositCommit(c)
      <4>1. deposit[c].at = "commit" /\ c # Engine
        BY <3>1, <3>4 DEF DepositCommit
      <4>2. CASE AlreadyDeposited(deposit[c].month)
        <5>1. UNCHANGED <<engine, account, value, history>>
          BY <3>4, <4>1, <4>2 DEF DepositCommit
        <5>. QED BY <1>3, <5>1
      <4>3. CASE ~AlreadyDeposited(deposit[c].month)
        <5>1. history'.raced
          BY <3>1, <3>4, <4>1, <4>3, DepositChange DEF Overlaps
        <5>. QED BY <5>1 DEF PassInv
      <4>. QED BY <4>2, <4>3
    <3>. QED BY <1>4, <3>2, <3>3, <3>4
  <2>. QED BY <2>1, <2>2
<1>5. CASE Rank
  BY <1>5, RankStarts DEF PassInv
<1>6. ASSUME NEW t \in Tickers, SellRead(t) \/ SellCommit(t) PROVE PassInv'
  <2>1. engine.stage \in {"sell", "selling"}
    BY <1>6 DEF SellRead, SellCommit
  <2>2. UNCHANGED history
    BY <1>6 DEF SellRead, SellCommit, Unlocked, Elsewhere
  <2>3. CASE ~history.raced
    <3>1. PICK in : Selling(in)
      BY <2>1, <2>3 DEF PassInv
    <3>2. Selling(in)' /\ engine'.stage \in {"sell", "selling"}
      BY <1>6, <2>3, <3>1, SellGoesOn
    <3>. QED BY <3>2 DEF PassInv
  <2>. QED BY <2>2, <2>3 DEF PassInv
<1>7. CASE Weigh
  <2>1. engine.stage = "sell" /\ UNCHANGED history
    BY <1>7 DEF Weigh, Unlocked, Elsewhere
  <2>2. CASE ~history.raced
    <3>1. PICK in : Selling(in)
      BY <2>1, <2>2 DEF PassInv
    <3>2. \/ engine'.stage = "value"
          \/ engine'.stage = "buy" /\ \E run, n, k : Purchasing(in, run, n, k)'
      BY <1>7, <3>1, SalesEnd
    <3>. QED BY <3>2 DEF PassInv
  <2>. QED BY <2>1, <2>2 DEF PassInv
<1>8. ASSUME BuyRead \/ Revalue \/ \E t \in Tickers : BuyCommit(t) PROVE PassInv'
  <2>1. engine.stage \in {"buy", "buying", "revalue"} /\ UNCHANGED history
    BY <1>8 DEF BuyRead, Revalue, BuyCommit, Unlocked, Elsewhere
  <2>2. CASE ~history.raced
    <3>1. PICK in, run, n, k : Purchasing(in, run, n, k)
      BY <2>1, <2>2 DEF PassInv
    <3>2. /\ engine'.stage \in {"buy", "buying", "revalue"}
          /\ \E i : Purchasing(in, run, n, i)'
      BY <1>8, <2>2, <3>1, BuyReadGoesOn, BuyCommitGoesOn, RevalueGoesOn
    <3>. QED BY <3>2 DEF PassInv
  <2>. QED BY <2>1, <2>2 DEF PassInv
<1>9. CASE CycleStart \/ BackfillStart
  <2>1. engine'.stage \notin During
    BY ZenonT(30), <1>9 DEF CycleStart, BackfillStart, Acquire, Idle
  <2>. QED BY <1>2, <2>1
<1>10. CASE \/ Deployed \/ Value \/ Snapshot
            \/ WipeRead \/ WipeCommit \/ ReplayDay \/ ReplayEnd \/ PersistRead \/ PersistCommit
            \/ Crash \/ Fail
  <2>1. engine'.stage \in {"value", "mark", "idle", "wiping", "replay", "persist", "persisting"}
    BY <1>1, <1>10 DEF EngineState, Deployed, Value, Snapshot, WipeRead, WipeCommit, ReplayDay,
       ReplayEnd, PersistRead, PersistCommit, Crash, Fail, To, Release
  <2>. QED BY <1>2, <2>1
<1>11. CASE Reset \/ \E t \in Tickers : Move(t)
  <2>1. engine'.stage \notin During
    BY <1>11 DEF Reset, Move, LockInv
  <2>. QED BY <1>2, <2>1
<1>12. CASE Tick \/ UNCHANGED vars
  <2>1. UNCHANGED <<engine, account, value, history>>
    BY <1>12 DEF Tick, vars, db
  <2>. QED BY <1>3, <2>1
<1>. QED BY <1>4, <1>5, <1>6, <1>7, <1>8, <1>9, <1>10, <1>11, <1>12 DEF Next, Deployment, Backfill
LEMMA WipeStep ==
  ASSUME TypeOK, LockInv, WipeInv, [Next]_vars
  PROVE  WipeInv'
<1> DEFINE During == {"wipe", "wiping"}
<1>1. /\ engine \in EngineState /\ Idle.stage = "idle"
      /\ \A stage : [engine EXCEPT !.stage = stage].stage = stage
  BY DEF TypeOK, EngineState, Idle
<1>2. ASSUME engine'.stage \notin During PROVE WipeInv'
  BY <1>2 DEF WipeInv
<1>3. ASSUME UNCHANGED engine PROVE WipeInv'
  BY <1>3 DEF WipeInv
<1>4. ASSUME NEW c \in Callers, DepositRead(c) \/ DepositOpen(c) \/ DepositCommit(c)
      PROVE  WipeInv'
  <2>1. UNCHANGED engine \/ To("rank") \/ Release
    BY <1>4 DEF DepositRead, DepositOpen, DepositCommit
  <2>2. UNCHANGED engine \/ engine'.stage \in {"rank", "idle"}
    BY <1>1, <2>1 DEF To, Release
  <2>. QED BY <1>2, <1>3, <2>2
<1>5. CASE CycleStart
  <2>1. engine'.stage = "deposit"
    BY <1>5 DEF CycleStart, Acquire, Idle
  <2>. QED BY <1>2, <2>1
<1>6. CASE BackfillStart
  <2>1. PICK days : engine' = [Idle EXCEPT !.stage = "wipe", !.days = days]
    BY <1>6 DEF BackfillStart, Acquire
  <2>2. engine'.book = NoBook /\ engine'.funded = {}
    BY <2>1 DEF Idle
  <2>. QED BY <2>2 DEF WipeInv
<1>7. CASE WipeRead
  <2>1. engine.stage = "wipe" /\ engine' = [engine EXCEPT !.stage = "wiping", !.row = account]
    BY <1>7 DEF WipeRead
  <2>2. engine'.book = engine.book /\ engine'.funded = engine.funded
    BY <1>1, <2>1 DEF EngineState
  <2>. QED BY <2>1, <2>2 DEF WipeInv
<1>8. CASE \/ Rank \/ Weigh \/ BuyRead \/ Revalue \/ Deployed \/ Value
           \/ \E t \in Tickers : SellRead(t) \/ SellCommit(t) \/ BuyCommit(t)
  <2>1. Rank => engine'.stage \notin During
    BY RankStarts
  <2>2. Weigh \/ BuyRead \/ Revalue \/ Deployed \/ Value => engine'.stage \notin During
    <3>1. ASSUME Weigh \/ BuyRead PROVE engine'.stage \notin During
      <4>1. CASE Weigh
        BY <1>1, <4>1 DEF EngineState, Weigh
      <4>2. CASE BuyRead
        <5>1. engine'.stage \in {engine.stage, "buying"} /\ engine.stage = "buy"
          BY SMTT(30), <1>1, <4>2 DEF EngineState, BuyRead
        <5>. QED BY <5>1
      <4>. QED BY <3>1, <4>1, <4>2
    <3>2. Revalue \/ Deployed \/ Value => engine'.stage \in {"buy", "value", "mark"}
      BY <1>1 DEF EngineState, Revalue, Deployed, Value, To
    <3>. QED BY <3>1, <3>2
  <2>3. ASSUME NEW t \in Tickers, SellRead(t) \/ SellCommit(t) \/ BuyCommit(t)
        PROVE  engine'.stage \notin During
    BY <1>1, <2>3 DEF EngineState, SellRead, SellCommit, BuyCommit
  <2>. HIDE DEF During
  <2>. QED BY <1>2, <1>8, <2>1, <2>2, <2>3
<1>9. CASE \/ Snapshot \/ WipeCommit \/ ReplayDay \/ ReplayEnd \/ PersistRead \/ PersistCommit
           \/ Crash \/ Fail
  <2>1. Snapshot \/ PersistCommit \/ Crash \/ Fail => engine'.stage = "idle"
    BY <1>1 DEF Snapshot, PersistCommit, Crash, Fail, Release
  <2>2. WipeCommit \/ PersistRead => engine'.stage \in {"replay", "persisting"}
    BY <1>1 DEF EngineState, WipeCommit, PersistRead
  <2>3. ReplayDay \/ ReplayEnd => engine'.stage \in {"replay", "persist"}
    BY <1>1 DEF EngineState, ReplayDay, ReplayEnd
  <2>. QED BY <1>2, <1>9, <2>1, <2>2, <2>3
<1>10. CASE Reset \/ Tick \/ (\E t \in Tickers : Move(t)) \/ UNCHANGED vars
  BY <1>3, <1>10 DEF Reset, Tick, Move, vars
<1>. QED BY <1>4, <1>5, <1>6, <1>7, <1>8, <1>9, <1>10 DEF Next, Deployment, Backfill

LEMMA BoundStep ==
  ASSUME TypeOK, BoundInv, [Next]_vars
  PROVE  BoundInv'
<1>1. /\ history \in History /\ history.gains \in Int /\ count.moves \in Nat
      /\ count \in [runs: 0..MaxRuns, moves: 0..MaxMoves, crashes: 0..MaxCrashes]
  BY ModelConstants DEF TypeOK, History
<1>2. ASSUME history'.base = history.base, history'.gains = history.gains,
             count'.moves = count.moves
      PROVE  BoundInv'
  BY <1>2 DEF BoundInv
<1>3. ASSUME NEW c \in Callers, DepositRead(c) \/ DepositOpen(c) \/ DepositCommit(c)
      PROVE  BoundInv'
  <2>1. UNCHANGED count
    BY <1>3 DEF DepositRead, DepositOpen, DepositCommit
  <2>2. history'.base = history.base /\ history'.gains = history.gains
    BY <1>1, <1>3 DEF DepositRead, DepositOpen, DepositCommit, History
  <2>. QED BY <1>2, <2>1, <2>2
<1>4. CASE CycleStart \/ BackfillStart
  <2>1. UNCHANGED history /\ count' = [count EXCEPT !.runs = @ + 1]
    BY <1>4 DEF CycleStart, BackfillStart, Acquire
  <2>. QED BY <1>1, <1>2, <2>1
<1>5. CASE \/ Deployment \/ WipeRead \/ ReplayDay \/ ReplayEnd \/ PersistRead \/ PersistCommit
           \/ Tick \/ UNCHANGED vars
  <2>1. UNCHANGED <<history, count>>
    BY <1>5 DEF Deployment, Rank, Weigh, BuyRead, Revalue, Deployed, Value, Snapshot, SellRead,
       SellCommit, BuyCommit, WipeRead, ReplayDay, ReplayEnd, PersistRead, PersistCommit, Tick,
       Unlocked, Elsewhere, vars
  <2>. QED BY <1>2, <2>1
<1>6. CASE WipeCommit \/ Reset
  <2>1. /\ history'.base \in {0, StartCash} /\ history'.gains = 0 /\ UNCHANGED count
    BY <1>6 DEF WipeCommit, Reset, NoHistory
  <2>. QED BY <1>1, <2>1 DEF BoundInv
<1>7. CASE Crash \/ Fail
  <2>1. UNCHANGED history /\ count' = [count EXCEPT !.crashes = @ + 1]
    BY <1>7 DEF Crash, Fail
  <2>. QED BY <1>1, <1>2, <2>1
<1>8. ASSUME NEW t \in Tickers, Move(t) PROVE BoundInv'
  <2>1. PICK gain \in {-1, 1} : history' = [history EXCEPT !.gains = @ + gain]
    BY <1>8 DEF Move
  <2>2. count' = [count EXCEPT !.moves = @ + 1]
    BY <1>8 DEF Move
  <2>3. history'.gains = history.gains + gain /\ history'.base = history.base
        /\ count'.moves = count.moves + 1
    BY <1>1, <2>1, <2>2 DEF History
  <2>. QED BY <1>1, <2>3 DEF BoundInv
<1>. QED BY <1>3, <1>4, <1>5, <1>6, <1>7, <1>8 DEF Next, Backfill

-----------------------------------------------------------------------------
(* DailyCore implements DailyBook: the steps.                              *)

\* The bound on deposits and price rises lets every one of them happen.
Enough == StartCash + Contribution * LastMonth + MaxMoves <= MaxMoney

\* How a step of DailyCore is one of DailyBook.
LEMMA BookSteps ==
  /\ BookNow' = BookNow => [Abstract!Next]_BookNow
  /\ Abstract!Equity(BookNow) + Contribution <= MaxMoney
       /\ BookNow' = Abstract!Credited(BookNow) => [Abstract!Next]_BookNow
  /\ \A in \in Abstract!Input :
       BookNow' = Abstract!Passed(BookNow, in) => [Abstract!Next]_BookNow
  /\ \A in \in Abstract!Input :
       Abstract!Equity(BookNow) + Contribution <= MaxMoney
         /\ BookNow' = Abstract!Passed(Abstract!Credited(BookNow), in) => [Abstract!Next]_BookNow
  /\ BookNow' \in {Abstract!Empty(StartCash), Abstract!Empty(0)} => [Abstract!Next]_BookNow
  /\ \A t \in Tickers :
       Abstract!Equity(BookNow) < MaxMoney /\ BookNow.value[t] > 0
         /\ BookNow' = [BookNow EXCEPT !.value[t] = @ + 1] => [Abstract!Next]_BookNow
  /\ \A t \in Tickers :
       BookNow.value[t] > 1
         /\ BookNow' = [BookNow EXCEPT !.value[t] = @ - 1] => [Abstract!Next]_BookNow
BY DEF Abstract!Next, Abstract!Deposit, Abstract!Pass, Abstract!Day, Abstract!Restart,
   Abstract!Move, Abstract!Bounded

\* The book that DailyBook sees.
LEMMA BookIs ==
  /\ engine.stage \in PassStages => BookNow = engine.start
  /\ engine.stage \in ReplayStages => BookNow = engine.book
  /\ engine.stage \notin PassStages \cup ReplayStages => BookNow = Present
BY DEF BookNow, PassStages, ReplayStages, Present

LEMMA BookIsThen ==
  /\ engine'.stage \in PassStages => BookNow' = engine'.start
  /\ engine'.stage \in ReplayStages => BookNow' = engine'.book
  /\ engine'.stage \notin PassStages \cup ReplayStages => BookNow' = Present'
BY DEF BookNow, PassStages, ReplayStages, Present
\* Nothing of the book moved.
LEMMA BookStays ==
  ASSUME Present' = Present,
         \/ UNCHANGED engine
         \/ /\ engine.stage \notin PassStages \cup ReplayStages
            /\ engine'.stage \notin PassStages \cup ReplayStages
  PROVE  [Abstract!Next]_BookNow
<1>1. BookNow' = BookNow
  <2>1. CASE UNCHANGED engine
    BY <2>1 DEF BookNow, Present
  <2>2. CASE /\ engine.stage \notin PassStages \cup ReplayStages
             /\ engine'.stage \notin PassStages \cup ReplayStages
    BY <2>2, BookIs, BookIsThen
  <2>. QED BY <2>1, <2>2
<1>. QED BY <1>1, BookSteps

LEMMA TimesMonotone ==
  ASSUME NEW x \in Nat, NEW y \in Nat, x <= y
  PROVE  Contribution * x <= Contribution * y /\ Contribution * x \in Nat
           /\ Contribution * (x + 1) = Contribution * x + Contribution
<1>1. PICK d \in Nat : y = x + d
  <2>1. y - x \in Nat /\ y = x + (y - x)
    OBVIOUS
  <2>. QED BY <2>1
<1>2. /\ Contribution * d \in Nat /\ Contribution * x \in Nat
      /\ Contribution * y = Contribution * x + Contribution * d
  BY <1>1, Constants
<1>. QED BY <1>2, Constants

\* While a month is missing, its contribution fits the bound.
LEMMA MonthsFit ==
  ASSUME NEW S \in SUBSET Months, NEW m \in Months \ S
  PROVE  /\ Cardinality(S) \in Nat /\ Contribution * Cardinality(S) \in Nat
         /\ Contribution * Cardinality(S) + Contribution <= Contribution * LastMonth
         /\ Cardinality(S \cup {m}) = Cardinality(S) + 1
<1>1. IsFiniteSet(Months) /\ Cardinality(Months) = LastMonth
  BY FS_Interval, ModelConstants, 1 \in Int, LastMonth \in Int DEF Months
<1>2. IsFiniteSet(S) /\ Cardinality(S) \in Nat
  BY MonthsFinite
<1>3. Cardinality(S \cup {m}) = Cardinality(S) + 1
  BY <1>2, FS_AddElement
<1>4. Cardinality(S \cup {m}) <= LastMonth
  <2>1. S \cup {m} \in SUBSET Months
    OBVIOUS
  <2>. QED BY <1>1, <2>1, FS_Subset
<1>5. Contribution * (Cardinality(S) + 1) <= Contribution * LastMonth
  BY <1>2, <1>3, <1>4, TimesMonotone, ModelConstants
<1>6. /\ Contribution * Cardinality(S) \in Nat
      /\ Contribution * (Cardinality(S) + 1) = Contribution * Cardinality(S) + Contribution
  BY <1>2, TimesMonotone
<1>. QED BY <1>2, <1>3, <1>5, <1>6

LEMMA MoneyBounded ==
  ASSUME TypeOK, MoneyConserved, BoundInv, Enough, ~history.raced
  PROVE  /\ \A m \in Months \ allowances : Abstract!Equity(Present) + Contribution <= MaxMoney
         /\ count.moves < MaxMoves => Abstract!Equity(Present) < MaxMoney
<1>1. /\ allowances \in SUBSET Months /\ count.moves \in Nat /\ count.moves <= MaxMoves
      /\ history.gains \in Int /\ MaxMoves \in Nat /\ LastMonth \in Nat /\ MaxMoney \in Int
  BY ModelConstants, BookAssumption DEF TypeOK, History
<1>2. /\ history.base \in Nat /\ history.base <= StartCash /\ history.gains <= count.moves
      /\ StartCash \in Nat /\ Contribution \in Nat
  BY Constants DEF BoundInv
<1>3. /\ Abstract!Equity(Present)
           = history.base + history.gains + Contribution * Cardinality(allowances)
      /\ Abstract!Equity(Present) \in Nat
  BY PresentTyped, EquityTyped DEF MoneyConserved
<1>4. /\ Contribution * LastMonth \in Nat
      /\ StartCash + Contribution * LastMonth + MaxMoves <= MaxMoney
  BY <1>1, <1>2 DEF Enough
<1>5. ASSUME NEW m \in Months \ allowances
      PROVE  Abstract!Equity(Present) + Contribution <= MaxMoney
  <2>1. /\ Contribution * Cardinality(allowances) \in Nat
        /\ Contribution * Cardinality(allowances) + Contribution <= Contribution * LastMonth
    BY <1>1, MonthsFit
  <2>. QED BY <1>1, <1>2, <1>3, <1>4, <2>1
<1>6. ASSUME count.moves < MaxMoves PROVE Abstract!Equity(Present) < MaxMoney
  <2>1. Cardinality(allowances) \in Nat /\ Cardinality(allowances) <= LastMonth
    <3>1. IsFiniteSet(Months) /\ Cardinality(Months) = LastMonth
      BY FS_Interval, ModelConstants, 1 \in Int, LastMonth \in Int DEF Months
    <3>. QED BY <1>1, <3>1, MonthsFinite, FS_Subset
  <2>2. /\ Contribution * Cardinality(allowances) <= Contribution * LastMonth
        /\ Contribution * Cardinality(allowances) \in Nat
    BY <1>1, <2>1, TimesMonotone
  <2>. QED BY <1>1, <1>2, <1>3, <1>4, <1>6, <2>2
<1>. QED BY <1>5, <1>6

LEMMA DepositOfBook ==
  ASSUME TypeOK, LockInv, AccountInv, MoneyConserved, BoundInv, Enough, ~history'.raced,
         NEW c \in Callers, DepositRead(c) \/ DepositOpen(c) \/ DepositCommit(c)
  PROVE  [Abstract!Next]_BookNow
<1> DEFINE Outside == PassStages \cup ReplayStages
<1>1. /\ engine \in EngineState /\ Idle.stage = "idle" /\ history \in History
      /\ \A stage : [engine EXCEPT !.stage = stage].stage = stage
      /\ "rank" \notin Outside /\ "idle" \notin Outside /\ "deposit" \notin Outside
  BY DEF TypeOK, EngineState, Idle, PassStages, ReplayStages
<1>2. \/ UNCHANGED engine
      \/ engine.stage = "deposit" /\ engine'.stage \in {"rank", "idle"}
  <2>1. CASE DepositRead(c)
    BY <1>1, <2>1 DEF DepositRead, To
  <2>2. CASE DepositOpen(c)
    BY <1>1, <2>2 DEF DepositOpen, Release, LockInv
  <2>3. CASE DepositCommit(c)
    BY <1>1, <2>3 DEF DepositCommit, To, LockInv
  <2>. QED BY <2>1, <2>2, <2>3
<1>3. UNCHANGED engine \/ (engine.stage \notin Outside /\ engine'.stage \notin Outside)
  BY <1>1, <1>2
<1>. HIDE DEF Outside
<1>4. CASE DepositRead(c) \/ DepositOpen(c)
  <2>1. UNCHANGED value /\ account'.cash = account.cash
    BY <1>4 DEF DepositRead, DepositOpen, db, AccountInv, NoAccount, FreshAccount
  <2>2. Present' = Present
    BY <2>1 DEF Present
  <2>. QED BY <1>3, <2>2, BookStays DEF Outside
<1>5. CASE DepositCommit(c) /\ AlreadyDeposited(deposit[c].month)
  <2>1. Present' = Present
    BY <1>5 DEF DepositCommit, Present
  <2>. QED BY <1>3, <2>1, BookStays DEF Outside
<1>6. CASE DepositCommit(c) /\ ~AlreadyDeposited(deposit[c].month)
  <2>1. /\ deposit[c].month \in Months \ allowances
        /\ history'.raced = (history.raced \/ Overlaps(c))
        /\ deposit[c].row = account => account'.cash = account.cash + Contribution
    BY <1>6, DepositChange
  <2>2. ~history.raced /\ deposit[c].row = account /\ (c = Engine \/ ~lock)
    <3>1. history.raced \in BOOLEAN
      BY <1>1 DEF History
    <3>. QED BY <2>1, <3>1 DEF Overlaps
  <2>3. engine.stage \in {"idle", "deposit"}
    BY <1>6, <2>2 DEF DepositCommit, LockInv
  <2>4. engine.stage \notin Outside /\ engine'.stage \notin Outside
    BY <1>1, <1>2, <2>3
  <2>5. BookNow = Present /\ BookNow' = Present'
    BY <2>4, BookIs, BookIsThen DEF Outside
  <2>6. Present' = Abstract!Credited(Present)
    <3>1. value' = value
      BY <1>6 DEF DepositCommit
    <3>. QED BY <2>1, <2>2, <3>1 DEF Present, Abstract!Credited
  <2>7. Abstract!Equity(Present) + Contribution <= MaxMoney
    BY <2>1, <2>2, MoneyBounded
  <2>. QED BY <2>5, <2>6, <2>7, BookSteps
<1>. QED BY <1>4, <1>5, <1>6

\* A pass is DailyBook's where it ends, and nothing before.
LEMMA PassOfBook ==
  ASSUME TypeOK, LockInv, AccountInv, RowInv, PassInv, ~history'.raced, Deployment
  PROVE  [Abstract!Next]_BookNow
<1>1. /\ engine \in EngineState /\ Idle.stage = "idle"
      /\ \A stage : [engine EXCEPT !.stage = stage].stage = stage
  BY DEF TypeOK, EngineState, Idle
<1>2. UNCHANGED history /\ ~history.raced
  BY DEF Deployment, Rank, Weigh, BuyRead, Revalue, Deployed, Value, Snapshot, SellRead,
     SellCommit, BuyCommit, Unlocked, Elsewhere
<1>3. ASSUME engine.stage \in PassStages, engine'.stage \in PassStages,
             engine'.start = engine.start
      PROVE  [Abstract!Next]_BookNow
  BY <1>3, BookIs, BookIsThen, BookSteps
<1>4. ASSUME engine.stage \in PassStages, engine'.stage = "value", Present' = Present,
             NEW in \in Abstract!Input, Present = Abstract!Passed(engine.start, in)
      PROVE  [Abstract!Next]_BookNow
  <2>1. "value" \notin PassStages \cup ReplayStages
    BY DEF PassStages, ReplayStages
  <2>2. BookNow' = Abstract!Passed(BookNow, in)
    BY <1>4, <2>1, BookIs, BookIsThen
  <2>. QED BY <2>2, BookSteps
<1>5. CASE Rank
  <2>1. engine.stage = "rank"
    BY <1>5 DEF Rank
  <2>2. Present' = Present
    BY <1>5, RankStarts DEF Present
  <2>3. CASE engine'.stage = "sell"
    <3>1. BookNow = Present /\ BookNow' = engine'.start /\ engine'.start = Present
      BY <1>5, <2>1, <2>3, BookIs, BookIsThen, RankStarts DEF PassStages, ReplayStages
    <3>. QED BY <3>1, BookSteps
  <2>4. CASE engine'.stage = "value"
    BY <2>1, <2>2, <2>4, BookStays DEF PassStages, ReplayStages
  <2>. QED BY <1>5, <2>3, <2>4, RankStarts
<1>6. ASSUME NEW t \in Tickers, SellRead(t) \/ SellCommit(t) PROVE [Abstract!Next]_BookNow
  <2>1. engine.stage \in {"sell", "selling"}
    BY <1>6 DEF SellRead, SellCommit
  <2>2. PICK in : Selling(in)
    BY <1>2, <2>1 DEF PassInv
  <2>3. engine'.stage \in {"sell", "selling"} /\ engine'.start = engine.start
    BY <1>2, <1>6, <2>2, SellGoesOn
  <2>. QED BY <1>3, <2>1, <2>3 DEF PassStages
<1>7. CASE Weigh
  <2>1. engine.stage = "sell"
    BY <1>7 DEF Weigh
  <2>2. PICK in : Selling(in)
    BY <1>2, <2>1 DEF PassInv
  <2>3. /\ UNCHANGED <<account, value>> /\ in \in Abstract!Input
        /\ \/ engine'.stage = "value" /\ Present = Abstract!Passed(engine.start, in)
           \/ engine'.stage = "buy" /\ engine'.start = engine.start
    BY <1>7, <2>2, SalesEnd DEF Selling, InputOf
  <2>4. Present' = Present
    BY <2>3 DEF Present
  <2>. QED BY <1>3, <1>4, <2>1, <2>3, <2>4 DEF PassStages
<1>8. ASSUME BuyRead \/ Revalue \/ Deployed \/ \E t \in Tickers : BuyCommit(t)
      PROVE  [Abstract!Next]_BookNow
  <2>1. engine.stage \in {"buy", "buying", "revalue"}
    BY <1>8 DEF BuyRead, Revalue, Deployed, BuyCommit
  <2>2. PICK in, run, n, k : Purchasing(in, run, n, k)
    BY <1>2, <2>1 DEF PassInv
  <2>3. CASE BuyRead \/ Revalue \/ \E t \in Tickers : BuyCommit(t)
    <3>1. engine'.stage \in {"buy", "buying", "revalue"} /\ engine'.start = engine.start
      BY <1>2, <2>2, <2>3, BuyReadGoesOn, BuyCommitGoesOn, RevalueGoesOn
    <3>. QED BY <1>3, <2>1, <3>1 DEF PassStages
  <2>4. CASE Deployed
    <3>1. /\ Present = Abstract!Passed(engine.start, in) /\ in \in Abstract!Input
          /\ UNCHANGED <<account, value>> /\ engine'.stage = "value"
      BY <2>2, <2>4, PurchasesEnd
    <3>2. Present' = Present
      BY <3>1 DEF Present
    <3>. QED BY <1>4, <2>1, <3>1, <3>2 DEF PassStages
  <2>. QED BY <1>8, <2>3, <2>4
<1>9. CASE Value \/ Snapshot
  <2>1. engine.stage \in {"value", "mark"} /\ engine'.stage \in {"mark", "idle"}
    BY <1>1, <1>9 DEF Value, Snapshot, EngineState, Release
  <2>2. Present' = Present
    BY <1>9 DEF Value, Snapshot, Unlocked, db, Present
  <2>. QED BY <2>1, <2>2, BookStays DEF PassStages, ReplayStages
<1>. QED BY <1>5, <1>6, <1>7, <1>8, <1>9 DEF Deployment
\* A backfill restarts the book and makes its deposits and passes in memory.
LEMMA BackfillOfBook ==
  ASSUME TypeOK, LockInv, AccountInv, RowInv, ReplayInv, WipeInv, Enough, ~history'.raced,
         Backfill
  PROVE  [Abstract!Next]_BookNow
<1>1. /\ engine \in EngineState /\ Idle.stage = "idle" /\ account \in Account
      /\ \A stage : [engine EXCEPT !.stage = stage].stage = stage
      /\ engine.book \in Books /\ engine.funded \in SUBSET Months /\ engine.days \in SUBSET Months
  BY DEF TypeOK, EngineState, Idle
<1>2. ASSUME NEW m \in Months \ engine.funded, engine.stage = "replay"
      PROVE  Abstract!Equity(engine.book) + Contribution <= MaxMoney
  <2>1. /\ Contribution * Cardinality(engine.funded) \in Nat
        /\ Contribution * Cardinality(engine.funded) + Contribution <= Contribution * LastMonth
    BY <1>1, <1>2, MonthsFit
  <2>2. Abstract!Equity(engine.book) = Contribution * Cardinality(engine.funded)
    <3>1. Abstract!Equity(engine.book)
            = engine.book.cash + Abstract!Worth(engine.book.value, Tickers)
      BY <1>1, BooksAreBooks, EquityTyped, LibraryOperators
    <3>. QED BY <1>2, <3>1 DEF ReplayInv, ReplayStages
  <2>3. Contribution * LastMonth \in Nat /\ StartCash \in Nat /\ MaxMoves \in Nat
        /\ MaxMoney \in Nat /\ Contribution \in Nat
    BY Constants, ModelConstants, BookAssumption
  <2>. QED BY <2>1, <2>2, <2>3 DEF Enough
<1>3. CASE BackfillStart
  <2>1. engine.stage = "idle" /\ UNCHANGED <<account, value>>
    BY <1>3 DEF BackfillStart, Acquire, LockInv, db
  <2>2. PICK days : engine' = [Idle EXCEPT !.stage = "wipe", !.days = days]
    BY <1>3 DEF BackfillStart, Acquire
  <2>3. engine'.stage = "wipe" /\ Present' = Present
    BY <2>1, <2>2 DEF Idle, Present
  <2>. QED BY <2>1, <2>3, BookStays DEF PassStages, ReplayStages
<1>4. CASE WipeRead
  <2>1. engine.stage = "wipe" /\ engine'.stage = "wiping" /\ Present' = Present
    BY <1>1, <1>4 DEF WipeRead, EngineState, Unlocked, db, Present
  <2>. QED BY <2>1, BookStays DEF PassStages, ReplayStages
<1>5. CASE WipeCommit
  <2>1. /\ engine.stage = "wiping"
        /\ engine' = [engine EXCEPT !.stage = "replay",
                        !.live = IF engine.row.exists THEN engine.row.allowanceMonth ELSE 0]
    BY <1>5 DEF WipeCommit
  <2>2. engine'.stage = "replay" /\ engine'.book = engine.book /\ engine.book = NoBook
    BY <1>1, <2>1 DEF EngineState, WipeInv
  <2>3. BookNow' = Abstract!Empty(0)
    BY <2>2, BookIsThen DEF ReplayStages, NoBook, Nothing, Abstract!Empty
  <2>. QED BY <2>3, BookSteps
<1>6. CASE ReplayDay
  <2>1. PICK in \in [ranking: Rankings, verdict: Verdicts, priced: {Tickers}, scale: Scales] :
          engine' = [engine EXCEPT
            !.days = @ \ {Min(@)}, !.funded = @ \cup {Min(engine.days)},
            !.book = Abstract!Passed(Abstract!Credited(@), in)]
    BY <1>6 DEF ReplayDay
  <2>2. engine.stage = "replay" /\ engine.days # {}
    BY <1>6 DEF ReplayDay
  <2>3. Min(engine.days) \in Months \ engine.funded
    <3>1. IsFiniteSet(engine.days) /\ engine.days \in SUBSET Nat
      BY <1>1, MonthsFinite
    <3>2. Min(engine.days) \in engine.days
      BY <2>2, <3>1, MinOfNat
    <3>. QED BY <1>1, <2>2, <3>2 DEF ReplayInv
  <2>4. /\ engine'.stage = "replay"
        /\ engine'.book = Abstract!Passed(Abstract!Credited(engine.book), in)
    BY <1>1, <2>1, <2>2 DEF EngineState
  <2>5. BookNow = engine.book /\ BookNow' = engine'.book
    BY <2>2, <2>4, BookIs, BookIsThen DEF ReplayStages
  <2>6. in \in Abstract!Input
    BY BooksAreBooks
  <2>7. Abstract!Equity(BookNow) + Contribution <= MaxMoney
    BY <1>2, <2>2, <2>3, <2>5
  <2>8. BookNow' = Abstract!Passed(Abstract!Credited(BookNow), in)
    BY <2>4, <2>5
  <2>. QED BY <2>6, <2>7, <2>8, BookSteps
<1>7. CASE ReplayEnd
  <2> DEFINE again == FundedAgain(engine.live) \ engine.funded
             cash == engine.book.cash + Contribution * Cardinality(again)
  <2>1. /\ engine.stage = "replay"
        /\ engine' = [engine EXCEPT !.stage = "persist", !.funded = @ \cup again,
                        !.days = engine.funded, !.book.cash = cash]
    BY <1>7 DEF ReplayEnd
  <2>2. again = {} \/ (again = {month} /\ month \in Months \ engine.funded)
    BY DEF FundedAgain, TypeOK
  <2>. HIDE DEF again
  <2>3. /\ engine'.stage = "persist"
        /\ engine'.book = [cash |-> cash, value |-> engine.book.value]
    BY <1>1, <2>1 DEF EngineState, Books
  <2>4. BookNow = engine.book /\ BookNow' = engine'.book
    BY <2>1, <2>3, BookIs, BookIsThen DEF ReplayStages
  <2>5. CASE again = {}
    <3>1. cash = engine.book.cash
      <4>1. Cardinality(again) = 0 /\ engine.book.cash \in Nat /\ Contribution \in Nat
        BY <1>1, <2>5, FS_EmptySet, Constants DEF Books
      <4>. QED BY <4>1
    <3>2. BookNow' = BookNow
      BY <1>1, <2>3, <2>4, <3>1 DEF Books
    <3>. QED BY <3>2, BookSteps
  <2>6. CASE again = {month} /\ month \in Months \ engine.funded
    <3>1. cash = engine.book.cash + Contribution
      <4>1. Cardinality(again) = 1 /\ Contribution \in Nat
        BY <2>6, FS_Singleton, Constants
      <4>. QED BY <4>1
    <3>2. BookNow' = Abstract!Credited(BookNow)
      BY <1>1, <2>3, <2>4, <3>1 DEF Books, Abstract!Credited
    <3>3. Abstract!Equity(BookNow) + Contribution <= MaxMoney
      BY <1>2, <2>1, <2>4, <2>6
    <3>. QED BY <3>2, <3>3, BookSteps
  <2>. QED BY <2>2, <2>5, <2>6
<1>8. CASE PersistRead
  <2>1. engine.stage = "persist" /\ engine'.stage = "persisting" /\ engine'.book = engine.book
    BY <1>1, <1>8 DEF PersistRead, EngineState
  <2>2. BookNow' = BookNow
    BY <2>1, BookIs, BookIsThen DEF ReplayStages
  <2>. QED BY <2>2, BookSteps
<1>9. CASE PersistCommit
  <2>1. engine.stage = "persisting" /\ engine'.stage = "idle" /\ ~history.raced
    BY <1>1, <1>9 DEF PersistCommit, Release, Elsewhere
  <2>2. engine.row = account /\ allowances = {}
    BY <2>1 DEF RowInv, ReplayInv, ReplayStages
  <2>3. account'.cash = engine.book.cash /\ value' = engine.book.value
    BY <1>1, <1>9, <2>2 DEF PersistCommit, Column, Account, Books
  <2>4. BookNow = engine.book /\ BookNow' = Present'
    BY <2>1, BookIs, BookIsThen DEF PassStages, ReplayStages
  <2>5. BookNow' = BookNow
    BY <1>1, <2>3, <2>4 DEF Present, Books
  <2>. QED BY <2>5, BookSteps
<1>. QED BY <1>3, <1>4, <1>5, <1>6, <1>7, <1>8, <1>9 DEF Backfill

BookInv == Inv /\ PassInv /\ WipeInv /\ BoundInv

\* What happens beside the cycle and the backfill.
LEMMA OthersOfBook ==
  ASSUME BookInv, Enough, ~history'.raced,
         CycleStart \/ Reset \/ Tick \/ (\E t \in Tickers : Move(t)) \/ UNCHANGED vars
  PROVE  [Abstract!Next]_BookNow
<1>1. /\ TypeOK /\ LockInv /\ MoneyConserved /\ BoundInv
      /\ engine \in EngineState /\ Idle.stage = "idle"
  BY DEF BookInv, Inv, TypeOK, Idle
<1>2. CASE CycleStart
  <2>1. engine.stage = "idle" /\ engine'.stage = "deposit" /\ Present' = Present
    BY <1>1, <1>2 DEF CycleStart, Acquire, LockInv, Idle, db, Present
  <2>. QED BY <2>1, BookStays DEF PassStages, ReplayStages
<1>3. CASE Tick \/ UNCHANGED vars
  <2>1. UNCHANGED engine /\ Present' = Present
    BY <1>3 DEF Tick, vars, db, Present
  <2>. QED BY <2>1, BookStays
<1>4. CASE Reset
  <2>1. engine.stage = "idle" /\ UNCHANGED engine
    BY <1>1, <1>4 DEF Reset, LockInv
  <2>2. BookNow' = Present'
    BY <2>1, BookIsThen DEF PassStages, ReplayStages
  <2>3. Present' = Abstract!Empty(StartCash)
    BY <1>4 DEF Reset, NoRows, FreshAccount, Nothing, Present, Abstract!Empty
  <2>. QED BY <2>2, <2>3, BookSteps
<1>5. ASSUME NEW t \in Tickers, Move(t) PROVE [Abstract!Next]_BookNow
  <2>1. PICK gain \in {-1, 1} : /\ value[t] > 0 /\ value[t] + gain > 0
                               /\ value' = [value EXCEPT ![t] = @ + gain]
                               /\ history' = [history EXCEPT !.gains = @ + gain]
    BY <1>5 DEF Move
  <2>2. /\ engine.stage \in {"idle", "rank"} /\ UNCHANGED <<engine, account>>
        /\ count.moves < MaxMoves
    BY <1>5 DEF Move
  <2>3. ~history.raced
    <3>1. history \in History
      BY <1>1 DEF TypeOK
    <3>. QED BY <2>1, <3>1 DEF History
  <2>4. BookNow = Present /\ BookNow' = Present'
    BY <2>2, BookIs, BookIsThen DEF PassStages, ReplayStages
  <2>5. value \in [Tickers -> Nat] /\ value[t] \in Nat
    BY <1>1 DEF TypeOK
  <2>6. Present' = [Present EXCEPT !.value[t] = @ + gain] /\ Present.value[t] = value[t]
    BY <2>1, <2>2 DEF Present
  <2>7. CASE gain = 1
    <3>1. Abstract!Equity(Present) < MaxMoney
      BY <1>1, <2>2, <2>3, MoneyBounded
    <3>. QED BY <2>1, <2>4, <2>6, <2>7, <3>1, BookSteps
  <2>8. CASE gain = -1
    <3>1. value[t] > 1 /\ value[t] + gain = value[t] - 1
      BY <2>1, <2>5, <2>8
    <3>2. Present' = [Present EXCEPT !.value[t] = @ - 1]
      BY <2>6, <3>1
    <3>. QED BY <2>4, <2>6, <3>1, <3>2, BookSteps
  <2>. QED BY <2>1, <2>7, <2>8
<1>. QED BY <1>2, <1>3, <1>4, <1>5

\* Every step is one of the book, or none, but a failure and a deposit that
\* overlaps with another operation.
LEMMA StepOfBook ==
  ASSUME BookInv, Enough, [Next]_vars, ~history'.raced, count'.crashes = count.crashes
  PROVE  [Abstract!Next]_BookNow
<1>1. /\ TypeOK /\ LockInv /\ AccountInv /\ RowInv /\ ReplayInv /\ MoneyConserved
      /\ PassInv /\ WipeInv /\ BoundInv
  BY DEF BookInv, Inv
<1>2. ~(Crash \/ Fail)
  <2>1. /\ count \in [runs: 0..MaxRuns, moves: 0..MaxMoves, crashes: 0..MaxCrashes]
        /\ count.crashes \in Nat
    BY <1>1, ModelConstants DEF TypeOK
  <2>2. Crash \/ Fail => count' = [count EXCEPT !.crashes = @ + 1]
    BY DEF Crash, Fail
  <2>3. Crash \/ Fail => count'.crashes = count.crashes + 1
    BY <2>1, <2>2
  <2>. QED BY <2>1, <2>3
<1>. QED BY <1>1, <1>2, DepositOfBook, PassOfBook, BackfillOfBook, OthersOfBook DEF Next

LEMMA BookInvStep == BookInv /\ [Next]_vars => BookInv'
<1> SUFFICES ASSUME BookInv, [Next]_vars PROVE BookInv'
  OBVIOUS
<1>1. /\ Inv /\ TypeOK /\ LockInv /\ AccountInv /\ RowInv /\ PassInv /\ WipeInv /\ BoundInv
  BY DEF BookInv, Inv
<1>. QED BY <1>1, StepInv, PassStep, WipeStep, BoundStep DEF BookInv

LEMMA BookInvInit == Init => BookInv
<1> SUFFICES ASSUME Init PROVE BookInv
  OBVIOUS
<1>1. engine.stage = "idle" /\ history.base = StartCash /\ history.gains = 0 /\ count.moves = 0
  BY DEF Init, Idle, NoHistory
<1>. QED BY <1>1, InitInv DEF BookInv, PassInv, WipeInv, BoundInv

LEMMA BookInvariant == Spec => []BookInv
BY BookInvInit, BookInvStep, PTL DEF Spec

\* Without status requests, the cycle's own deposit finds what it read.
AloneInv ==
  /\ ~history.raced
  /\ deposit[Engine].at # "idle" => deposit[Engine].row = account

LEMMA AloneStep ==
  ASSUME Depositors = {}, TypeOK, LockInv, AloneInv, [Next]_vars
  PROVE  AloneInv'
<1>1. /\ Callers = {Engine} /\ deposit \in [Callers -> DepositState] /\ history \in History
      /\ history.raced \in BOOLEAN /\ NoDeposit.at = "idle" /\ Engine \in Callers
      /\ deposit[Engine].row \in Account /\ deposit[Engine] \in DepositState
  BY ModelConstants DEF TypeOK, History, NoDeposit, DepositState
<1>2. ASSUME UNCHANGED <<deposit, account>>, history'.raced = history.raced PROVE AloneInv'
  BY <1>2 DEF AloneInv
<1>3. ASSUME deposit'[Engine].at = "idle", ~history'.raced PROVE AloneInv'
  BY <1>3 DEF AloneInv
<1>4. CASE DepositRead(Engine)
  <2>1. UNCHANGED <<account, history>>
    BY <1>4 DEF DepositRead, db
  <2>2. UNCHANGED deposit \/ deposit'[Engine].row = account
    BY <1>1, <1>4 DEF DepositRead
  <2>. QED BY <2>1, <2>2 DEF AloneInv
<1>5. CASE DepositOpen(Engine)
  <2>1. UNCHANGED history
    BY <1>5 DEF DepositOpen
  <2>2. CASE account.exists
    <3>1. deposit'[Engine].at = "idle"
      BY <1>1, <1>5, <2>2 DEF DepositOpen
    <3>. QED BY <1>3, <2>1, <3>1 DEF AloneInv
  <2>3. CASE ~account.exists
    <3>1. deposit'[Engine].row = FreshAccount /\ account' = FreshAccount
      BY <1>1, <1>5, <2>3 DEF DepositOpen, DepositState
    <3>. QED BY <2>1, <3>1 DEF AloneInv
  <2>. QED BY <2>2, <2>3
<1>6. CASE DepositCommit(Engine)
  <2>1. deposit'[Engine].at = "idle" /\ deposit[Engine].at = "commit"
    BY <1>1, <1>6 DEF DepositCommit
  <2>2. ~Overlaps(Engine)
    BY <2>1 DEF AloneInv, Overlaps
  <2>3. history'.raced = history.raced \/ history'.raced = (history.raced \/ Overlaps(Engine))
    BY <1>1, <1>6 DEF DepositCommit, History
  <2>. QED BY <1>1, <1>3, <2>1, <2>2, <2>3 DEF AloneInv
<1>7. CASE Crash \/ Fail
  <2>1. deposit'[Engine].at = "idle" /\ UNCHANGED history
    BY <1>1, <1>7 DEF Crash, Fail
  <2>. QED BY <1>3, <2>1 DEF AloneInv
<1>8. CASE \/ WipeCommit \/ PersistCommit \/ Reset
           \/ \E t \in Tickers : SellCommit(t) \/ BuyCommit(t)
  <2>1. engine.stage # "deposit"
    BY <1>8 DEF WipeCommit, PersistCommit, Reset, SellCommit, BuyCommit, LockInv
  <2>2. deposit[Engine].at = "idle" /\ UNCHANGED deposit
    BY <1>8, <2>1 DEF LockInv, WipeCommit, PersistCommit, Reset, SellCommit, BuyCommit,
       Unlocked, Elsewhere
  <2>3. ~history'.raced
    <3>1. \/ UNCHANGED history \/ history' = NoHistory(StartCash)
          \/ history' = [NoHistory(0) EXCEPT !.raced = history.raced]
      BY <1>8 DEF WipeCommit, PersistCommit, Reset, SellCommit, BuyCommit, Unlocked, Elsewhere
    <3>. QED BY <3>1 DEF AloneInv, NoHistory
  <2>. QED BY <1>3, <2>2, <2>3
<1>9. CASE \/ CycleStart \/ BackfillStart \/ Rank \/ Weigh \/ BuyRead \/ Revalue \/ Deployed
           \/ Value \/ Snapshot \/ (\E t \in Tickers : SellRead(t))
           \/ WipeRead \/ ReplayDay \/ ReplayEnd \/ PersistRead \/ Tick \/ UNCHANGED vars
  <2>1. UNCHANGED <<deposit, account, history>>
    BY <1>9 DEF CycleStart, BackfillStart, Rank, Weigh, BuyRead, Revalue, Deployed, Value,
       Snapshot, SellRead, WipeRead, ReplayDay, ReplayEnd, PersistRead, Tick,
       Unlocked, Elsewhere, db, vars
  <2>. QED BY <1>2, <2>1
<1>10. ASSUME NEW t \in Tickers, Move(t) PROVE AloneInv'
  <2>1. UNCHANGED <<deposit, account>> /\ history'.raced = history.raced
    BY <1>1, <1>10 DEF Move, History
  <2>. QED BY <1>2, <2>1
<1>. QED BY <1>1, <1>4, <1>5, <1>6, <1>7, <1>8, <1>9, <1>10 DEF Next, Deployment, Backfill

\* Whatever crashed before and whatever ran at the same time, a step changes
\* the book by one deposit, one whole pass, one replayed day, one price or a
\* restart, unless it is itself a failure or a deposit that overlaps.
THEOREM StepsAreOfTheBook ==
  ASSUME Enough
  PROVE  Spec => [][~history'.raced /\ count'.crashes = count.crashes
                      => [Abstract!Next]_BookNow]_vars
<1>1. BookInv /\ [Next]_vars
        => [~history'.raced /\ count'.crashes = count.crashes => [Abstract!Next]_BookNow]_vars
  BY StepOfBook
<1>. QED BY <1>1, BookInvariant, PTL DEF Spec

\* Without status requests and failures, the live engine's transactions and
\* the backfill's replay are deposits and passes of one book: a backfill's end
\* state is one that the live engine could hold.
THEOREM CoreImplementsBook ==
  ASSUME Depositors = {}, MaxCrashes = 0, Enough
  PROVE  Spec => ImplementsBook
<1>1. Init => Abstract!Init /\ AloneInv
  <2>1. Init => BookNow = [cash |-> StartCash, value |-> Nothing]
    BY DEF Init, BookNow, Idle, PassStages, ReplayStages, NoAccount, FreshAccount
  <2>2. Init => AloneInv
    BY ModelConstants DEF Init, AloneInv, NoHistory, NoDeposit
  <2>. QED BY <2>1, <2>2 DEF Abstract!Init, Abstract!Empty, Nothing
<1>2. BookInv /\ AloneInv /\ [Next]_vars => AloneInv'
  BY AloneStep DEF BookInv, Inv
<1>3. BookInv /\ BookInv' /\ AloneInv' /\ [Next]_vars => [Abstract!Next]_BookNow
  <2> SUFFICES ASSUME BookInv, BookInv', AloneInv', [Next]_vars PROVE [Abstract!Next]_BookNow
    OBVIOUS
  <2>1. count \in [runs: 0..MaxRuns, moves: 0..MaxMoves, crashes: 0..MaxCrashes]
        /\ count' \in [runs: 0..MaxRuns, moves: 0..MaxMoves, crashes: 0..MaxCrashes]
    BY DEF BookInv, Inv, TypeOK
  <2>2. count'.crashes = count.crashes
    BY <2>1
  <2>3. ~history'.raced
    BY DEF AloneInv
  <2>. QED BY <2>2, <2>3, StepOfBook
<1>. QED BY <1>1, <1>2, <1>3, BookInvariant, PTL DEF Spec, ImplementsBook, Abstract!Spec
=============================================================================
