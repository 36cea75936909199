----------------------------- MODULE SimProofs -----------------------------
(* The paper simulation for every value of the constants: its types, the    *)
(* money, the cap on positions, the distance of reviews and the markers of  *)
(* the months, through every overlap of cycle, backfill, chat, status       *)
(* requests, resets and restarts.                                           *)
EXTENDS Sim, StrategyProofs

-----------------------------------------------------------------------------
(* Months.                                                                 *)

LEMMA Constants ==
  /\ StartCash \in Nat /\ Allowance \in Nat /\ Allowance > 0 /\ Interval \in Nat /\ Interval > 0
  /\ Since \subseteq Nat \ {0} /\ WeeksAMonth \in Nat \ {0} /\ LastWeek \in Nat /\ LastWeek > 0
  /\ FirstWeek \in Weeks /\ MaxEvents \in Nat /\ \A m \in Markets : IsMarket(m)
  /\ Replies \subseteq Seq(Answer) /\ ChatReplies \subseteq Seq(Order) /\ <<>> \notin ChatReplies
BY SimAssumption DEF Weeks

LEMMA MonthTyped ==
  ASSUME NEW w \in Weeks
  PROVE  /\ Month(w) \in Months /\ Month(w) \in Nat /\ Month(w) >= 1
         /\ \A v \in Weeks : v <= w => Month(v) <= Month(w)
<1>1. /\ w - 1 \in Nat /\ LastWeek - 1 \in Nat /\ w - 1 <= LastWeek - 1
      /\ WeeksAMonth \in Nat \ {0}
  BY Constants DEF Weeks
<1>2. /\ (w - 1) \div WeeksAMonth \in Nat
      /\ (w - 1) \div WeeksAMonth <= (LastWeek - 1) \div WeeksAMonth
      /\ (LastWeek - 1) \div WeeksAMonth \in Nat
  BY <1>1, DivMonotone
<1>3. ASSUME NEW v \in Weeks, v <= w PROVE Month(v) <= Month(w)
  <2>1. v - 1 \in Nat /\ v - 1 <= w - 1
    BY <1>1, <1>3 DEF Weeks
  <2>2. /\ (v - 1) \div WeeksAMonth <= (w - 1) \div WeeksAMonth
        /\ (v - 1) \div WeeksAMonth \in Nat
    BY <1>1, <2>1, DivMonotone
  <2>. QED BY <1>2, <2>2 DEF Month
<1>. QED BY <1>2, <1>3 DEF Month, Months

LEMMA MonthsFinite ==
  /\ Months \subseteq Nat /\ 0 \notin Months
  /\ \A S \in SUBSET Months : /\ IsFiniteSet(S) /\ IsFiniteSet(S \cup {0})
                              /\ Cardinality(S) \in Nat /\ S \cup {0} \in SUBSET Nat
<1>1. LastWeek \in Weeks
  BY Constants DEF Weeks
<1>2. Month(LastWeek) \in Nat
  BY <1>1, MonthTyped
<1>3. IsFiniteSet(Months)
  BY <1>2, FS_Interval, 1 \in Int DEF Months
<1>4. Months \subseteq Nat /\ 0 \notin Months
  BY <1>2 DEF Months
<1>5. ASSUME NEW S \in SUBSET Months
      PROVE  /\ IsFiniteSet(S) /\ IsFiniteSet(S \cup {0}) /\ Cardinality(S) \in Nat
             /\ S \cup {0} \in SUBSET Nat
  <2>1. IsFiniteSet(S)
    BY <1>3, FS_Subset
  <2>2. IsFiniteSet(S \cup {0})
    BY <2>1, FS_AddElement
  <2>3. Cardinality(S) \in Nat
    BY <2>1, FS_CardinalityType
  <2>4. S \cup {0} \in SUBSET Nat
    BY <1>4
  <2>. QED BY <2>1, <2>2, <2>3, <2>4
<1>. QED BY <1>4, <1>5

\* A marker is the last of some months.
LEMMA LatestMonth ==
  ASSUME NEW S \in SUBSET Months, NEW k \in {0} \cup Months, NEW latest, latest = Max(S \cup {k})
  PROVE  /\ latest \in S \cup {k} /\ latest \in {0} \cup Months /\ latest \in Nat
         /\ \A i \in S \cup {k} : i \in Nat /\ i <= latest
<1> DEFINE T == S \cup {k}
<1>1. IsFiniteSet(T)
  <2>1. IsFiniteSet(S)
    BY MonthsFinite
  <2>. QED BY <2>1, FS_AddElement
<1>2. T \in SUBSET Nat /\ T # {} /\ T \subseteq {0} \cup Months
  BY MonthsFinite
<1>3. latest = Max(T) /\ T = S \cup {k}
  OBVIOUS
<1>. HIDE DEF T
<1>4. Max(T) \in T /\ \A i \in T : Max(T) >= i
  BY <1>1, <1>2, MaxOfFinite
<1>. QED BY <1>2, <1>3, <1>4

\* The larger of some numbers.
LEMMA LargestOfThree ==
  ASSUME NEW a \in Nat, NEW b \in Nat, NEW c \in Nat, NEW m, m = Max({a, b, c})
  PROVE  m \in Nat /\ a <= m /\ b <= m /\ c <= m
<1> DEFINE S == {a, b, c}
<1>1. S \in SUBSET Nat /\ S # {} /\ m = Max(S)
  OBVIOUS
<1>2. IsFiniteSet(S)
  <2>1. IsFiniteSet({a}) /\ S = ({a} \cup {b}) \cup {c}
    BY FS_Singleton
  <2>2. IsFiniteSet({a} \cup {b})
    BY <2>1, FS_AddElement
  <2>3. IsFiniteSet(({a} \cup {b}) \cup {c})
    BY <2>2, FS_AddElement
  <2>. QED BY <2>1, <2>3
<1>3. m \in S /\ \A x \in S : m >= x
  <2>. HIDE DEF S
  <2>. QED BY <1>1, <1>2, MaxOfFinite
<1>4. \A x \in S : x \in Nat /\ m \in Nat
  BY <1>1, <1>3
<1>. QED BY <1>3, <1>4

LEMMA LargestOfTwo ==
  ASSUME NEW a \in Nat, NEW b \in Nat, NEW m, m = Max({a, b})
  PROVE  m \in Nat /\ a <= m /\ b <= m
<1>1. {a, b} = {a, b, b}
  OBVIOUS
<1>. QED BY <1>1, LargestOfThree

\* A sequence without its last element.
LEMMA WithoutLast ==
  ASSUME NEW S, NEW q \in Seq(S)
  PROVE  /\ q # <<>> => /\ Front(q) \in Seq(S) /\ Len(Front(q)) = Len(q) - 1 /\ Len(q) - 1 \in Nat
                        /\ \A i \in 1..(Len(q) - 1) : Front(q)[i] = q[i]
         /\ \A x \in S : Front(Append(q, x)) = q /\ Append(q, x) # <<>>
<1>1. ASSUME q # <<>>
      PROVE  /\ Front(q) \in Seq(S) /\ Len(Front(q)) = Len(q) - 1 /\ Len(q) - 1 \in Nat
             /\ \A i \in 1..(Len(q) - 1) : Front(q)[i] = q[i]
  <2> DEFINE n == Len(q) - 1
  <2>1. Len(q) \in Nat /\ Len(q) # 0
    BY <1>1
  <2>2. n \in Nat /\ n <= Len(q) /\ \A i \in 1..n : i \in 1..Len(q)
    BY <2>1
  <2>3. Front(q) = SubSeq(q, 1, n)
    BY DEF Front
  <2>. HIDE DEF n
  <2>4. SubSeq(q, 1, n) = [i \in 1..n |-> q[i]]
    BY <2>2
  <2>5. Front(q) \in Seq(S) /\ Len(Front(q)) = n /\ \A i \in 1..n : Front(q)[i] = q[i]
    BY <2>2, <2>3, <2>4
  <2>. QED BY <2>2, <2>5 DEF n
<1>2. ASSUME NEW x \in S
      PROVE  Front(Append(q, x)) = q /\ Append(q, x) # <<>>
  <2> DEFINE r == Append(q, x)
  <2>1. r \in Seq(S) /\ Len(r) = Len(q) + 1 /\ Len(q) \in Nat /\ \A i \in 1..Len(q) : r[i] = q[i]
    OBVIOUS
  <2>2. r # <<>>
    BY <2>1
  <2>. HIDE DEF r
  <2>3. /\ Front(r) \in Seq(S) /\ Len(Front(r)) = Len(q) /\ \A i \in 1..Len(q) : Front(r)[i] = q[i]
    BY <2>1, <2>2 DEF Front
  <2>4. Front(r) = q
    BY <2>1, <2>3
  <2>. QED BY <2>2, <2>4 DEF r
<1>. QED BY <1>1, <1>2

-----------------------------------------------------------------------------
(* The replay of a backfill.                                               *)

LEMMA ReplayedDayEffect ==
  ASSUME NEW b \in Ledger, NEW m, IsMarket(m), NEW c, c = ReplayedDay(b, m)
  PROVE  /\ c \in Ledger /\ Equity(c) = Equity(b) + Allowance
         /\ Cardinality(Open(b)) <= MaxPositions => Cardinality(Open(c)) <= MaxPositions
<1> DEFINE funded == [b EXCEPT !.cash = @ + Allowance]
           sells == Sells(funded, m)
           sold == Executed(funded, sells)
           buys == Buys(sold, m)
<1>1. c = Executed(sold, buys)
  BY DEF ReplayedDay
<1>2. /\ funded \in Ledger /\ funded.held = b.held /\ funded.cash = b.cash + Allowance
      /\ b.cash \in Nat
  BY Constants DEF Ledger, Holdings
<1>. HIDE DEF funded
<1>3. Open(funded) = Open(b)
  BY <1>2 DEF Open
<1>4. Equity(funded) = Equity(b) + Allowance
  <2>1. /\ Equity(funded) = funded.cash + Total(funded.held, Tickers)
        /\ Equity(b) = b.cash + Total(b.held, Tickers) /\ Total(b.held, Tickers) \in Nat
    BY <1>2, LedgerTyped
  <2>. QED BY <1>2, <2>1, Constants
<1>5. sells \in Seq({p \in Proposal : p.side = "BUY" => p.ticker \in {}})
  <2>1. sells \in Seq({p \in Proposal : p.side = "SELL" /\ p.ticker \in Exits(funded, m)})
    BY <1>2, SellsTyped
  <2>2. {p \in Proposal : p.side = "SELL" /\ p.ticker \in Exits(funded, m)}
          \subseteq {p \in Proposal : p.side = "BUY" => p.ticker \in {}}
    OBVIOUS
  <2>. HIDE DEF sells
  <2>. QED BY <2>1, <2>2, WiderSeq
<1>6. sold \in Reached(funded, {})
  BY <1>2, <1>5, ExecutedEffect
<1>. HIDE DEF sold
<1>7. sold \in Ledger /\ Equity(sold) = Equity(funded) /\ Open(sold) \subseteq Open(b)
  BY <1>3, <1>6 DEF Reached
<1>8. /\ buys \in Seq(Purchase)
      /\ Cardinality(Open(sold)) <= MaxPositions =>
           Cardinality(Open(sold) \cup TickersOf(buys)) <= MaxPositions
  BY <1>7, BuysFit
<1>. HIDE DEF buys
<1>9. buys \in Seq({p \in Proposal : p.side = "BUY" => p.ticker \in TickersOf(buys)})
  <2>1. \A i \in 1..Len(buys) : buys[i] \in {p \in Proposal : p.side = "BUY" => p.ticker \in TickersOf(buys)}
    BY <1>8 DEF Purchase, TickersOf
  <2>. QED BY <1>8, <2>1
<1>10. c \in Reached(sold, TickersOf(buys))
  BY <1>1, <1>7, <1>9, ExecutedEffect
<1>11. c \in Ledger /\ Equity(c) = Equity(sold) /\ Open(c) \subseteq Open(sold) \cup TickersOf(buys)
  BY <1>10 DEF Reached
<1>12. ASSUME Cardinality(Open(b)) <= MaxPositions
       PROVE  Cardinality(Open(c)) <= MaxPositions
  <2>1. IsFiniteSet(Open(b)) /\ Cardinality(Open(b)) \in Nat
    BY LedgerTyped, FS_CardinalityType
  <2>2. Cardinality(Open(sold)) <= Cardinality(Open(b)) /\ Cardinality(Open(sold)) \in Nat
    BY <1>7, <2>1, FS_Subset, FS_CardinalityType
  <2> DEFINE names == Open(sold) \cup TickersOf(buys)
  <2>3. names \subseteq Tickers
    BY <1>8 DEF Open, TickersOf, Purchase, Proposal
  <2>4. IsFiniteSet(names) /\ Cardinality(names) \in Nat
    BY <2>3, FS_Subset, FS_CardinalityType, Percentages
  <2>5. Cardinality(names) <= MaxPositions
    BY <1>8, <1>12, <2>1, <2>2, Percentages
  <2>. HIDE DEF names
  <2>6. Cardinality(Open(c)) <= Cardinality(names) /\ Cardinality(Open(c)) \in Nat
    BY <1>11, <2>4, FS_Subset, FS_CardinalityType DEF names
  <2>. QED BY <2>4, <2>5, <2>6, Percentages
<1>. QED BY <1>4, <1>7, <1>11, <1>12

\* A backfill books what went in and keeps the cap.
LEMMA ReplayedBook ==
  ASSUME NEW window \in SUBSET Months, NEW m, IsMarket(m), NEW book, book = Replayed(window, m)
  PROVE  /\ book \in Ledger
         /\ Equity(book) = StartCash + Allowance * Cardinality(window)
         /\ Cardinality(Open(book)) <= MaxPositions
<1> DEFINE n == Cardinality(window)
           base == [cash |-> StartCash, held |-> Nothing]
           day(b) == ReplayedDay(b, m)
           Solves(u) == u = [k \in 0..n |-> IF k = 0 THEN base ELSE day(u[k - 1])]
           u == CHOOSE u : Solves(u)
           F == [p \in Ledger \X {0} |-> day(p[1])]
           q == [i \in 1..n |-> 0]
<1>1. n \in Nat
  BY MonthsFinite
<1>2. base \in Ledger /\ Equity(base) = StartCash /\ Cardinality(Open(base)) <= MaxPositions
  <2>1. base \in Ledger /\ base.cash = StartCash /\ base.held = Nothing
    BY Constants DEF Ledger, Holdings, Nothing
  <2>. HIDE DEF base
  <2>2. Open(base) = {}
    BY <2>1 DEF Open, Nothing
  <2>3. Total(base.held, Tickers) = 0
    <3>1. Nothing \in [Tickers -> Nat] /\ \A t \in Tickers : Nothing[t] = 0
      BY DEF Nothing
    <3>. QED BY <2>1, <3>1, TotalZero, Percentages
  <2>4. Equity(base) = base.cash + Total(base.held, Tickers)
    BY <2>1, LedgerTyped
  <2>. QED BY <2>1, <2>2, <2>3, <2>4, FS_EmptySet, Percentages, Constants
<1>3. ASSUME NEW b \in Ledger
      PROVE  /\ day(b) \in Ledger /\ Equity(day(b)) = Equity(b) + Allowance
             /\ Cardinality(Open(b)) <= MaxPositions => Cardinality(Open(day(b))) <= MaxPositions
  BY ReplayedDayEffect
<1>4. book = u[n]
  BY DEF Replayed
<1>5. F \in [Ledger \X {0} -> Ledger] /\ \A b \in Ledger : F[<<b, 0>>] = day(b)
  BY <1>3
<1>6. q \in [1..n -> {0}] /\ \A i \in 1..n : q[i] = 0
  OBVIOUS
<1>. HIDE DEF base, day, F, q, n
<1>7. Solves(u)
  <2>1. Foldable(Ledger, {0}, F, n, q, base)
    BY <1>1, <1>2, <1>5, <1>6 DEF Foldable
  <2>2. PICK g : RunsFold(g, Ledger, {0}, F, n, q, base)
    BY <2>1, FoldSolved
  <2> DEFINE v == [k \in 0..n |-> g[1..k]]
  <2>3. v[0] = base
    <3>1. 1..0 = {} /\ 0 \in 0..n
      BY <1>1
    <3>. QED BY <2>2, <3>1 DEF RunsFold
  <2>4. ASSUME NEW k \in 1..n PROVE v[k] = day(v[k - 1])
    <3>1. 1..k \in SUBSET (1..n) /\ 1..k # {} /\ Max(1..k) = k /\ (1..k) \ {k} = 1..(k - 1)
      BY <1>1, LastOfInterval
    <3>2. v[k] = g[1..k] /\ v[k - 1] = g[1..(k - 1)]
      BY <1>1
    <3>. HIDE DEF v
    <3>3. g[1..k] = F[<<g[(1..k) \ {Max(1..k)}], q[Max(1..k)]>>] /\ g[(1..k) \ {Max(1..k)}] \in Ledger
      BY <2>2, <3>1 DEF RunsFold
    <3>4. g[1..k] = F[<<g[1..(k - 1)], 0>>] /\ g[1..(k - 1)] \in Ledger
      BY <1>6, <3>1, <3>3
    <3>. QED BY <1>5, <3>2, <3>4
  <2>5. v = [k \in 0..n |-> IF k = 0 THEN base ELSE day(v[k - 1])]
    <3>1. \A k \in 0..n : v[k] = IF k = 0 THEN base ELSE day(v[k - 1])
      <4>. HIDE DEF v
      <4>. QED BY <1>1, <2>3, <2>4
    <3>2. v = [k \in 0..n |-> v[k]]
      OBVIOUS
    <3>. HIDE DEF v
    <3>. QED BY <3>1, <3>2
  <2>. HIDE DEF v
  <2>6. Solves(v)
    BY <2>5
  <2>. QED BY <2>6
<1>. HIDE DEF u
<1>8. u[0] = base /\ \A k \in 1..n : u[k] = day(u[k - 1])
  <2>1. 0 \in 0..n /\ \A k \in 1..n : k \in 0..n /\ k # 0
    BY <1>1
  <2>. QED BY <1>7, <2>1
<1> DEFINE Fine(k, b) == /\ b \in Ledger /\ Equity(b) = StartCash + Allowance * k
                         /\ Cardinality(Open(b)) <= MaxPositions
           I == {k \in 0..n : Fine(k, u[k])}
<1>9. 0 \in I
  <2>1. StartCash + Allowance * 0 = StartCash
    BY Constants
  <2>. QED BY <1>1, <1>2, <1>8, <2>1
<1>10. ASSUME NEW k \in 1..n, k - 1 \in I PROVE k \in I
  <2>1. Fine(k - 1, u[k - 1]) /\ k \in 0..n
    BY <1>1, <1>10
  <2>2. Allowance * (k - 1) + Allowance = Allowance * k /\ Allowance * (k - 1) \in Int
    BY Constants
  <2>3. /\ u[k] \in Ledger /\ Equity(u[k]) = Equity(u[k - 1]) + Allowance
        /\ Cardinality(Open(u[k])) <= MaxPositions
    BY <1>3, <1>8, <2>1
  <2>4. Equity(u[k]) = StartCash + Allowance * k
    BY <2>1, <2>2, <2>3, Constants
  <2>. QED BY <2>1, <2>3, <2>4
<1>11. n \in I
  <2>. HIDE DEF I
  <2>1. \A k \in 0..n : k \in I
    BY <1>1, <1>9, <1>10, UpTo
  <2>. QED BY <1>1, <2>1
<1>. QED BY <1>4, <1>11 DEF n

-----------------------------------------------------------------------------
(* Types.                                                                  *)

LEMMA InitialsTyped ==
  /\ FreshAccount \in Row /\ NoAccount \in Row /\ NoTx \in Transaction
  /\ Nothing \in Holdings /\ [cash |-> 0, held |-> Nothing] \in Ledger
  /\ NoBench \in BenchRow /\ FreshBench \in BenchRow /\ NoDca \in Lookup
  /\ Idle \in EngineState /\ NoChat \in ChatState /\ NoHistory \in Memory
<1>1. Nothing \in Holdings /\ [cash |-> 0, held |-> Nothing] \in Ledger
  BY DEF Nothing, Holdings, Ledger
<1>2. FreshAccount \in Row /\ NoAccount \in Row
  BY Constants DEF FreshAccount, NoAccount, Row
<1>3. NoTx \in Transaction
  BY <1>2 DEF NoTx, Transaction
<1>4. Idle \in EngineState
  BY <1>1 DEF Idle, EngineState, Stages
<1>5. NoChat \in ChatState
  BY DEF NoChat, ChatState
<1>6. NoHistory \in Memory
  BY Constants, Percentages DEF NoHistory, Memory
<1>7. NoBench \in BenchRow /\ FreshBench \in BenchRow /\ NoDca \in Lookup
  BY DEF NoBench, FreshBench, NoDca, BenchRow, Lookup
<1>. QED BY <1>1, <1>2, <1>3, <1>4, <1>5, <1>6, <1>7

\* What is left of the reviews when a cycle ends before it has marked its own.
LEMMA UnfinishedTyped ==
  ASSUME TypeOK
  PROVE  Unfinished \in Seq(Weeks)
<1>1. history.reviews \in Seq(Weeks)
  BY DEF TypeOK, Memory
<1>2. CASE history.reviews = <<>>
  <2>1. Front(<<>>) = <<>>
    BY DEF Front
  <2>. QED BY <1>1, <1>2, <2>1 DEF Unfinished
<1>3. CASE history.reviews # <<>>
  BY <1>1, <1>3, WithoutLast DEF Unfinished
<1>. QED BY <1>2, <1>3

LEMMA EngineAt ==
  ASSUME NEW e \in EngineState, NEW s \in Stages
  PROVE  [e EXCEPT !.stage = s] \in EngineState
BY DEF EngineState

LEMMA EngineTail ==
  ASSUME NEW e \in EngineState, e.todo # <<>>
  PROVE  [e EXCEPT !.todo = Tail(@)] \in EngineState
<1>1. Tail(e.todo) \in Seq(Proposal)
  BY DEF EngineState
<1>. QED BY <1>1 DEF EngineState

LEMMA EngineGoesOn ==
  ASSUME NEW e \in EngineState, e.todo # <<>>, NEW names, names = e.names \/ names = {}
  PROVE  [e EXCEPT !.todo = Tail(@), !.names = names] \in EngineState
<1>1. Tail(e.todo) \in Seq(Proposal)
  BY DEF EngineState
<1>. QED BY <1>1 DEF EngineState

LEMMA TailLeft ==
  ASSUME NEW S, NEW q \in Seq(S), q # <<>>, Len(q) # 1
  PROVE  Tail(q) # <<>>
<1>1. Len(q) \in Nat /\ Len(q) # 0
  OBVIOUS
<1>2. Len(Tail(q)) = Len(q) - 1
  BY <1>1
<1>3. Len(Tail(q)) # 0
  BY <1>1, <1>2
<1>4. Tail(q) = <<>> => Len(Tail(q)) = 0
  <2>1. Len(<<>>) = 0
    OBVIOUS
  <2>. QED BY <2>1
<1>. QED BY <1>3, <1>4

LEMMA ChatNextTyped ==
  ASSUME chat \in ChatState, NEW s \in {"value", "size", "order"}, chat.todo # <<>>
  PROVE  ChatNext(s) \in ChatState
<1>1. Tail(chat.todo) \in Seq(Order)
  BY DEF ChatState
<1>2. [chat EXCEPT !.stage = s, !.todo = Tail(@)] \in ChatState
  BY <1>1 DEF ChatState
<1>. QED BY <1>2, InitialsTyped DEF ChatNext

LEMMA BeginTyped ==
  ASSUME TypeOK, NEW c \in Callers, NEW kind \in {"BUY", "SELL", "deposit"},
         NEW t \in Tickers \cup {""}, NEW size \in Nat, Begin(c, kind, t, size)
  PROVE  tx' \in [Callers -> Transaction]
<1> DEFINE x == [kind |-> kind, ticker |-> t, size |-> size, month |-> Month(week),
                 row |-> account, held |-> IF t \in Tickers THEN positions[t] ELSE 0]
<1>1. x \in Transaction
  <2>1. Month(week) \in Months
    BY MonthTyped DEF TypeOK
  <2>2. (IF t \in Tickers THEN positions[t] ELSE 0) \in Nat
    BY DEF TypeOK, Holdings
  <2>. QED BY <2>1, <2>2 DEF TypeOK, Transaction
<1>2. tx' = [tx EXCEPT ![c] = x]
  BY DEF Begin
<1>. QED BY <1>1, <1>2 DEF TypeOK

LEMMA SetCashTyped ==
  ASSUME account \in Row, NEW row \in Row, NEW cash \in Nat
  PROVE  SetCash(row, cash) \in Row /\ SetCash(row, cash).exists
BY DEF SetCash, Column, Row

-----------------------------------------------------------------------------
(* Where the callers are: who may be in which transaction, and what it may *)
(* pay.                                                                    *)

\* A review is under way, from the question to the mark.
AtReview ==
  \/ engine.stage \in {"ask", "plan", "mark"}
  \/ engine.stage \in {"trade", "add"} /\ engine.next \in {"plan", "mark"}

StageInv ==
  /\ engine.stage \notin {"idle", "deposit", "wipe", "replay"} => account.exists
  /\ dca.kind \in {"due", "deposit"} => engine.stage = "bench"
  /\ dca.kind = "backfill" => engine.stage = "replay"
  /\ dca.kind # "none" => dca.month \in Months
  /\ tx["web"].kind \in {"none", "deposit"} /\ tx["chat"].kind \in {"none", "BUY", "SELL"}
  /\ chat.stage # "idle" => chat.todo # <<>>
  /\ Busy("chat") => chat.stage = "order"
  /\ tx["engine"].kind = "deposit" => engine.stage = "deposit"
  /\ tx["engine"].kind \in {"BUY", "SELL"} => engine.stage \in {"trade", "add"} /\ engine.todo # <<>>
  /\ \A c \in Callers : tx[c].kind \in {"BUY", "SELL"} => tx[c].ticker \in Tickers
  /\ \A c \in Callers : tx[c].kind = "BUY" => tx[c].size <= tx[c].row.cash
  /\ \A c \in Callers : tx[c].kind = "deposit" => tx[c].month \in Months
  /\ engine.stage = "trade" => engine.next \in {"end", "plan"}
  /\ engine.stage = "add" => engine.next \in {"end", "mark"}
  /\ AtReview => engine.week # 0

LEMMA SoldTyped ==
  ASSUME NEW x \in Transaction
  PROVE  SoldBy(x) \in Nat /\ SoldBy(x) <= x.held
<1>1. x.size \in Nat /\ x.held \in Nat
  BY DEF Transaction
<1>2. Min({x.size, x.held}) = IF x.size <= x.held THEN x.size ELSE x.held
  BY <1>1, MinOfTwo
<1>. QED BY <1>1, <1>2 DEF SoldBy

\* Subsets of the names are finite, and a part is no larger than the whole.
LEMMA FewerNames ==
  ASSUME NEW S \in SUBSET Tickers, NEW T \in SUBSET S
  PROVE  /\ Cardinality(S) \in Nat /\ Cardinality(T) \in Nat /\ Cardinality(T) <= Cardinality(S)
         /\ IsFiniteSet(S)
<1>1. IsFiniteSet(S)
  BY FS_Subset, Percentages
<1>2. IsFiniteSet(T) /\ Cardinality(T) <= Cardinality(S)
  BY <1>1, FS_Subset
<1>. QED BY <1>1, <1>2, FS_CardinalityType

\* A trade leaves the ceiling above the cap and the names the engine counts,
\* and above what is open when it does not go by them.
LEMMA CeilingTyped ==
  ASSUME TypeOK, NEW c \in Callers, NEW open \in SUBSET Tickers, NEW top, top = Ceiling(c, open)
  PROVE  /\ top \in Nat
         /\ /\ MaxPositions <= history.ceiling /\ Cardinality(engine.names) <= history.ceiling
            => /\ MaxPositions <= top /\ Cardinality(engine.names) <= top
               /\ Cardinality(open) <= top
<1> DEFINE old == history.ceiling
           n == Cardinality(engine.names)
           k == Cardinality(open)
<1>1. old \in Nat /\ n \in Nat /\ k \in Nat /\ MaxPositions \in Nat
  BY FewerNames, Percentages DEF TypeOK, Memory, EngineState
<1>2. CASE tx[c].kind = "SELL"
  <2>1. top = Max({MaxPositions, n, k})
    BY <1>2 DEF Ceiling
  <2>. HIDE DEF n, k
  <2>2. top \in Nat /\ MaxPositions <= top /\ n <= top /\ k <= top
    BY <1>1, <2>1, LargestOfThree
  <2>. QED BY <2>2 DEF n, k
<1>3. CASE tx[c].kind # "SELL" /\ (c = "chat" \/ ~(open \subseteq engine.names))
  <2>1. top = Max({old, k})
    BY <1>3 DEF Ceiling
  <2>. HIDE DEF n, k, old
  <2>2. top \in Nat /\ old <= top /\ k <= top
    BY <1>1, <2>1, LargestOfTwo
  <2>3. MaxPositions <= old /\ n <= old => MaxPositions <= top /\ n <= top
    BY <1>1, <2>2
  <2>. QED BY <2>2, <2>3 DEF n, k, old
<1>4. CASE tx[c].kind # "SELL" /\ ~(c = "chat" \/ ~(open \subseteq engine.names))
  <2>1. top = old /\ open \subseteq engine.names
    BY <1>4 DEF Ceiling
  <2>2. k <= n
    BY <2>1, FewerNames DEF TypeOK, EngineState
  <2>. HIDE DEF n, k, old
  <2>3. n <= old => k <= old
    BY <1>1, <2>2
  <2>. QED BY <1>1, <2>1, <2>3 DEF n, k, old
<1>. QED BY <1>2, <1>3, <1>4

LEMMA TradeTyped ==
  ASSUME TypeOK, StageInv, NEW c \in Callers, TradeCommit(c)
  PROVE  TypeOK'
<1> DEFINE x == tx[c]
<1>1. x \in Transaction /\ x.kind \in {"BUY", "SELL"} /\ x.ticker \in Tickers /\ x.row \in Row
  BY DEF TypeOK, StageInv, TradeCommit, Transaction
<1>2. tx' \in [Callers -> Transaction]
  <2>1. tx' = [tx EXCEPT ![c] = NoTx] /\ tx \in [Callers -> Transaction]
    BY DEF TradeCommit, TypeOK
  <2>. QED BY <2>1, InitialsTyped
<1>3. /\ c = "engine" => engine.todo # <<>>
      /\ c = "chat" => chat.todo # <<>>
  BY <1>1 DEF StageInv, Busy
<1>4. CASE RowConflict(x)
  <2>1. /\ GiveUp(c) /\ UNCHANGED <<account, positions>>
        /\ history' = [history EXCEPT !.reviews = IF c = "engine" THEN Unfinished ELSE @]
    BY <1>4 DEF TradeCommit
  <2>2. engine' \in EngineState /\ chat' \in ChatState
    BY <2>1, InitialsTyped DEF GiveUp, TypeOK
  <2>3. UNCHANGED <<allowances, strategy, week, bench, dca, resetting, events>>
    BY DEF TradeCommit, Untraded, benchmark
  <2>4. history' \in Memory
    BY <2>1, UnfinishedTyped DEF Memory, TypeOK
  <2>. QED BY <1>2, <2>1, <2>2, <2>3, <2>4 DEF TypeOK
<1>5. CASE ~RowConflict(x)
  <2>1. /\ account' = Paid(x)
        /\ positions' = HeldAfter(x)
        /\ history' = [history EXCEPT !.raced = @ \/ Overwrites(c) \/ Displaced(c),
                                      !.ceiling = Ceiling(c, Open([Book EXCEPT !.held = HeldAfter(x)]))]
        /\ Proceed(c)
        /\ UNCHANGED <<allowances, strategy, week, bench, dca, resetting, events>>
    BY <1>5 DEF TradeCommit, Untraded, benchmark
  <2>2. account' \in Row
    <3>1. x.row.cash \in Nat /\ x.size \in Nat /\ SoldBy(x) \in Nat
      BY <1>1, SoldTyped DEF Transaction, Row
    <3>2. x.kind = "BUY" => x.row.cash - x.size \in Nat
      BY <3>1 DEF StageInv
    <3>3. (IF x.kind = "SELL" THEN x.row.cash + SoldBy(x) ELSE x.row.cash - x.size) \in Nat
      BY <1>1, <3>1, <3>2
    <3>. QED BY <1>1, <2>1, <3>3, SetCashTyped DEF Paid, TypeOK
  <2>3. positions' \in Holdings
    <3> DEFINE value == IF x.kind = "BUY" THEN x.held + x.size ELSE x.held - SoldBy(x)
    <3>1. value \in Nat
      <4>1. SoldBy(x) \in Nat /\ SoldBy(x) <= x.held
        BY <1>1, SoldTyped
      <4>2. x.held \in Nat /\ x.size \in Nat
        BY <1>1 DEF Transaction
      <4>. HIDE DEF x
      <4>. QED BY <4>1, <4>2
    <3>2. positions' = [positions EXCEPT ![x.ticker] = value] /\ positions \in Holdings
      BY <2>1 DEF TypeOK, HeldAfter
    <3>. HIDE DEF value, x
    <3>. QED BY <3>1, <3>2 DEF Holdings
  <2>4. history' \in Memory
    <3> DEFINE open == Open([Book EXCEPT !.held = HeldAfter(x)])
               top == Ceiling(c, open)
    <3>1. open \in SUBSET Tickers
      BY DEF Open
    <3>. HIDE DEF open
    <3>2. top \in Nat
      BY <1>1, <3>1, CeilingTyped
    <3>3. history' = [history EXCEPT !.raced = @ \/ Overwrites(c) \/ Displaced(c), !.ceiling = top]
      BY <2>1 DEF open
    <3>. HIDE DEF top
    <3>. QED BY <3>2, <3>3 DEF Memory, TypeOK, Overwrites, Displaced
  <2>5. engine' \in EngineState
    BY <1>3, <2>1, EngineGoesOn DEF Proceed, TypeOK
  <2>6. chat' \in ChatState
    BY <1>3, <2>1, ChatNextTyped DEF Proceed, TypeOK
  <2>7. tx' \in [Callers -> Transaction]
    BY <1>2
  <2>. QED BY <2>1, <2>2, <2>3, <2>4, <2>5, <2>6, <2>7 DEF TypeOK
<1>. QED BY <1>4, <1>5

LEMMA DepositTyped ==
  ASSUME TypeOK, StageInv, NEW c \in Callers, DepositRead(c) \/ DepositCommit(c)
  PROVE  TypeOK'
<1>1. CASE DepositRead(c)
  <2>1. Begin(c, "deposit", "", 0)
    BY <1>1 DEF DepositRead
  <2>2. tx' \in [Callers -> Transaction]
    BY <2>1, BeginTyped
  <2>. QED BY <1>1, <2>2 DEF DepositRead, TypeOK, db, Untraded, benchmark
<1>2. CASE DepositCommit(c)
  <2> DEFINE x == tx[c]
  <2>1. x \in Transaction /\ x.row \in Row /\ x.row.cash \in Nat /\ x.month \in {0} \cup Months
    BY DEF TypeOK, Transaction, Row
  <2>2. tx' \in [Callers -> Transaction]
    BY <1>2, InitialsTyped DEF DepositCommit, TypeOK
  <2>3. UNCHANGED <<positions, strategy, week, bench, dca, resetting, events>>
    BY <1>2 DEF DepositCommit, Untraded, benchmark
  <2>4. CASE DepositConflict(x)
    <3>1. GiveUp(c) /\ UNCHANGED <<account, allowances, history>>
      BY <1>2, <2>4 DEF DepositCommit
    <3>2. engine' \in EngineState /\ chat' \in ChatState
      BY <3>1, InitialsTyped DEF GiveUp, TypeOK
    <3>. QED BY <2>2, <2>3, <3>1, <3>2 DEF TypeOK
  <2>5. CASE ~DepositConflict(x)
    <3>1. /\ account' = [SetCash(x.row, x.row.cash + Allowance) EXCEPT !.month = x.month]
          /\ allowances' = allowances \cup {x.month}
          /\ history' = [history EXCEPT !.raced = @ \/ Overwrites(c) \/ Displaced(c)]
          /\ engine' = IF c = "engine" THEN [engine EXCEPT !.stage = "bench"] ELSE engine
          /\ UNCHANGED chat
      BY <1>2, <2>5 DEF DepositCommit
    <3>2. account' \in Row
      <4>1. x.row.cash + Allowance \in Nat /\ account \in Row
        BY <2>1, Constants DEF TypeOK
      <4>2. SetCash(x.row, x.row.cash + Allowance) \in Row
        BY <2>1, <4>1, SetCashTyped
      <4>. QED BY <2>1, <3>1, <4>2 DEF Row
    <3>3. allowances' \in SUBSET Months
      BY <1>2, <3>1 DEF DepositCommit, StageInv, TypeOK
    <3>4. history' \in Memory
      BY <3>1 DEF Memory, TypeOK, Overwrites, Displaced
    <3>5. engine' \in EngineState
      BY <3>1, EngineAt DEF TypeOK, Stages
    <3>. QED BY <2>2, <2>3, <3>1, <3>2, <3>3, <3>4, <3>5 DEF TypeOK
  <2>. QED BY <2>4, <2>5
<1>. QED BY <1>1, <1>2

LEMMA ProposalsTyped ==
  ASSUME TypeOK, NEW m \in Markets
  PROVE  Proposals(m) \in Seq(Proposal)
<1>1. [cash |-> engine.value.cash, held |-> positions] \in Ledger
  BY DEF TypeOK, EngineState, Ledger
<1>. QED BY <1>1, ProposeTyped, Constants DEF Proposals

LEMMA BookTyped ==
  ASSUME TypeOK
  PROVE  /\ Book \in Ledger /\ Book.cash = account.cash /\ Book.held = positions
         /\ Equity(Book) \in Nat /\ Equity(Book) = account.cash + Total(positions, Tickers)
         /\ Open(Book) \subseteq Tickers /\ IsFiniteSet(Open(Book))
<1>1. Book \in Ledger /\ Book.cash = account.cash /\ Book.held = positions
  BY DEF TypeOK, Row, Book, Ledger
<1>. HIDE DEF Book
<1>. QED BY <1>1, LedgerTyped

LEMMA AskTyped ==
  ASSUME TypeOK, Decide \/ Ask \/ Reply \/ PlanAdditions
  PROVE  engine' \in EngineState
<1>1. engine \in EngineState /\ engine.value \in [cash: Nat, equity: Nat] /\ positions \in Holdings
  BY DEF TypeOK, EngineState
<1>2. CASE Decide
  <2>1. PICK m \in Markets :
          engine' = [engine EXCEPT !.stage = "trade", !.todo = Proposals(m), !.next = "end",
                                   !.value = Idle.value]
    BY <1>2 DEF Decide
  <2>2. Proposals(m) \in Seq(Proposal)
    BY ProposalsTyped
  <2>3. Idle.value \in [cash: Nat, equity: Nat]
    BY DEF Idle
  <2>. QED BY <1>1, <2>1, <2>2, <2>3 DEF EngineState, Stages
<1>3. CASE Ask
  <2>1. PICK m \in Markets :
          engine' = [engine EXCEPT !.stage = "ask", !.week = week,
                                   !.proposals = IF strategy = "llm" THEN <<>> ELSE Proposals(m)]
    BY <1>3 DEF Ask
  <2>2. (IF strategy = "llm" THEN <<>> ELSE Proposals(m)) \in Seq(Proposal)
    BY ProposalsTyped
  <2>3. week \in {0} \cup Weeks
    BY DEF TypeOK
  <2>. QED BY <1>1, <2>1, <2>2, <2>3 DEF EngineState, Stages
<1>4. CASE Reply
  <2> DEFINE replied(decisions, own) ==
               engine' = [engine EXCEPT !.stage = "trade", !.next = "plan", !.proposals = <<>>,
                                        !.decisions = Kept(decisions, own),
                                        !.todo = Approved(engine.proposals, decisions)]
  <2>0. PICK decisions \in Replies : \E own : replied(decisions, own)
    BY <1>4 DEF Reply
  <2>1. PICK own : replied(decisions, own)
    BY <2>0
  <2>2. Kept(decisions, own) \in Seq(Answer)
    BY KeptOfSame, Constants
  <2>3. Approved(engine.proposals, decisions) \in Seq(Proposal)
    BY <1>1, ApprovedTyped DEF EngineState
  <2>4. <<>> \in Seq(Proposal)
    OBVIOUS
  <2>. QED BY <1>1, <2>1, <2>2, <2>3, <2>4 DEF EngineState, Stages
<1>5. CASE PlanAdditions
  <2> DEFINE budget == Plan(engine.decisions, {}, engine.value.cash, engine.value.equity, positions)
             wanted(d) == \/ d.action = "BUY" /\ budget[d.ticker] > 0
                          \/ d.action = "SELL" /\ strategy = "llm"
             trade(d) == Trade(d.ticker, d.action, IF d.action = "BUY" THEN budget[d.ticker] ELSE d.size)
             asked == {d \in ToSet(engine.decisions) : wanted(d)}
             chosen == Kept(engine.decisions, asked)
             todo == [i \in DOMAIN chosen |-> trade(chosen[i])]
             names == IF strategy = "llm" THEN Open(Book) ELSE {}
             next == IF strategy = "llm" THEN "end" ELSE "mark"
  <2>1. engine' = [engine EXCEPT !.stage = "add", !.names = names, !.next = next, !.todo = todo,
                                 !.value = Idle.value, !.decisions = <<>>]
    BY <1>5 DEF PlanAdditions
  <2>2. engine.decisions \in Seq(Answer)
    BY <1>1 DEF EngineState
  <2>3. budget \in Holdings
    <3>1. engine.value.cash \in Nat /\ engine.value.equity \in Nat
      BY <1>1
    <3>. QED BY <1>1, <2>2, <3>1, PlanFits
  <2>4. chosen \in Seq(Answer \cap asked)
    BY <2>2, KeptTyped
  <2>. HIDE DEF budget
  <2>5. ASSUME NEW d \in Answer \cap asked PROVE trade(d) \in Proposal
    <3>1. d.ticker \in Tickers /\ d.size \in Nat /\ d.action \in {"BUY", "SELL"}
      BY DEF Answer
    <3>2. budget[d.ticker] \in Nat
      BY <2>3, <3>1 DEF Holdings
    <3>. QED BY <3>1, <3>2 DEF Trade, Proposal
  <2>. HIDE DEF chosen, asked, trade
  <2>6. todo \in Seq(Proposal)
    <3>1. \A i \in 1..Len(chosen) : trade(chosen[i]) \in Proposal
      BY <2>4, <2>5
    <3>2. Len(chosen) \in Nat /\ DOMAIN chosen = 1..Len(chosen)
      BY <2>4
    <3>. QED BY <3>1, <3>2
  <2>7. names \in SUBSET Tickers
    BY BookTyped
  <2>8. Idle.value \in [cash: Nat, equity: Nat] /\ next \in {"idle", "plan", "mark", "end"}
    BY DEF Idle
  <2>. HIDE DEF todo, names, next
  <2>9. <<>> \in Seq(Answer)
    OBVIOUS
  <2>. QED BY <1>1, <2>1, <2>6, <2>7, <2>8, <2>9 DEF EngineState, Stages
<1>. QED BY <1>2, <1>3, <1>4, <1>5

LEMMA WindowTyped ==
  ASSUME week \in Weeks, NEW window \in Windows
  PROVE  /\ window \in SUBSET Months /\ window # {} /\ window \subseteq 1..Month(week)
         /\ Month(week) \in window \/ Month(week) - 1 \in window
<1>1. PICK first \in Since, last \in {Month(week) - 1, Month(week)} : window = first..last
  BY DEF Windows
<1>2. first \in Nat /\ first >= 1
  BY Constants
<1>3. Month(week) \in Nat /\ Month(week) >= 1 /\ Month(week) \in Months
  BY MonthTyped
<1>4. LastWeek \in Weeks
  BY Constants DEF Weeks
<1>5. Month(LastWeek) \in Nat /\ Month(week) <= Month(LastWeek)
  BY <1>3, <1>4, MonthTyped DEF Months
<1>6. window # {}
  BY DEF Windows
<1>. HIDE DEF Month
<1>. QED BY <1>1, <1>2, <1>3, <1>5, <1>6 DEF Months

\* The benchmark's deposit and its backfill.
BenchMoves ==
  \/ BenchMonth \/ (\E priced \in BOOLEAN : BenchRead(priced)) \/ BenchCommit
  \/ BenchBackfillStart \/ BenchBackfillRead \/ BenchReplace

LEMMA BenchFundedTyped ==
  ASSUME TypeOK
  PROVE  /\ BenchFunded \in SUBSET Months /\ Cardinality(BenchFunded) \in Nat
         /\ dca.row \in BenchRow /\ dca.row.month \in {0} \cup Months /\ dca.month \in {0} \cup Months
         /\ Max(BenchFunded \cup {dca.row.month}) \in {0} \cup Months
         /\ \A k \in BenchFunded : k <= Max(BenchFunded \cup {dca.row.month})
<1>1. /\ engine.window \in SUBSET Months /\ dca.row \in BenchRow /\ dca.row.month \in {0} \cup Months
      /\ dca.month \in {0} \cup Months
  BY DEF TypeOK, EngineState, Lookup, BenchRow
<1> DEFINE S == BenchFunded
           k == dca.row.month
           latest == Max(S \cup {k})
<1>2. S \in SUBSET Months
  BY <1>1, MonthsFinite DEF BenchFunded
<1>3. latest = Max(S \cup {k}) /\ k \in {0} \cup Months
  BY <1>1
<1>. HIDE DEF S, k, latest
<1>4. /\ latest \in {0} \cup Months /\ \A i \in S \cup {k} : i <= latest
  BY <1>2, <1>3, LatestMonth
<1>5. Cardinality(S) \in Nat
  BY <1>2, MonthsFinite
<1>. QED BY <1>1, <1>2, <1>4, <1>5 DEF S, k, latest

LEMMA BenchTyped ==
  ASSUME TypeOK, StageInv, BenchMoves
  PROVE  TypeOK'
<1>1. /\ engine \in EngineState /\ history \in Memory /\ bench \in BenchRow /\ dca \in Lookup
      /\ Month(week) \in Months /\ dca.month \in {0} \cup Months /\ dca.row \in BenchRow
  BY MonthTyped DEF TypeOK, Lookup
<1>2. CASE BenchMonth
  <2>1. dca' \in Lookup
    BY <1>1, <1>2 DEF BenchMonth, Lookup
  <2>. QED BY <1>2, <2>1 DEF BenchMonth, TypeOK, db, Rest
<1>3. ASSUME NEW priced \in BOOLEAN, BenchRead(priced) PROVE TypeOK'
  <2>1. dca' \in Lookup
    BY <1>1, <1>3, InitialsTyped DEF BenchRead, Lookup
  <2>2. engine' \in EngineState
    BY <1>1, <1>3, EngineAt DEF BenchRead, Stages
  <2>. QED BY <1>3, <2>1, <2>2 DEF BenchRead, TypeOK, db, Rest
<1>4. CASE BenchCommit
  <2>1. dca' \in Lookup /\ engine' \in EngineState
    BY <1>1, <1>4, InitialsTyped, EngineAt DEF BenchCommit, Stages
  <2>2. bench' \in BenchRow
    <3>1. bench' = bench \/ bench' = BenchPaid
      BY <1>4 DEF BenchCommit
    <3>2. BenchPaid \in BenchRow
      BY <1>1, Constants DEF BenchPaid, BenchRow
    <3>. QED BY <1>1, <3>1, <3>2
  <2>3. history' \in Memory
    <3>1. CASE UNCHANGED history
      BY <1>1, <3>1
    <3>2. CASE history' = [history EXCEPT !.funded = @ \cup {dca.month}, !.benchRaced = @ \/ bench # dca.row]
      <4>1. dca.month \in Months
        BY <1>4 DEF BenchCommit, StageInv
      <4>. QED BY <1>1, <3>2, <4>1 DEF Memory
    <3>. QED BY <1>4, <3>1, <3>2 DEF BenchCommit
  <2>. QED BY <1>4, <2>1, <2>2, <2>3 DEF BenchCommit, TypeOK, db, Rest
<1>5. CASE BenchBackfillStart
  <2>1. PICK window \in Windows : engine' = [Idle EXCEPT !.stage = "replay", !.window = window]
    BY <1>5 DEF BenchBackfillStart
  <2>2. window \in SUBSET Months
    BY WindowTyped DEF TypeOK
  <2>3. engine' \in EngineState
    BY <2>1, <2>2, InitialsTyped DEF EngineState, Stages
  <2>4. events' \in 0..MaxEvents
    BY <1>5, Constants DEF BenchBackfillStart, TypeOK
  <2>. QED BY <1>5, <2>3, <2>4 DEF BenchBackfillStart, TypeOK, db, benchmark
<1>6. CASE BenchBackfillRead
  <2>1. dca' \in Lookup
    BY <1>1, <1>6 DEF BenchBackfillRead, Lookup
  <2>. QED BY <1>6, <2>1 DEF BenchBackfillRead, TypeOK, db, Rest
<1>7. CASE BenchReplace
  <2>1. dca' \in Lookup /\ engine' \in EngineState
    BY <1>7, InitialsTyped DEF BenchReplace
  <2>2. bench' \in BenchRow
    <3>1. Allowance * Cardinality(BenchFunded) \in Nat
      BY BenchFundedTyped, Constants
    <3>. QED BY <1>7, <3>1, BenchFundedTyped DEF BenchReplace, BenchRow
  <2>3. history' \in Memory
    BY <1>1, <1>7, BenchFundedTyped DEF BenchReplace, Memory
  <2>. QED BY <1>7, <2>1, <2>2, <2>3 DEF BenchReplace, TypeOK, db, Rest
<1>. QED BY <1>2, <1>3, <1>4, <1>5, <1>6, <1>7 DEF BenchMoves

LEMMA CycleTyped ==
  ASSUME TypeOK, StageInv, CycleStart \/ EngineStep
  PROVE  TypeOK'
<1>1. CASE CycleStart
  <2>1. engine' \in EngineState
    BY <1>1, InitialsTyped, EngineAt DEF CycleStart, Stages
  <2>. QED BY <1>1, <2>1 DEF CycleStart, TypeOK, db, benchmark, Rest
<1>2. CASE NothingToDeposit
  <2>1. engine' \in EngineState
    BY <1>2, EngineAt DEF NothingToDeposit, Stages, TypeOK
  <2>. QED BY <1>2, <2>1 DEF NothingToDeposit, TypeOK, db, benchmark, Rest
<1>3. CASE BenchMonth \/ (\E priced \in BOOLEAN : BenchRead(priced)) \/ BenchCommit
  BY <1>3, BenchTyped DEF BenchMoves
<1>4. CASE Valuate
  <2>1. account.cash \in Nat /\ Equity(Book) \in Nat
    BY BookTyped DEF TypeOK, Row
  <2>2. engine' \in EngineState
    BY <1>4, <2>1 DEF Valuate, Stages, TypeOK, EngineState
  <2>. QED BY <1>4, <2>2 DEF Valuate, TypeOK, db, benchmark, Rest
<1>5. CASE Decide \/ Ask \/ Reply \/ PlanAdditions
  <2>1. engine' \in EngineState
    BY <1>5, AskTyped
  <2>2. UNCHANGED <<db, benchmark, tx, Rest>>
    BY <1>5 DEF Decide, Ask, Reply, PlanAdditions
  <2>3. history' \in Memory
    <3>1. CASE Ask
      <4>1. history' = [history EXCEPT !.reviews = IF strategy = "hybrid" THEN Append(@, week) ELSE @]
        BY <3>1 DEF Ask
      <4>2. history.reviews \in Seq(Weeks) /\ week \in Weeks /\ history \in Memory
        BY DEF TypeOK, Memory
      <4>3. (IF strategy = "hybrid" THEN Append(history.reviews, week) ELSE history.reviews) \in Seq(Weeks)
        BY <4>2
      <4>. QED BY <4>1, <4>2, <4>3 DEF Memory
    <3>2. CASE ~Ask
      BY <1>5, <3>2 DEF Decide, Reply, PlanAdditions, TypeOK
    <3>. QED BY <3>1, <3>2
  <2>. QED BY <2>1, <2>2, <2>3 DEF TypeOK, db, benchmark, Rest
<1>6. CASE TradeRead
  <2> DEFINE p == Head(engine.todo)
  <2>1. p \in Proposal /\ engine \in EngineState
    BY <1>6 DEF TradeRead, TypeOK, EngineState
  <2>2. /\ tx' \in [Callers -> Transaction]
        /\ engine' \in EngineState
    <3>1. CASE Executable(p)
      <4>1. Begin("engine", p.side, p.ticker, p.budget)
        BY <1>6, <3>1 DEF TradeRead
      <4>2. p.side \in {"BUY", "SELL", "deposit"} /\ p.ticker \in Tickers /\ p.budget \in Nat
        BY <2>1 DEF Proposal
      <4>3. engine' = [engine EXCEPT !.names = Counted(p)]
        BY <1>6, <3>1 DEF TradeRead
      <4>. HIDE DEF p
      <4>4. Counted(p) \in SUBSET Tickers
        BY <2>1, <4>2 DEF Counted, Open, EngineState
      <4>5. engine' \in EngineState
        BY <2>1, <4>3, <4>4 DEF EngineState
      <4>. QED BY <4>1, <4>2, <4>5, BeginTyped DEF Callers
    <3>2. CASE ~Executable(p)
      <4>1. engine' = [engine EXCEPT !.todo = Tail(@)] /\ UNCHANGED tx /\ engine.todo # <<>>
        BY <1>6, <3>2 DEF TradeRead
      <4>. QED BY <2>1, <4>1, EngineTail DEF TypeOK
    <3>. QED BY <3>1, <3>2
  <2>. QED BY <1>6, <2>2 DEF TradeRead, TypeOK, db, benchmark, Rest
<1>7. CASE Traded
  <2>1. engine' \in EngineState
    BY <1>7 DEF Traded, Stages, TypeOK, EngineState
  <2>. QED BY <1>7, <2>1 DEF Traded, TypeOK, db, benchmark, Rest
<1>8. CASE MarkReviewed
  <2>1. engine' \in EngineState
    BY <1>8, EngineAt DEF MarkReviewed, Stages, TypeOK
  <2>2. engine.week \in Weeks
    BY <1>8 DEF MarkReviewed, TypeOK, EngineState, StageInv, AtReview
  <2>3. account' \in Row
    BY <1>8, <2>2 DEF MarkReviewed, TypeOK, Row
  <2>. QED BY <1>8, <2>1, <2>3 DEF MarkReviewed, TypeOK, benchmark, Rest
<1>9. CASE CycleEnd
  <2>1. engine' \in EngineState
    BY <1>9, InitialsTyped DEF CycleEnd
  <2>2. bench' \in BenchRow
    BY <1>9 DEF CycleEnd, BenchOpened, TypeOK, BenchRow
  <2>. QED BY <1>9, <2>1, <2>2 DEF CycleEnd, TypeOK, db, Rest
<1>. QED BY <1>1, <1>2, <1>3, <1>4, <1>5, <1>6, <1>7, <1>8, <1>9, TradeTyped, DepositTyped
     DEF EngineStep, Callers

LEMMA FundedTyped ==
  ASSUME TypeOK
  PROVE  /\ Funded \in SUBSET Months /\ MarkerAfter \in {0} \cup Months
         /\ MarkerAfter \in Funded \cup {engine.live}
         /\ \A k \in Funded \cup {engine.live} : k <= MarkerAfter
         /\ Cardinality(Funded \ engine.window) \in Nat /\ Cardinality(engine.window) \in Nat
<1>1. /\ engine.window \in SUBSET Months /\ engine.live \in {0} \cup Months
      /\ Month(week) \in Months
  BY MonthTyped DEF TypeOK, EngineState
<1>2. Funded \in SUBSET Months
  BY <1>1 DEF Funded
<1>3. /\ MarkerAfter \in {0} \cup Months /\ MarkerAfter \in Funded \cup {engine.live}
      /\ \A k \in Funded \cup {engine.live} : k <= MarkerAfter
  <2> DEFINE S == Funded
             k == engine.live
             latest == MarkerAfter
  <2>1. latest = Max(S \cup {k})
    BY DEF MarkerAfter
  <2>2. S \in SUBSET Months /\ k \in {0} \cup Months
    BY <1>1, <1>2
  <2>. HIDE DEF S, k, latest
  <2>3. /\ latest \in S \cup {k} /\ latest \in {0} \cup Months
        /\ \A i \in S \cup {k} : i <= latest
    BY <2>1, <2>2, LatestMonth
  <2>. QED BY <2>3 DEF S, k, latest
<1>4. Cardinality(Funded \ engine.window) \in Nat /\ Cardinality(engine.window) \in Nat
  BY <1>1, <1>2, MonthsFinite
<1>. QED BY <1>2, <1>3, <1>4

LEMMA BackfillTyped ==
  ASSUME TypeOK, StageInv, Backfill
  PROVE  TypeOK'
<1>1. CASE BackfillStart
  <2>1. PICK window \in Windows, m \in Markets :
          engine' = [Idle EXCEPT !.stage = "wipe", !.window = window, !.book = Replayed(window, m)]
    BY <1>1 DEF BackfillStart
  <2>2. window \in SUBSET Months
    BY WindowTyped DEF TypeOK
  <2>3. Replayed(window, m) \in Ledger
    BY <2>2, ReplayedBook, Constants
  <2>4. Idle \in EngineState
    BY InitialsTyped
  <2>5. engine' \in EngineState
    <3>. HIDE DEF Replayed, Idle
    <3>. QED BY <2>1, <2>2, <2>3, <2>4 DEF EngineState, Stages
  <2>6. events' \in 0..MaxEvents
    BY <1>1, Constants DEF BackfillStart, TypeOK
  <2>. QED BY <1>1, <2>5, <2>6 DEF BackfillStart, TypeOK, db, benchmark
<1>2. CASE Wipe
  <2>1. engine' \in EngineState
    BY <1>2 DEF Wipe, TypeOK, EngineState, Stages, Row
  <2>2. account' \in Row
    BY <1>2, InitialsTyped DEF Wipe, Row
  <2>3. history' \in Memory
    <3>1. <<>> \in Seq(Weeks)
      OBVIOUS
    <3>. QED BY <1>2, <3>1, Percentages DEF Wipe, TypeOK, Memory
  <2>4. positions' \in Holdings
    BY <1>2, InitialsTyped DEF Wipe
  <2>. QED BY <1>2, <2>1, <2>2, <2>3, <2>4 DEF Wipe, TypeOK, benchmark, Rest
<1>3. CASE Persist
  <2>1. engine' \in EngineState
    BY <1>3, InitialsTyped DEF Persist
  <2>2. UNCHANGED <<benchmark, tx, Rest>>
    BY <1>3 DEF Persist
  <2>3. CASE UNCHANGED <<db, history>>
    BY <2>1, <2>2, <2>3 DEF TypeOK, db, benchmark, Rest
  <2>4. CASE ~UNCHANGED <<db, history>>
    <3>1. /\ account' = [account EXCEPT
               !.cash = engine.book.cash + Allowance * Cardinality(Funded \ engine.window),
               !.month = MarkerAfter]
          /\ positions' = [t \in Tickers |-> positions[t] + engine.book.held[t]]
          /\ allowances' = allowances \cup Funded
          /\ history' = [history EXCEPT !.base = StartCash,
                                        !.ceiling = Max({@, MaxPositions + Cardinality(Open(Book))})]
      BY <1>3, <2>4 DEF Persist
    <3>2. engine.book \in Ledger
      BY DEF TypeOK, EngineState
    <3>3. positions' \in Holdings
      BY <3>1, <3>2 DEF TypeOK, Ledger, Holdings
    <3>4. account' \in Row
      <4>1. engine.book.cash \in Nat /\ Cardinality(Funded \ engine.window) \in Nat
        BY <3>2, FundedTyped DEF Ledger
      <4>2. engine.book.cash + Allowance * Cardinality(Funded \ engine.window) \in Nat
        BY <4>1, Constants
      <4>. QED BY <3>1, <4>2, FundedTyped DEF TypeOK, Row
    <3>5. allowances' \in SUBSET Months
      BY <3>1, FundedTyped DEF TypeOK
    <3>6. history' \in Memory
      <4> DEFINE top == Max({history.ceiling, MaxPositions + Cardinality(Open(Book))})
      <4>1. history.ceiling \in Nat /\ MaxPositions + Cardinality(Open(Book)) \in Nat
        BY BookTyped, FewerNames, Percentages DEF TypeOK, Memory
      <4>2. top \in Nat
        BY <4>1, LargestOfTwo
      <4>3. history' = [history EXCEPT !.base = StartCash, !.ceiling = top]
        BY <3>1
      <4>. HIDE DEF top
      <4>. QED BY <4>2, <4>3, Constants DEF TypeOK, Memory
    <3>. QED BY <2>1, <2>2, <3>3, <3>4, <3>5, <3>6 DEF TypeOK, benchmark, Rest
  <2>. QED BY <2>3, <2>4
<1>. QED BY <1>1, <1>2, <1>3, BenchTyped DEF Backfill, BenchMoves

LEMMA ChatTyped ==
  ASSUME TypeOK, StageInv, Chat
  PROVE  TypeOK'
<1>1. CASE ChatTurn
  <2>1. PICK actions \in ChatReplies : chat' = [NoChat EXCEPT !.stage = "value", !.todo = actions]
    BY <1>1 DEF ChatTurn
  <2>2. actions \in Seq(Order)
    BY Constants
  <2>3. chat' \in ChatState
    BY <2>1, <2>2, InitialsTyped DEF ChatState
  <2>4. events' \in 0..MaxEvents
    BY <1>1, Constants DEF ChatTurn, TypeOK
  <2>. QED BY <1>1, <2>3, <2>4 DEF ChatTurn, TypeOK, db, ChatRest, benchmark
<1>2. CASE ChatValuate
  <2>1. account' \in Row
    BY <1>2 DEF ChatValuate, TypeOK, Row
  <2>2. chat' \in ChatState
    BY <1>2, BookTyped DEF ChatValuate, TypeOK, ChatState
  <2>. QED BY <1>2, <2>1, <2>2 DEF ChatValuate, TypeOK, ChatRest, benchmark
<1>3. CASE ChatSize
  <2> DEFINE order == Head(chat.todo)
  <2>1. chat.todo # <<>> /\ chat \in ChatState
    BY <1>3 DEF ChatSize, StageInv, TypeOK
  <2>2. order \in Order
    BY <2>1 DEF ChatState
  <2>3. order.ticker \in Tickers /\ order.size \in Nat /\ order.action \in {"BUY", "SELL"}
    BY <2>2 DEF Order
  <2>. HIDE DEF order
  <2>4. ChatBudget(order) \in Int
    <3>1. /\ MinCash(chat.equity) \in Nat /\ MaxValue(chat.equity) \in Nat
          /\ account.cash \in Nat /\ positions[order.ticker] \in Nat
      BY <2>1, <2>3, LimitsTyped DEF ChatState, TypeOK, Row, Holdings
    <3> DEFINE floor == IF order.reserve THEN 0 ELSE MinCash(chat.equity)
               a == account.cash - floor
               b == MaxValue(chat.equity) - positions[order.ticker]
    <3>2. a \in Int /\ b \in Int
      BY <3>1
    <3>3. ChatBudget(order) = IF order.size = 0 THEN Min({a, b}) ELSE Min({Min({a, b}), order.size})
      BY DEF ChatBudget
    <3>. HIDE DEF a, b
    <3>4. Min({a, b}) \in Int
      BY <3>2, MinOfTwo
    <3>5. Min({Min({a, b}), order.size}) \in Int
      <4> DEFINE r == Min({a, b})
      <4>1. r \in Int /\ order.size \in Int
        BY <2>3, <3>4
      <4>. HIDE DEF r
      <4>2. Min({r, order.size}) \in Int
        BY <4>1, MinOfTwo
      <4>. QED BY <4>2 DEF r
    <3>. QED BY <3>3, <3>4, <3>5
  <2>5. chat' \in ChatState
    <3>1. CASE order.action = "BUY" /\ ChatBudget(order) < 1
      <4>1. chat' = ChatNext("size")
        BY <1>3, <3>1 DEF ChatSize, order
      <4>. QED BY <2>1, <4>1, ChatNextTyped
    <3>2. CASE ~(order.action = "BUY" /\ ChatBudget(order) < 1)
      <4> DEFINE budget == IF order.action = "BUY" THEN ChatBudget(order) ELSE order.size
      <4>1. chat' = [chat EXCEPT !.stage = "order", !.budget = budget]
        BY <1>3, <3>2 DEF ChatSize, order
      <4>2. budget \in Nat
        BY <2>3, <2>4, <3>2
      <4>. HIDE DEF budget
      <4>. QED BY <2>1, <4>1, <4>2 DEF ChatState
    <3>. QED BY <3>1, <3>2
  <2>. QED BY <1>3, <2>5 DEF ChatSize, TypeOK, db, ChatRest, benchmark
<1>4. CASE ChatOrder
  <2> DEFINE order == Head(chat.todo)
  <2>1. chat.todo # <<>> /\ chat \in ChatState
    BY <1>4 DEF ChatOrder, StageInv, TypeOK
  <2>2. order \in Order
    BY <2>1 DEF ChatState
  <2>3. order.ticker \in Tickers /\ order.action \in {"BUY", "SELL"} /\ chat.budget \in Nat
    BY <2>1, <2>2 DEF Order, ChatState
  <2>4. \/ chat' = ChatNext("size") /\ UNCHANGED tx
        \/ Begin("chat", order.action, order.ticker, chat.budget) /\ UNCHANGED chat
    BY <1>4 DEF ChatOrder
  <2>. HIDE DEF order
  <2>5. chat' \in ChatState
    BY <2>1, <2>4, ChatNextTyped
  <2>6. tx' \in [Callers -> Transaction]
    <3>1. CASE UNCHANGED tx
      BY <3>1 DEF TypeOK
    <3>2. CASE Begin("chat", order.action, order.ticker, chat.budget)
      BY <2>3, <3>2, BeginTyped DEF Callers
    <3>. QED BY <2>4, <3>1, <3>2
  <2>. QED BY <1>4, <2>5, <2>6 DEF ChatOrder, TypeOK, db, ChatRest, benchmark
<1>. QED BY <1>1, <1>2, <1>3, <1>4, TradeTyped DEF Chat, Callers

LEMMA OtherTyped ==
  ASSUME TypeOK, Reset \/ ResetBench \/ BenchView \/ Tick \/ Crash \/ Fail
  PROVE  TypeOK'
<1>1. CASE Reset
  <2>1. history' \in Memory
    <3> DEFINE reviews == IF Reviewing THEN <<engine.week>> ELSE <<>>
               top == Max({MaxPositions, Cardinality(engine.names)})
    <3>1. history' = [history EXCEPT !.base = StartCash, !.raced = FALSE, !.late = @ /\ Backfilling,
                                     !.reviews = reviews, !.ceiling = top]
      BY <1>1 DEF Reset
    <3>2. reviews \in Seq(Weeks)
      <4>1. Reviewing => engine.week \in Weeks
        BY DEF Reviewing, TypeOK, EngineState
      <4>. QED BY <4>1
    <3>3. top \in Nat
      <4>1. MaxPositions \in Nat /\ Cardinality(engine.names) \in Nat
        BY FewerNames, Percentages DEF TypeOK, EngineState
      <4>. QED BY <4>1, LargestOfTwo
    <3>4. (history.late /\ Backfilling) \in BOOLEAN
      BY DEF TypeOK, Memory, Backfilling
    <3>. HIDE DEF reviews, top
    <3>. QED BY <3>1, <3>2, <3>3, <3>4, Constants DEF TypeOK, Memory
  <2>2. events' \in 0..MaxEvents
    BY <1>1, Constants DEF Reset, TypeOK
  <2>. QED BY <1>1, <2>1, <2>2, InitialsTyped DEF Reset, TypeOK, benchmark
<1>2. CASE ResetBench
  <2>1. history' \in Memory
    BY <1>2 DEF ResetBench, TypeOK, Memory
  <2>. QED BY <1>2, <2>1, InitialsTyped DEF ResetBench, TypeOK, db
<1>3. CASE BenchView
  <2>1. bench' \in BenchRow
    BY <1>3 DEF BenchView, BenchOpened, TypeOK, BenchRow
  <2>. QED BY <1>3, <2>1 DEF BenchView, TypeOK, db
<1>4. CASE Tick
  <2>1. history' \in Memory
    BY <1>4 DEF Tick, TypeOK, Memory, Backfilling
  <2>2. week' \in Weeks
    BY <1>4, Constants DEF Tick, TypeOK, Weeks
  <2>. QED BY <1>4, <2>1, <2>2 DEF Tick, TypeOK, db, benchmark
<1>5. CASE Crash \/ Fail
  <2>1. events' \in 0..MaxEvents
    BY <1>5, Constants DEF Crash, Fail, TypeOK
  <2>2. history' \in Memory
    BY <1>5, UnfinishedTyped DEF Crash, Fail, TypeOK, Memory
  <2>3. tx' \in [Callers -> Transaction] /\ chat' \in ChatState
    BY <1>5, InitialsTyped DEF Crash, Fail, TypeOK
  <2>. QED BY <1>5, <2>1, <2>2, <2>3, InitialsTyped DEF Crash, Fail, TypeOK, db
<1>. QED BY <1>1, <1>2, <1>3, <1>4, <1>5

LEMMA TypeStep ==
  ASSUME TypeOK, StageInv, [Next]_vars
  PROVE  TypeOK'
<1>1. CASE UNCHANGED vars
  BY <1>1 DEF TypeOK, vars, db, benchmark
<1>2. CASE DepositRead("web") \/ DepositCommit("web")
  BY <1>2, DepositTyped DEF Callers
<1>. QED BY <1>1, <1>2, CycleTyped, BackfillTyped, ChatTyped, OtherTyped DEF Next

\* While the engine is between two trades, its transaction is done.
EngineOnly ==
  /\ UNCHANGED <<account, tx, chat>>
  /\ tx["engine"].kind = "none"
  /\ engine'.stage \notin {"idle", "deposit", "wipe", "replay"} => account.exists
  /\ dca'.kind \in {"due", "deposit"} => engine'.stage = "bench"
  /\ dca'.kind = "backfill" => engine'.stage = "replay"
  /\ dca'.kind # "none" => dca'.month \in Months
  /\ engine'.stage = "trade" => engine'.next \in {"end", "plan"}
  /\ engine'.stage = "add" => engine'.next \in {"end", "mark"}
  /\ AtReview' => engine'.week # 0

LEMMA EngineOnlyStays ==
  ASSUME StageInv, EngineOnly
  PROVE  StageInv'
BY DEF StageInv, EngineOnly, Busy

LEMMA StageOfCycle ==
  ASSUME TypeOK, StageInv,
         \/ CycleStart \/ NothingToDeposit
         \/ Valuate \/ Decide \/ Ask \/ Reply \/ PlanAdditions \/ Traded \/ CycleEnd \/ BackfillStart
  PROVE  StageInv'
<1>1. /\ engine \in EngineState /\ tx["engine"].kind \in {"none", "BUY", "SELL", "deposit"}
      /\ dca.kind \in {"none", "due", "deposit", "backfill"}
  BY DEF TypeOK, Transaction, Callers, Lookup
<1>7. engine.stage \notin {"bench", "replay"} /\ dca' = dca /\ dca.kind = "none"
  BY <1>1 DEF CycleStart, NothingToDeposit, Valuate, Decide, Ask, Reply, PlanAdditions, Traded, CycleEnd,
              BackfillStart, benchmark, StageInv
<1>2. CASE CycleStart \/ CycleEnd \/ BackfillStart
  <2>1. /\ UNCHANGED <<account, tx, chat>> /\ engine.stage \in {"idle", "end"}
        /\ engine'.stage \in {"idle", "deposit", "wipe"}
    <3>1. CASE CycleStart \/ CycleEnd
      BY <3>1 DEF CycleStart, CycleEnd, db, Rest, Idle
    <3>2. CASE BackfillStart
      <4>1. PICK window \in Windows, m \in Markets :
              engine' = [Idle EXCEPT !.stage = "wipe", !.window = window, !.book = Replayed(window, m)]
        BY <3>2 DEF BackfillStart
      <4>2. engine'.stage = "wipe"
        BY <4>1 DEF Idle
      <4>. QED BY <3>2, <4>2 DEF BackfillStart, db, Rest
    <3>. QED BY <1>2, <3>1, <3>2
  <2>2. tx["engine"].kind = "none"
    BY <1>1, <2>1 DEF StageInv
  <2>3. EngineOnly
    BY <1>7, <2>1, <2>2 DEF EngineOnly, AtReview
  <2>. QED BY <2>3, EngineOnlyStays
<1>3. CASE NothingToDeposit \/ Valuate
  <2>1. /\ UNCHANGED <<account, tx, chat>> /\ engine.stage \in {"deposit", "value"}
        /\ engine'.stage \in {"bench", "decide"}
        /\ engine.stage = "deposit" => Deposited /\ ~Busy("engine")
    BY <1>1, <1>3 DEF NothingToDeposit, Valuate, db, Rest, EngineState
  <2>2. tx["engine"].kind = "none"
    BY <1>1, <2>1 DEF StageInv, Busy
  <2>3. account.exists
    BY <2>1 DEF StageInv, Deposited
  <2>4. EngineOnly
    BY <1>7, <2>1, <2>2, <2>3 DEF EngineOnly, AtReview
  <2>. QED BY <2>4, EngineOnlyStays
<1>4. CASE Decide \/ Ask
  <2>1. week # 0
    BY DEF TypeOK, Weeks
  <2>2. CASE Decide
    BY ZenonT(30), <1>1, <1>7, <2>1, <2>2, EngineOnlyStays
    DEF Decide, EngineOnly, StageInv, db, Rest, AtReview, EngineState
  <2>3. CASE Ask
    BY <1>1, <1>7, <2>1, <2>3, EngineOnlyStays
    DEF Ask, EngineOnly, StageInv, db, Rest, AtReview, EngineState
  <2>. QED BY <1>4, <2>2, <2>3
<1>5. CASE Reply \/ PlanAdditions
  BY ZenonT(30), <1>1, <1>7, <1>5, EngineOnlyStays
  DEF Reply, PlanAdditions, EngineOnly, StageInv, db, Rest, AtReview, EngineState
<1>6. CASE Traded
  BY <1>1, <1>7, <1>6, EngineOnlyStays
  DEF Traded, EngineOnly, StageInv, db, Rest, AtReview, EngineState
<1>. QED BY <1>2, <1>3, <1>4, <1>5, <1>6

\* A caller that lets go of its transaction.
Freed(c) ==
  /\ tx' = [tx EXCEPT ![c] = NoTx] /\ UNCHANGED dca
  /\ account.exists => account'.exists
  /\ \/ GiveUp(c)
     \/ Proceed(c)
     \/ /\ c # "chat" /\ account'.exists
        /\ engine' = IF c = "engine" THEN [engine EXCEPT !.stage = "bench"] ELSE engine
        /\ UNCHANGED chat

LEMMA FreedStays ==
  ASSUME TypeOK, StageInv, NEW c \in Callers, Freed(c), Busy(c)
  PROVE  StageInv'
<1>1. /\ engine \in EngineState /\ chat \in ChatState
      /\ tx \in [Callers -> Transaction] /\ "engine" \in Callers /\ "chat" \in Callers /\ "web" \in Callers
  BY DEF TypeOK, Callers
<1>2. /\ \A d \in Callers : tx'[d] = IF d = c THEN NoTx ELSE tx[d]
      /\ NoTx.kind = "none"
  BY <1>1 DEF Freed, NoTx
<1>3. /\ tx'["web"].kind \in {"none", "deposit"} /\ tx'["chat"].kind \in {"none", "BUY", "SELL"}
      /\ \A d \in Callers : /\ tx'[d].kind \in {"BUY", "SELL"} => tx'[d].ticker \in Tickers
                            /\ tx'[d].kind = "BUY" => tx'[d].size <= tx'[d].row.cash
                            /\ tx'[d].kind = "deposit" => tx'[d].month \in Months
  BY <1>1, <1>2 DEF StageInv
<1>4. /\ chat'.stage # "idle" => chat'.todo # <<>>
      /\ Busy("chat")' => chat'.stage = "order"
  <2>1. CASE c # "chat"
    <3>1. UNCHANGED chat /\ tx'["chat"] = tx["chat"]
      BY <1>1, <1>2, <2>1 DEF Freed, GiveUp, Proceed
    <3>. QED BY <3>1 DEF StageInv, Busy
  <2>2. CASE c = "chat"
    <3>1. ~Busy("chat")'
      BY <1>1, <1>2, <2>2 DEF Busy
    <3>2. chat.todo # <<>>
      BY <2>2 DEF StageInv, Busy
    <3>3. CASE chat' = NoChat
      BY <3>1, <3>3 DEF NoChat
    <3>4. CASE Len(chat.todo) # 1 /\ chat' = [chat EXCEPT !.stage = "value", !.todo = Tail(@)]
      <4>1. chat'.todo = Tail(chat.todo) /\ chat.todo \in Seq(Order)
        BY <1>1, <3>4 DEF ChatState
      <4>2. Tail(chat.todo) # <<>>
        BY <3>2, <3>4, <4>1, TailLeft
      <4>. QED BY <3>1, <4>1, <4>2
    <3>. QED BY <2>2, <3>3, <3>4 DEF Freed, GiveUp, Proceed, ChatNext
  <2>. QED BY <2>1, <2>2
<1>5. CASE c = "engine"
  <2>1. tx'["engine"].kind = "none"
    BY <1>1, <1>2, <1>5
  <2>2. engine.stage \in {"deposit", "trade", "add"}
    BY <1>1, <1>5 DEF StageInv, Busy, TypeOK, Transaction
  <2>6. dca'.kind = "none"
    BY <2>2 DEF Freed, StageInv, TypeOK, Lookup
  <2>3. CASE engine' = Idle
    BY <1>3, <1>4, <2>1, <2>6, <2>3 DEF StageInv, Idle, AtReview
  <2>4. CASE engine' = [engine EXCEPT !.todo = Tail(@),
                                      !.names = IF engine.stage = "trade" THEN {} ELSE @]
    <3>1. engine'.stage = engine.stage /\ engine'.next = engine.next /\ engine'.week = engine.week
      BY <1>1, <2>4 DEF EngineState
    <3>2. AtReview' <=> AtReview
      BY <3>1 DEF AtReview
    <3>. QED BY <1>3, <1>4, <2>1, <2>6, <3>1, <3>2 DEF StageInv, Freed
  <2>5. CASE engine' = [engine EXCEPT !.stage = "bench"] /\ account'.exists
    <3>1. engine'.stage = "bench"
      BY <1>1, <2>5 DEF EngineState
    <3>. QED BY <1>3, <1>4, <2>1, <2>5, <2>6, <3>1 DEF StageInv, AtReview
  <2>. QED BY <1>5, <2>3, <2>4, <2>5 DEF Freed, GiveUp, Proceed
<1>6. CASE c # "engine"
  <2>1. UNCHANGED engine /\ tx'["engine"] = tx["engine"]
    BY <1>1, <1>2, <1>6 DEF Freed, GiveUp, Proceed
  <2>. QED BY <1>3, <1>4, <2>1 DEF StageInv, AtReview, Freed
<1>. QED BY <1>5, <1>6

\* A caller that begins one.
Begins(c, kind, t, size) ==
  /\ Begin(c, kind, t, size) /\ UNCHANGED <<account, chat, dca>>
  /\ engine' = engine \/ (c = "engine" /\ \E names : engine' = [engine EXCEPT !.names = names])
  /\ kind = "deposit" => c = "web" \/ (c = "engine" /\ engine.stage = "deposit")
  /\ kind # "deposit" => /\ t \in Tickers
                         /\ c = "engine" => engine.stage \in {"trade", "add"} /\ engine.todo # <<>>
                         /\ c = "chat" => chat.stage = "order"
                         /\ c # "web" /\ (kind = "BUY" => size <= account.cash)

LEMMA BegunStays ==
  ASSUME TypeOK, StageInv, NEW c \in Callers, NEW kind \in {"BUY", "SELL", "deposit"},
         NEW t \in Tickers \cup {""}, NEW size \in Nat, Begins(c, kind, t, size)
  PROVE  StageInv'
<1>. USE DEF Begins
<1>1. tx \in [Callers -> Transaction] /\ "engine" \in Callers /\ "chat" \in Callers /\ "web" \in Callers
  BY DEF TypeOK, Callers
<1> DEFINE x == [kind |-> kind, ticker |-> t, size |-> size, month |-> Month(week),
                 row |-> account, held |-> IF t \in Tickers THEN positions[t] ELSE 0]
<1>2. \A d \in Callers : tx'[d] = IF d = c THEN x ELSE tx[d]
  BY <1>1 DEF Begin
<1>3. x.kind = kind /\ x.ticker = t /\ x.size = size /\ x.row = account /\ x.month \in Months
  BY MonthTyped DEF TypeOK
<1>. HIDE DEF x
<1>4. /\ tx'["web"].kind \in {"none", "deposit"} /\ tx'["chat"].kind \in {"none", "BUY", "SELL"}
      /\ \A d \in Callers : /\ tx'[d].kind \in {"BUY", "SELL"} => tx'[d].ticker \in Tickers
                            /\ tx'[d].kind = "BUY" => tx'[d].size <= tx'[d].row.cash
                            /\ tx'[d].kind = "deposit" => tx'[d].month \in Months
  BY ZenonT(30), <1>1, <1>2, <1>3 DEF StageInv, Callers
<1>5. /\ engine'.stage = engine.stage /\ engine'.next = engine.next /\ engine'.week = engine.week
      /\ engine'.todo = engine.todo
  BY DEF TypeOK, EngineState
<1>6. /\ Busy("chat")' => chat'.stage = "order"
      /\ tx'["engine"].kind = "deposit" => engine.stage = "deposit"
      /\ tx'["engine"].kind \in {"BUY", "SELL"} => engine.stage \in {"trade", "add"} /\ engine.todo # <<>>
  BY <1>1, <1>2, <1>3 DEF StageInv, Busy
<1>7. AtReview' <=> AtReview
  BY <1>5 DEF AtReview
<1>8. /\ engine'.stage \notin {"idle", "deposit", "wipe", "replay"} => account'.exists
      /\ dca'.kind \in {"due", "deposit"} => engine'.stage = "bench"
      /\ dca'.kind = "backfill" => engine'.stage = "replay"
      /\ dca'.kind # "none" => dca'.month \in Months
      /\ chat'.stage # "idle" => chat'.todo # <<>>
      /\ engine'.stage = "trade" => engine'.next \in {"end", "plan"}
      /\ engine'.stage = "add" => engine'.next \in {"end", "mark"}
      /\ AtReview' => engine'.week # 0
  BY <1>5, <1>7 DEF StageInv
<1>. QED BY <1>4, <1>5, <1>6, <1>8 DEF StageInv

\* A commit lets go of its transaction and keeps the account.
LEMMA TradeFrees ==
  ASSUME TypeOK, StageInv, NEW c \in Callers, TradeCommit(c)
  PROVE  Freed(c) /\ Busy(c)
<1> DEFINE x == tx[c]
<1>1. x \in Transaction /\ x.kind \in {"BUY", "SELL"} /\ x.row \in Row /\ tx' = [tx EXCEPT ![c] = NoTx]
  BY DEF TypeOK, TradeCommit, Transaction
<1>2. CASE RowConflict(x)
  BY <1>1, <1>2 DEF TradeCommit, Freed, Busy, Untraded, benchmark
<1>3. CASE ~RowConflict(x)
  <2>1. account' = Paid(x) /\ Proceed(c)
    BY <1>3 DEF TradeCommit
  <2>2. account'.exists
    BY <2>1 DEF Paid, SetCash, TypeOK, Row
  <2>. QED BY <1>1, <1>3, <2>1, <2>2 DEF Freed, Busy, TradeCommit, Untraded, benchmark
<1>. QED BY <1>2, <1>3

LEMMA DepositFrees ==
  ASSUME TypeOK, StageInv, NEW c \in Callers, DepositCommit(c)
  PROVE  Freed(c) /\ Busy(c)
<1> DEFINE x == tx[c]
<1>1. x \in Transaction /\ x.kind = "deposit" /\ x.row \in Row /\ tx' = [tx EXCEPT ![c] = NoTx]
  BY DEF TypeOK, DepositCommit, Transaction
<1>2. c # "chat"
  BY <1>1 DEF StageInv
<1>3. CASE DepositConflict(x)
  BY <1>1, <1>3 DEF DepositCommit, Freed, Busy, Untraded, benchmark
<1>4. CASE ~DepositConflict(x)
  <2>1. /\ account' = [SetCash(x.row, x.row.cash + Allowance) EXCEPT !.month = x.month]
        /\ engine' = IF c = "engine" THEN [engine EXCEPT !.stage = "bench"] ELSE engine
        /\ UNCHANGED chat
    BY <1>4 DEF DepositCommit
  <2>2. account'.exists
    BY <2>1 DEF SetCash, TypeOK, Row
  <2>. QED BY <1>1, <1>2, <2>1, <2>2 DEF Freed, Busy, DepositCommit, Untraded, benchmark
<1>. QED BY <1>3, <1>4

\* The benchmark's steps keep to their stages.
LEMMA BenchMovesLeave ==
  ASSUME TypeOK, StageInv, BenchMoves
  PROVE  /\ UNCHANGED <<account, positions, allowances, tx, chat, resetting, strategy, week>>
         /\ history'.base = history.base /\ history'.reviews = history.reviews
         /\ history'.ceiling = history.ceiling
         /\ history'.raced = history.raced /\ history'.late = history.late
         /\ engine.stage \in {"idle", "bench", "replay"}
         /\ engine'.stage \in {"idle", "bench", "value", "replay"}
         /\ engine'.stage \in {"bench", "value"} => engine.stage = "bench"
         /\ engine'.week \in {0, engine.week} /\ engine'.names \in {{}, engine.names}
         /\ dca'.kind \in {"due", "deposit"} => engine'.stage = "bench"
         /\ dca'.kind = "backfill" => engine'.stage = "replay"
         /\ dca'.kind # "none" => dca'.month \in Months
<1>1. /\ engine \in EngineState /\ history \in Memory /\ dca \in Lookup /\ Month(week) \in Months
      /\ NoDca.kind = "none"
  BY MonthTyped DEF TypeOK, NoDca
<1>2. CASE BenchMonth
  BY <1>1, <1>2 DEF BenchMonth, db, Rest, Lookup
<1>3. ASSUME NEW priced \in BOOLEAN, BenchRead(priced)
      PROVE  /\ UNCHANGED <<account, positions, allowances, tx, chat, resetting, strategy, week, history>>
             /\ engine.stage = "bench" /\ engine'.week = engine.week /\ engine'.names = engine.names
             /\ \/ engine' = engine /\ dca'.kind = "deposit" /\ dca'.month = dca.month
                \/ engine'.stage = "value" /\ dca'.kind = "none"
  <2>1. /\ UNCHANGED <<account, positions, allowances, tx, chat, resetting, strategy, week, history>>
        /\ engine.stage = "bench"
    BY <1>3 DEF BenchRead, db, Rest, StageInv
  <2>2. CASE dca' = [dca EXCEPT !.kind = "deposit", !.row = bench] /\ UNCHANGED engine
    BY <1>1, <2>1, <2>2 DEF Lookup
  <2>3. CASE dca' = NoDca /\ engine' = [engine EXCEPT !.stage = "value"]
    BY <1>1, <2>1, <2>3 DEF EngineState
  <2>. QED BY <1>3, <2>2, <2>3 DEF BenchRead
<1>4. CASE BenchCommit
  <2>1. /\ UNCHANGED <<account, positions, allowances, tx, chat, resetting, strategy, week>>
        /\ engine.stage = "bench" /\ dca'.kind = "none"
    BY <1>1, <1>4 DEF BenchCommit, db, Rest, StageInv
  <2>2. \/ engine' = Idle /\ history' = history
        \/ /\ engine' = [engine EXCEPT !.stage = "value"]
           /\ history' = [history EXCEPT !.funded = @ \cup {dca.month}, !.benchRaced = @ \/ bench # dca.row]
    BY <1>4 DEF BenchCommit
  <2>3. /\ history'.base = history.base /\ history'.reviews = history.reviews
        /\ history'.ceiling = history.ceiling
        /\ history'.raced = history.raced /\ history'.late = history.late
    BY <1>1, <2>2 DEF Memory
  <2>4. /\ engine'.stage \in {"idle", "value"}
        /\ engine'.week \in {0, engine.week} /\ engine'.names \in {{}, engine.names}
    BY <1>1, <2>2 DEF EngineState, Idle
  <2>. QED BY <2>1, <2>3, <2>4
<1>5. CASE BenchBackfillStart
  <2>1. PICK window \in Windows : engine' = [Idle EXCEPT !.stage = "replay", !.window = window]
    BY <1>5 DEF BenchBackfillStart
  <2>2. engine'.stage = "replay" /\ engine'.week = 0 /\ engine'.names = {}
    BY <2>1 DEF Idle
  <2>. QED BY <1>5, <2>2 DEF BenchBackfillStart, db, benchmark, StageInv
<1>6. CASE BenchBackfillRead
  BY <1>1, <1>6 DEF BenchBackfillRead, db, Rest
<1>7. CASE BenchReplace
  BY <1>1, <1>7 DEF BenchReplace, db, Rest, StageInv, Memory, Idle
<1>8. CASE \E priced \in BOOLEAN : BenchRead(priced)
  <2>1. PICK priced \in BOOLEAN : BenchRead(priced)
    BY <1>8
  <2>2. dca.kind = "due" /\ dca.month \in Months
    BY <2>1 DEF BenchRead, StageInv
  <2>. QED BY <1>3, <2>1, <2>2
<1>. QED BY <1>2, <1>4, <1>5, <1>6, <1>7, <1>8 DEF BenchMoves

LEMMA StageStep ==
  ASSUME TypeOK, StageInv, [Next]_vars
  PROVE  StageInv'
<1>1. /\ engine \in EngineState /\ chat \in ChatState /\ account \in Row
      /\ tx \in [Callers -> Transaction] /\ Callers = {"engine", "chat", "web"}
  BY DEF TypeOK, Callers
<1>2. ASSUME NEW c \in Callers, TradeCommit(c) \/ DepositCommit(c) PROVE StageInv'
  BY <1>2, TradeFrees, DepositFrees, FreedStays
<1>3. ASSUME NEW c \in Callers, DepositRead(c) PROVE StageInv'
  <2>1. /\ Begin(c, "deposit", "", 0) /\ UNCHANGED <<account, chat, engine, dca>>
        /\ c = "web" \/ (c = "engine" /\ engine.stage = "deposit")
    BY <1>3 DEF DepositRead, db, Untraded, benchmark
  <2>2. Begins(c, "deposit", "", 0)
    BY <2>1 DEF Begins
  <2>. QED BY <2>2, BegunStays
<1>4. CASE TradeRead
  <2> DEFINE p == Head(engine.todo)
  <2>1. /\ p \in Proposal /\ engine.todo # <<>> /\ engine.stage \in {"trade", "add"}
        /\ ~Busy("engine") /\ UNCHANGED <<account, chat, dca>>
    BY <1>1, <1>4 DEF TradeRead, EngineState, db, benchmark, Rest
  <2>2. CASE Executable(p)
    <3>1. /\ Begin("engine", p.side, p.ticker, p.budget)
          /\ engine' = [engine EXCEPT !.names = Counted(p)]
      BY <1>4, <2>2 DEF TradeRead
    <3>2. p.side \in {"BUY", "SELL"} /\ p.ticker \in Tickers /\ p.budget \in Nat
      BY <2>1 DEF Proposal
    <3>3. p.side = "BUY" => p.budget <= account.cash
      BY <2>2 DEF Executable
    <3>. HIDE DEF p
    <3> DEFINE t == p.ticker
               kind == p.side
               size == p.budget
    <3>4. kind \in {"BUY", "SELL"} /\ t \in Tickers /\ size \in Nat
      BY <3>2
    <3>5. Begins("engine", kind, t, size)
      BY <2>1, <3>1, <3>2, <3>3 DEF Begins
    <3>. HIDE DEF t, kind, size
    <3>. QED BY <1>1, <3>4, <3>5, BegunStays
  <2>3. CASE ~Executable(p)
    <3>1. engine' = [engine EXCEPT !.todo = Tail(@)] /\ UNCHANGED tx
      BY <1>4, <2>3 DEF TradeRead
    <3>2. tx["engine"].kind = "none"
      BY <2>1 DEF Busy
    <3>3. engine'.stage = engine.stage /\ engine'.next = engine.next /\ engine'.week = engine.week
      BY <1>1, <3>1 DEF EngineState
    <3>4. AtReview' <=> AtReview
      BY <3>3 DEF AtReview
    <3>5. EngineOnly
      BY <2>1, <3>1, <3>2, <3>3, <3>4 DEF EngineOnly, StageInv
    <3>. QED BY <3>5, EngineOnlyStays
  <2>. QED BY <2>2, <2>3
<1>5. CASE MarkReviewed \/ Wipe \/ Persist
  <2>1. /\ UNCHANGED <<tx, chat, dca>> /\ engine.stage \in {"mark", "wipe", "persist"}
        /\ engine'.stage \in {"end", "persist", "idle"}
        /\ account.exists \/ engine.stage = "wipe" => account'.exists
    <3>1. CASE MarkReviewed
      BY <1>1, <3>1 DEF MarkReviewed, Rest, EngineState, Row, benchmark
    <3>2. CASE Wipe
      BY <1>1, <3>2 DEF Wipe, Rest, EngineState, FreshAccount, benchmark
    <3>3. CASE Persist
      <4>1. UNCHANGED <<tx, chat, dca>> /\ engine.stage = "persist" /\ engine' = Idle
        BY <3>3 DEF Persist, Rest, benchmark
      <4>2. account'.exists = account.exists
        BY <1>1, <3>3 DEF Persist, db, Row
      <4>. QED BY <4>1, <4>2 DEF Idle
    <3>. QED BY <1>5, <3>1, <3>2, <3>3
  <2>2. tx["engine"].kind = "none"
    BY <1>1, <2>1 DEF StageInv, Transaction
  <2>3. ~AtReview' /\ engine'.stage \notin {"trade", "add"}
    BY <2>1 DEF AtReview
  <2>4. account'.exists
    BY <2>1 DEF StageInv
  <2>5. dca'.kind = "none"
    BY <2>1 DEF StageInv, TypeOK, Lookup
  <2>. QED BY <2>1, <2>2, <2>3, <2>4, <2>5 DEF StageInv, Busy
<1>6. CASE ResetBench \/ BenchView \/ Tick
  <2>1. UNCHANGED <<account, tx, chat, engine, dca>>
    BY <1>6 DEF ResetBench, BenchView, Tick, db, benchmark
  <2>. QED BY <2>1 DEF StageInv, Busy, AtReview
<1>15. CASE BenchMoves
  <2>1. tx["engine"].kind = "none"
    BY <1>1, <1>15, BenchMovesLeave DEF StageInv, Transaction
  <2>2. engine'.stage \notin {"idle", "deposit", "wipe", "replay"} => account.exists
    BY <1>15, BenchMovesLeave DEF StageInv
  <2>3. EngineOnly
    BY <1>15, <2>1, <2>2, BenchMovesLeave DEF EngineOnly, AtReview
  <2>. QED BY <2>3, EngineOnlyStays
<1>7. CASE ChatTurn \/ ChatValuate \/ ChatSize \/ (ChatOrder /\ UNCHANGED tx)
  <2>1. /\ UNCHANGED <<tx, engine, dca>> /\ ~Busy("chat")
        /\ account.exists => account'.exists
    <3>1. CASE ChatTurn \/ ChatSize
      BY <3>1 DEF ChatTurn, ChatSize, db, benchmark, ChatRest, StageInv
    <3>2. CASE ChatValuate
      BY <1>1, <3>2 DEF ChatValuate, ChatRest, benchmark, StageInv, Row
    <3>3. CASE ChatOrder /\ UNCHANGED tx
      BY <3>3 DEF ChatOrder, db, benchmark, ChatRest
    <3>. QED BY <1>7, <3>1, <3>2, <3>3
  <2>2. chat'.stage # "idle" => chat'.todo # <<>>
    <3>1. ASSUME NEW s, chat' = ChatNext(s), chat.todo # <<>>
          PROVE  chat'.stage # "idle" => chat'.todo # <<>>
      <4>1. CASE Len(chat.todo) = 1
        BY <3>1, <4>1 DEF ChatNext, NoChat
      <4>2. CASE Len(chat.todo) # 1
        <5>1. chat'.todo = Tail(chat.todo) /\ chat.todo \in Seq(Order)
          BY <1>1, <3>1, <4>2 DEF ChatNext, ChatState
        <5>. QED BY <3>1, <4>2, <5>1, TailLeft
      <4>. QED BY <4>1, <4>2
    <3>2. CASE ChatTurn
      BY <3>2, Constants DEF ChatTurn, NoChat
    <3>3. CASE ChatValuate \/ ChatSize \/ ChatOrder
      <4>1. chat.stage # "idle" /\ chat.todo # <<>>
        BY <3>3 DEF ChatValuate, ChatSize, ChatOrder, StageInv
      <4>2. \/ chat'.todo = chat.todo
            \/ chat' = ChatNext("size")
        BY <1>1, <1>7, <2>1, <3>3 DEF ChatValuate, ChatSize, ChatOrder, ChatState, Begin
      <4>. QED BY <3>1, <4>1, <4>2
    <3>. QED BY <1>7, <3>2, <3>3
  <2>3. ~Busy("chat")' /\ (AtReview' <=> AtReview)
    BY <2>1 DEF Busy, AtReview
  <2>. QED BY <2>1, <2>2, <2>3 DEF StageInv
<1>8. CASE ChatOrder /\ ~UNCHANGED tx
  <2> DEFINE order == Head(chat.todo)
  <2>1. /\ Begin("chat", order.action, order.ticker, chat.budget) /\ UNCHANGED <<account, engine, chat, dca>>
        /\ chat.stage = "order" /\ chat.todo # <<>>
        /\ order.action = "BUY" => ~(chat.budget > account.cash)
    BY <1>8 DEF ChatOrder, db, benchmark, ChatRest, StageInv
  <2>2. order \in Order /\ chat.budget \in Nat /\ account.cash \in Nat
    BY <1>1, <2>1 DEF ChatState, Row
  <2>3. order.ticker \in Tickers /\ order.action \in {"BUY", "SELL"}
    BY <2>2 DEF Order
  <2>4. order.action = "BUY" => chat.budget <= account.cash
    BY <2>1, <2>2
  <2>. HIDE DEF order
  <2>5. Begins("chat", order.action, order.ticker, chat.budget)
    BY <2>1, <2>3, <2>4 DEF Begins
  <2>. QED BY <1>1, <2>2, <2>3, <2>5, BegunStays
<1>9. CASE Reset
  <2>1. UNCHANGED <<engine, chat, tx, dca>> /\ account'.exists
    BY <1>9 DEF Reset, FreshAccount, benchmark
  <2>. QED BY <2>1 DEF StageInv, Busy, AtReview
<1>10. CASE Crash
  BY <1>1, <1>10 DEF Crash, StageInv, Busy, AtReview, Idle, NoChat, NoTx, NoDca, db
<1>11. CASE Fail
  <2>1. /\ UNCHANGED <<account, chat>> /\ engine'.stage = "idle" /\ tx'["engine"].kind = "none"
        /\ tx'["chat"] = tx["chat"] /\ tx'["web"] = tx["web"] /\ dca'.kind = "none"
    BY <1>1, <1>11 DEF Fail, db, Idle, NoTx, NoDca
  <2>. QED BY <1>1, <2>1 DEF StageInv, Busy, AtReview
<1>12. CASE UNCHANGED vars
  BY <1>12 DEF StageInv, Busy, AtReview, vars, db, benchmark
<1>13. CASE EngineStep
  BY <1>1, <1>2, <1>3, <1>4, <1>5, <1>13, <1>15, StageOfCycle DEF EngineStep, BenchMoves
<1>14. CASE Chat
  BY <1>1, <1>2, <1>7, <1>8, <1>14 DEF Chat
<1>. QED BY <1>1, <1>2, <1>3, <1>5, <1>6, <1>9, <1>10, <1>11, <1>12, <1>13, <1>14, <1>15,
            StageOfCycle DEF Next, Backfill, BenchMoves

LEMMA StageInit ==
  ASSUME Init
  PROVE  TypeOK /\ StageInv
<1>1. /\ week \in Weeks /\ strategy \in Strategies /\ events \in 0..MaxEvents
  BY Constants DEF Init
<1>2. TypeOK
  BY <1>1, InitialsTyped DEF Init, TypeOK
<1>3. StageInv
  BY DEF Init, StageInv, Busy, AtReview, Idle, NoChat, NoTx, NoDca, Callers
<1>. QED BY <1>2, <1>3

\* The state keeps its shape: no sale takes more than is held, no buy more
\* than the account it has read pays for, and no transaction outlives the
\* stage it belongs to, through crashes and resets (sim.py:178-201, 293-373,
\* 1571-1650).
THEOREM TypeCorrect == Spec => [](TypeOK /\ StageInv)
<1>1. TypeOK /\ StageInv /\ [Next]_vars => (TypeOK /\ StageInv)'
  BY TypeStep, StageStep
<1>. QED BY <1>1, StageInit, PTL DEF Spec
-----------------------------------------------------------------------------
(* Steps that only read, and what the commits leave alone.                 *)

\* The engine moves on inside its cycle.
Moves ==
  \/ CycleStart \/ NothingToDeposit
  \/ Valuate \/ Decide \/ Ask \/ Reply \/ PlanAdditions \/ Traded \/ CycleEnd

\* What is remembered of the money.
SameMoney ==
  /\ history'.base = history.base /\ history'.funded = history.funded
  /\ history'.raced = history.raced /\ history'.late = history.late
  /\ history'.benchRaced = history.benchRaced /\ history'.benchLate = history.benchLate

LEMMA MovesLeave ==
  ASSUME TypeOK, Moves
  PROVE  /\ UNCHANGED <<account, positions, allowances, dca, tx, chat, resetting, events, strategy, week>>
         /\ bench'.cash = bench.cash /\ bench'.month = bench.month
         /\ SameMoney /\ history'.ceiling = history.ceiling
         /\ history' = history \/ Ask
         /\ engine.stage \notin {"wipe", "persist", "replay"}
         /\ engine'.stage \notin {"wipe", "persist", "replay"}
         /\ engine'.names = engine.names \/ engine'.names = {} \/ engine'.names = Open(Book)
<1>1. engine \in EngineState /\ bench \in BenchRow /\ history \in Memory
  BY DEF TypeOK
<1>2. CASE CycleStart \/ CycleEnd
  BY <1>1, <1>2 DEF CycleStart, CycleEnd, BenchOpened, db, benchmark, Rest, Idle, BenchRow, SameMoney
<1>3. CASE NothingToDeposit \/ Valuate
  BY <1>1, <1>3 DEF NothingToDeposit, Valuate, db, benchmark, Rest, EngineState, SameMoney
<1>4. CASE Traded
  BY <1>1, <1>4 DEF Traded, db, benchmark, Rest, EngineState, SameMoney
<1>5. CASE Decide
  BY <1>1, <1>5 DEF Decide, db, benchmark, Rest, EngineState, SameMoney
<1>6. CASE Ask
  BY <1>1, <1>6 DEF Ask, db, benchmark, Rest, EngineState, SameMoney, Memory
<1>7. CASE Reply
  BY ZenonT(30), <1>1, <1>7 DEF Reply, db, benchmark, Rest, EngineState, SameMoney
<1>8. CASE PlanAdditions
  <2>1. /\ UNCHANGED <<account, positions, allowances, bench, dca, tx, chat, resetting, events, strategy, week, history>>
        /\ engine.stage = "plan"
    BY <1>8 DEF PlanAdditions, db, benchmark, Rest
  <2>2. engine'.stage = "add" /\ engine'.names = IF strategy = "llm" THEN Open(Book) ELSE {}
    BY ZenonT(30), <1>1, <1>8 DEF PlanAdditions, EngineState
  <2>. QED BY <2>1, <2>2 DEF SameMoney
<1>. QED BY <1>2, <1>3, <1>4, <1>5, <1>6, <1>7, <1>8 DEF Moves

\* A request or a trade is prepared.
Prepares ==
  \/ \E c \in Callers : DepositRead(c)
  \/ TradeRead \/ ChatTurn \/ ChatSize \/ ChatOrder

LEMMA PreparesLeave ==
  ASSUME TypeOK, Prepares
  PROVE  /\ UNCHANGED <<account, positions, allowances, bench, dca, history, resetting, strategy, week>>
         /\ engine'.stage = engine.stage /\ engine'.next = engine.next /\ engine'.week = engine.week
         /\ engine'.window = engine.window /\ engine'.live = engine.live /\ engine'.book = engine.book
         /\ UNCHANGED engine \/ TradeRead
<1>1. engine \in EngineState
  BY DEF TypeOK
<1>2. CASE TradeRead
  <2>1. \/ engine' = [engine EXCEPT !.names = Counted(Head(engine.todo))]
        \/ engine' = [engine EXCEPT !.todo = Tail(@)]
    BY <1>2 DEF TradeRead
  <2>2. UNCHANGED <<account, positions, allowances, bench, dca, history, resetting, strategy, week>>
    BY <1>2 DEF TradeRead, db, benchmark, Rest
  <2>. QED BY <1>1, <1>2, <2>1, <2>2 DEF EngineState
<1>3. CASE Prepares /\ ~TradeRead
  BY <1>3 DEF Prepares, DepositRead, ChatTurn, ChatSize, ChatOrder, db, benchmark, Untraded, ChatRest
<1>. QED BY <1>2, <1>3

\* What is done to the account and to what is remembered of it by none.
Elsewhere == BenchMoves \/ ResetBench \/ BenchView \/ Tick \/ Crash \/ Fail \/ UNCHANGED vars

LEMMA ElsewhereLeaves ==
  ASSUME TypeOK, StageInv, Elsewhere
  PROVE  /\ UNCHANGED <<account, positions, allowances, strategy>>
         /\ week' = week \/ Tick
         /\ history'.base = history.base /\ history'.raced = history.raced
         /\ history'.ceiling = history.ceiling
         /\ ~Tick => history'.late = history.late
         /\ ~Crash /\ ~Fail => history'.reviews = history.reviews
         /\ UNCHANGED tx \/ Crash \/ Fail
         /\ UNCHANGED engine \/ BenchMoves \/ engine' = Idle
<1>1. history \in Memory
  BY DEF TypeOK
<1>2. CASE BenchMoves
  BY <1>2, BenchMovesLeave
<1>3. CASE ResetBench \/ BenchView \/ UNCHANGED vars
  BY <1>1, <1>3 DEF ResetBench, BenchView, vars, db, Memory
<1>4. CASE Tick \/ Crash \/ Fail
  BY <1>1, <1>4 DEF Tick, Crash, Fail, db, Memory
<1>. QED BY <1>2, <1>3, <1>4 DEF Elsewhere

LEMMA StepsSplit ==
  ASSUME [Next]_vars
  PROVE  \/ Moves \/ Prepares \/ Elsewhere
         \/ \E c \in Callers : TradeCommit(c) \/ DepositCommit(c)
         \/ MarkReviewed \/ BackfillStart \/ Wipe \/ Persist \/ ChatValuate \/ Reset
BY DEF Next, EngineStep, Backfill, Chat, Moves, Prepares, Elsewhere, BenchMoves, Callers

LEMMA ClockMoves ==
  ASSUME TypeOK, week' = week \/ Tick
  PROVE  week' \in Weeks /\ week \in Nat /\ week' \in Nat /\ week <= week' /\ Month(week) <= Month(week')
<1>1. week' \in Weeks /\ week \in Weeks /\ week <= week'
  BY Constants DEF TypeOK, Tick, Weeks
<1>2. Month(week) <= Month(week')
  BY <1>1, MonthTyped
<1>. QED BY <1>1, <1>2 DEF Weeks

LEMMA TradeLeaves ==
  ASSUME TypeOK, StageInv, NEW c \in Callers, TradeCommit(c)
  PROVE  /\ UNCHANGED <<allowances, strategy, week, bench, dca, resetting, events>>
         /\ tx' = [tx EXCEPT ![c] = NoTx]
         /\ account'.month = account.month /\ account'.review = account.review
         /\ history'.base = history.base /\ history'.funded = history.funded
         /\ history'.late = history.late /\ history'.benchLate = history.benchLate
         /\ history'.benchRaced = history.benchRaced
         /\ ~history'.raced => ~history.raced
         /\ engine'.week \in {0, engine.week} /\ engine'.names \in {{}, engine.names}
         /\ \/ engine' = Idle /\ history'.reviews = Unfinished
            \/ /\ history'.reviews = history.reviews
               /\ engine'.stage = engine.stage /\ engine'.next = engine.next /\ engine'.week = engine.week
               /\ engine'.window = engine.window /\ engine'.live = engine.live
               /\ engine'.book = engine.book
<1> DEFINE x == tx[c]
<1>1. /\ x \in Transaction /\ x.row \in Row /\ engine \in EngineState /\ history \in Memory /\ account \in Row
  BY DEF TypeOK, Transaction
<1>2. UNCHANGED <<allowances, strategy, week, bench, dca, resetting, events>> /\ tx' = [tx EXCEPT ![c] = NoTx]
  BY DEF TradeCommit, Untraded, benchmark
<1>3. CASE RowConflict(x)
  <2>1. /\ GiveUp(c) /\ UNCHANGED <<account, positions>>
        /\ history' = [history EXCEPT !.reviews = IF c = "engine" THEN Unfinished ELSE @]
    BY <1>3 DEF TradeCommit
  <2>. QED BY <1>1, <1>2, <2>1 DEF GiveUp, Memory, Idle
<1>4. CASE ~RowConflict(x)
  <2>1. /\ account' = Paid(x) /\ Proceed(c)
        /\ history' = [history EXCEPT !.raced = @ \/ Overwrites(c) \/ Displaced(c),
                                      !.ceiling = Ceiling(c, Open([Book EXCEPT !.held = HeldAfter(x)]))]
    BY <1>4 DEF TradeCommit
  <2>2. account'.month = account.month /\ account'.review = account.review
    BY <1>1, <2>1 DEF Paid, SetCash, Row
  <2>3. /\ history'.reviews = history.reviews /\ history'.base = history.base
        /\ history'.funded = history.funded /\ history'.late = history.late
        /\ history'.benchLate = history.benchLate /\ history'.benchRaced = history.benchRaced
        /\ ~history'.raced => ~history.raced
    BY <1>1, <2>1 DEF Memory
  <2>4. \/ engine' = engine
        \/ engine' = [engine EXCEPT !.todo = Tail(@), !.names = IF engine.stage = "trade" THEN {} ELSE @]
    BY <2>1 DEF Proceed
  <2>. QED BY <1>1, <1>2, <2>2, <2>3, <2>4 DEF EngineState
<1>. QED BY <1>3, <1>4

LEMMA DepositLeaves ==
  ASSUME TypeOK, StageInv, NEW c \in Callers, DepositCommit(c)
  PROVE  /\ UNCHANGED <<positions, strategy, week, bench, dca, resetting, events>>
         /\ tx' = [tx EXCEPT ![c] = NoTx] /\ account'.review = account.review
         /\ history'.base = history.base /\ history'.funded = history.funded
         /\ history'.late = history.late /\ history'.benchLate = history.benchLate
         /\ history'.benchRaced = history.benchRaced
         /\ ~history'.raced => ~history.raced
         /\ history'.ceiling = history.ceiling /\ history'.reviews = history.reviews
         /\ engine' = engine \/ (engine' = Idle /\ engine.stage = "deposit")
            \/ (engine' = [engine EXCEPT !.stage = "bench"] /\ engine.stage = "deposit")
<1> DEFINE x == tx[c]
<1>1. /\ x \in Transaction /\ x.row \in Row /\ engine \in EngineState /\ history \in Memory /\ account \in Row
      /\ c = "engine" => engine.stage = "deposit"
  BY DEF TypeOK, Transaction, StageInv, DepositCommit
<1>2. UNCHANGED <<positions, strategy, week, bench, dca, resetting, events>> /\ tx' = [tx EXCEPT ![c] = NoTx]
  BY DEF DepositCommit, Untraded, benchmark
<1>3. CASE DepositConflict(x)
  BY <1>1, <1>2, <1>3 DEF DepositCommit, GiveUp
<1>4. CASE ~DepositConflict(x)
  <2>1. /\ account' = [SetCash(x.row, x.row.cash + Allowance) EXCEPT !.month = x.month]
        /\ history' = [history EXCEPT !.raced = @ \/ Overwrites(c) \/ Displaced(c)]
        /\ engine' = IF c = "engine" THEN [engine EXCEPT !.stage = "bench"] ELSE engine
    BY <1>4 DEF DepositCommit
  <2>2. account'.review = account.review
    BY <1>1, <2>1 DEF SetCash, Row
  <2>. QED BY <1>1, <1>2, <2>1, <2>2 DEF Memory
<1>. QED BY <1>3, <1>4

\* What a transaction read when it began.
LEMMA TxBegun ==
  ASSUME TypeOK, StageInv, Prepares, NEW c \in Callers
  PROVE  \/ tx'[c] = tx[c]
         \/ /\ tx'[c].row = account /\ tx'[c].month = Month(week)
            /\ tx'[c].kind = "deposit" => ~Deposited
            /\ tx'[c].held = IF tx'[c].ticker \in Tickers THEN positions[tx'[c].ticker] ELSE 0
            /\ c = "engine" /\ tx'[c].kind = "BUY" =>
                 /\ TradeRead /\ Executable(Head(engine.todo)) /\ Head(engine.todo) \in Proposal
                 /\ Head(engine.todo).side = "BUY" /\ tx'[c].ticker = Head(engine.todo).ticker
<1>1. tx \in [Callers -> Transaction] /\ Callers = {"engine", "chat", "web"}
  BY DEF TypeOK, Callers
<1>2. ASSUME NEW d \in Callers, NEW kind, NEW t, NEW size, Begin(d, kind, t, size), c = d
      PROVE  /\ tx'[c].row = account /\ tx'[c].month = Month(week) /\ tx'[c].kind = kind
             /\ tx'[c].ticker = t /\ tx'[c].held = IF t \in Tickers THEN positions[t] ELSE 0
  BY <1>1, <1>2 DEF Begin
<1>3. ASSUME NEW d \in Callers, NEW kind, NEW t, NEW size, Begin(d, kind, t, size), c # d
      PROVE  tx'[c] = tx[c]
  BY <1>1, <1>3 DEF Begin
<1>4. ASSUME NEW d \in Callers, DepositRead(d)
      PROVE  \/ tx'[c] = tx[c]
             \/ /\ tx'[c].row = account /\ tx'[c].month = Month(week)
                /\ tx'[c].kind = "deposit" /\ ~Deposited
                /\ tx'[c].held = IF tx'[c].ticker \in Tickers THEN positions[tx'[c].ticker] ELSE 0
  BY <1>2, <1>3, <1>4 DEF DepositRead
<1>5. CASE TradeRead
  <2> DEFINE p == Head(engine.todo)
  <2>1. p \in Proposal
    BY <1>5 DEF TradeRead, TypeOK, EngineState
  <2>2. CASE Executable(p)
    <3>1. Begin("engine", p.side, p.ticker, p.budget)
      BY <1>5, <2>2 DEF TradeRead
    <3>2. p.side # "deposit"
      BY <2>1 DEF Proposal
    <3>. HIDE DEF p
    <3>3. CASE c = "engine"
      BY <1>1, <1>2, <1>5, <2>1, <2>2, <3>1, <3>2, <3>3 DEF p
    <3>. QED BY <1>1, <1>3, <3>1, <3>3
  <2>. QED BY <1>5, <2>2 DEF TradeRead
<1>6. CASE ChatTurn \/ ChatSize
  BY <1>6 DEF ChatTurn, ChatSize
<1>7. CASE ChatOrder
  <2> DEFINE order == Head(chat.todo)
  <2>1. CASE UNCHANGED tx
    BY <2>1
  <2>2. CASE Begin("chat", order.action, order.ticker, chat.budget)
    <3>1. order.action \in {"BUY", "SELL"}
      <4>1. chat.todo # <<>> /\ chat.todo \in Seq(Order)
        BY <1>7 DEF ChatOrder, StageInv, TypeOK, ChatState
      <4>2. order \in Order
        BY <4>1
      <4>. QED BY <4>2 DEF Order
    <3>. HIDE DEF order
    <3>2. CASE c = "chat"
      BY <1>1, <1>2, <2>2, <3>1, <3>2
    <3>. QED BY <1>1, <1>3, <2>2, <3>2
  <2>. QED BY <1>7, <2>1, <2>2 DEF ChatOrder
<1>. QED BY <1>4, <1>5, <1>6, <1>7 DEF Prepares

-----------------------------------------------------------------------------
(* The calendar: no marker and no window lies ahead of the clock, a deposit *)
(* is always of a later month than the account has been paid, and an        *)
(* account that is not there is empty.                                      *)

AccountInv ==
  /\ ~account.exists => account = NoAccount /\ allowances = {} /\ positions = Nothing
  /\ account.month <= Month(week)
  /\ \A c \in Callers : tx[c].kind = "deposit" => tx[c].row.month < tx[c].month /\ tx[c].month <= Month(week)
  /\ Backfilling => /\ engine.window # {} /\ engine.window \subseteq 1..Month(week)
                    /\ engine.live <= Month(week)

AccountKept ==
  /\ UNCHANGED <<account, positions, allowances>> /\ Month(week) <= Month(week')
  /\ \A c \in Callers : tx'[c].kind = "deposit" => tx'[c] = tx[c]
  /\ Backfilling' => Backfilling /\ engine'.window = engine.window /\ engine'.live = engine.live

LEMMA AccountKeptStays ==
  ASSUME TypeOK, AccountInv, AccountKept, week' \in Weeks
  PROVE  AccountInv'
<1>1. Month(week) \in Nat /\ Month(week') \in Nat /\ account.month \in Nat
  BY MonthTyped, MonthsFinite DEF TypeOK, Row
<1>2. \A c \in Callers : tx[c].month \in Nat
  BY MonthsFinite DEF TypeOK, Transaction
<1>3. engine.live \in Nat
  BY MonthsFinite DEF TypeOK, EngineState
<1> DEFINE k == Month(week)
           l == Month(week')
<1>4. k \in Nat /\ l \in Nat /\ k <= l /\ account.month <= k
  BY <1>1 DEF AccountKept, AccountInv
<1>5. \A c \in Callers : tx[c].kind = "deposit" => tx[c].row.month < tx[c].month /\ tx[c].month <= k
  BY DEF AccountInv
<1>6. Backfilling => /\ engine.window # {} /\ engine.window \subseteq 1..k /\ engine.live <= k
  BY DEF AccountInv
<1>. HIDE DEF k, l
<1>7. account'.month <= l
  BY <1>1, <1>4 DEF AccountKept
<1>8. \A c \in Callers : tx'[c].kind = "deposit" => tx'[c].row.month < tx'[c].month /\ tx'[c].month <= l
  BY <1>2, <1>4, <1>5 DEF AccountKept
<1>9. Backfilling' => /\ engine'.window # {} /\ engine'.window \subseteq 1..l /\ engine'.live <= l
  BY <1>3, <1>4, <1>6 DEF AccountKept
<1>10. ~account'.exists => account' = NoAccount /\ allowances' = {} /\ positions' = Nothing
  BY DEF AccountKept, AccountInv
<1>. QED BY <1>7, <1>8, <1>9, <1>10 DEF AccountInv, l

\* A transaction that ends takes nothing of the others with it.
LEMMA FreedOfNone ==
  ASSUME TypeOK, NEW c \in Callers, tx' = [tx EXCEPT ![c] = NoTx]
  PROVE  \A d \in Callers : tx'[d].kind = "deposit" => tx'[d] = tx[d]
BY DEF TypeOK, NoTx

\* A commit of another caller leaves the calendar alone.
LEMMA TradeKeepsCalendar ==
  ASSUME TypeOK, StageInv, AccountInv, NEW c \in Callers, TradeCommit(c)
  PROVE  AccountInv'
<1> DEFINE x == tx[c]
<1>1. x \in Transaction /\ x.row \in Row /\ week' = week
  BY TradeLeaves DEF TypeOK, Transaction
<1>2. \A d \in Callers : tx'[d].kind = "deposit" => tx'[d] = tx[d]
  BY TradeLeaves, FreedOfNone
<1>3. Backfilling' => Backfilling /\ engine'.window = engine.window /\ engine'.live = engine.live
  BY TradeLeaves DEF Backfilling, Idle
<1>4. CASE RowConflict(x)
  <2>1. UNCHANGED <<account, positions, allowances>>
    BY <1>4 DEF TradeCommit
  <2>2. Month(week) \in Nat
    BY MonthTyped DEF TypeOK
  <2>3. AccountKept
    BY <1>1, <1>2, <1>3, <2>1, <2>2 DEF AccountKept
  <2>. QED BY <1>1, <2>3, AccountKeptStays DEF TypeOK
<1>5. CASE ~RowConflict(x)
  <2>1. account' = Paid(x) /\ allowances' = allowances
    BY <1>5 DEF TradeCommit
  <2>2. account'.exists /\ account'.month = account.month
    BY <2>1 DEF Paid, SetCash, TypeOK, Row
  <2>. QED BY <1>1, <1>2, <1>3, <2>1, <2>2 DEF AccountInv
<1>. QED BY <1>4, <1>5

LEMMA DepositKeepsCalendar ==
  ASSUME TypeOK, StageInv, AccountInv, NEW c \in Callers, DepositCommit(c)
  PROVE  AccountInv'
<1> DEFINE x == tx[c]
<1>1. x \in Transaction /\ x.row \in Row /\ week' = week /\ x.kind = "deposit" /\ engine \in EngineState
  BY DepositLeaves DEF TypeOK, DepositCommit, Transaction
<1>2. \A d \in Callers : tx'[d].kind = "deposit" => tx'[d] = tx[d]
  BY DepositLeaves, FreedOfNone
<1>3. Backfilling' => Backfilling /\ engine'.window = engine.window /\ engine'.live = engine.live
  <2>1. engine' = engine \/ engine' = Idle \/ engine' = [engine EXCEPT !.stage = "bench"]
    BY DepositLeaves
  <2>. QED BY <1>1, <2>1 DEF Backfilling, Idle, EngineState
<1>4. CASE DepositConflict(x)
  <2>1. UNCHANGED <<account, positions, allowances>>
    BY <1>4 DEF DepositCommit
  <2>2. Month(week) \in Nat
    BY MonthTyped DEF TypeOK
  <2>3. AccountKept
    BY <1>1, <1>2, <1>3, <2>1, <2>2 DEF AccountKept
  <2>. QED BY <1>1, <2>3, AccountKeptStays DEF TypeOK
<1>5. CASE ~DepositConflict(x)
  <2>1. account' = [SetCash(x.row, x.row.cash + Allowance) EXCEPT !.month = x.month]
    BY <1>5 DEF DepositCommit
  <2>2. account'.exists /\ account'.month = x.month
    BY <2>1 DEF SetCash, TypeOK, Row
  <2>3. x.month <= Month(week)
    BY <1>1 DEF AccountInv
  <2>. QED BY <1>1, <1>2, <1>3, <2>2, <2>3 DEF AccountInv
<1>. QED BY <1>4, <1>5

LEMMA AccountStep ==
  ASSUME TypeOK, StageInv, AccountInv, [Next]_vars
  PROVE  AccountInv'
<1>1. /\ engine \in EngineState /\ account \in Row /\ week \in Weeks
      /\ tx \in [Callers -> Transaction] /\ Callers = {"engine", "chat", "web"}
  BY DEF TypeOK, Callers
<1>2. Month(week) \in Nat /\ Month(week) >= 1
  BY <1>1, MonthTyped
<1>3. CASE Moves
  <2>1. AccountKept
    BY <1>2, <1>3, MovesLeave DEF AccountKept, Backfilling
  <2>. QED BY <1>1, <1>3, <2>1, AccountKeptStays, MovesLeave
<1>4. CASE Prepares
  <2>1. \A c \in Callers : tx'[c].kind = "deposit" =>
          tx'[c].row.month < tx'[c].month /\ tx'[c].month <= Month(week)
    <3> SUFFICES ASSUME NEW c \in Callers, tx'[c].kind = "deposit", tx'[c] # tx[c]
                 PROVE  tx'[c].row.month < tx'[c].month /\ tx'[c].month <= Month(week)
      BY DEF AccountInv
    <3>1. tx'[c].row = account /\ tx'[c].month = Month(week) /\ ~Deposited
      BY <1>4, TxBegun
    <3>2. CASE account.exists
      <4>1. account.month \in Nat /\ account.month <= Month(week) /\ account.month # Month(week)
        BY <1>1, <3>1, <3>2, MonthsFinite DEF Deposited, AccountInv, Row
      <4>. QED BY <1>2, <3>1, <4>1
    <3>3. CASE ~account.exists
      BY <1>2, <3>1, <3>3 DEF AccountInv, NoAccount, FreshAccount
    <3>. QED BY <3>2, <3>3
  <2>. QED BY <1>4, <2>1, PreparesLeave DEF AccountInv, Backfilling
<1>5. CASE MarkReviewed
  <2>1. /\ account.exists /\ account'.exists /\ account'.month = account.month
        /\ UNCHANGED <<positions, allowances, tx, week>> /\ engine'.stage = "end"
    BY <1>1, <1>5 DEF MarkReviewed, StageInv, Row, Rest, EngineState
  <2>. QED BY <2>1 DEF AccountInv, Backfilling
<1>6. CASE BackfillStart
  <2>1. PICK window \in Windows, m \in Markets :
          engine' = [Idle EXCEPT !.stage = "wipe", !.window = window, !.book = Replayed(window, m)]
    BY <1>6 DEF BackfillStart
  <2>2. engine'.window = window /\ engine'.live = 0
    BY <2>1 DEF Idle
  <2>3. window # {} /\ window \subseteq 1..Month(week)
    BY <1>1, WindowTyped
  <2>. QED BY <1>2, <1>6, <2>2, <2>3 DEF BackfillStart, AccountInv, db
<1>7. CASE Wipe
  <2>1. /\ account'.exists /\ account'.month = 0 /\ UNCHANGED <<tx, week>>
        /\ engine'.window = engine.window /\ engine'.live = account.month /\ Backfilling
    BY <1>1, <1>7 DEF Wipe, FreshAccount, Rest, EngineState, Backfilling
  <2>. QED BY <1>2, <2>1 DEF AccountInv
<1>8. CASE Persist
  <2>1. UNCHANGED <<tx, week>> /\ engine'.stage = "idle" /\ Backfilling /\ account.exists
    BY <1>8 DEF Persist, Rest, Idle, StageInv, Backfilling
  <2>2. account'.exists /\ (account'.month = account.month \/ account'.month = MarkerAfter)
    BY <1>1, <1>8, <2>1 DEF Persist, db, Row
  <2>3. MarkerAfter <= Month(week)
    <3>1. MarkerAfter \in Funded \cup {engine.live}
      BY FundedTyped
    <3>2. MarkerAfter \in engine.window \cup {Month(week), engine.live}
      BY <3>1 DEF Funded
    <3>3. engine.window \subseteq 1..Month(week) /\ engine.live <= Month(week)
      BY <2>1 DEF AccountInv
    <3>. QED BY <1>2, <3>2, <3>3
  <2>. QED BY <2>1, <2>2, <2>3 DEF AccountInv, Backfilling
<1>9. CASE Elsewhere
  <2>1. /\ UNCHANGED <<account, positions, allowances>>
        /\ week' \in Weeks /\ Month(week) <= Month(week')
    BY <1>9, ElsewhereLeaves, ClockMoves
  <2>2. \A c \in Callers : tx'[c].kind = "deposit" => tx'[c] = tx[c]
    <3>1. CASE Crash
      BY <1>1, <3>1 DEF Crash, NoTx
    <3>2. CASE Fail
      BY <1>1, <3>2 DEF Fail, NoTx
    <3>. QED BY <1>9, <3>1, <3>2, ElsewhereLeaves
  <2>3. Backfilling' => Backfilling /\ engine'.window = engine.window /\ engine'.live = engine.live
    <3>1. CASE UNCHANGED engine \/ engine' = Idle
      BY <3>1 DEF Idle, Backfilling
    <3>2. CASE BenchMoves
      BY <3>2, BenchMovesLeave DEF Backfilling
    <3>. QED BY <1>9, <3>1, <3>2, ElsewhereLeaves
  <2>4. AccountKept
    BY <2>1, <2>2, <2>3 DEF AccountKept
  <2>. QED BY <2>1, <2>4, AccountKeptStays
<1>10. CASE ChatValuate
  <2>1. account'.exists /\ account'.month = account.month /\ UNCHANGED <<tx, engine, week>>
    BY <1>1, <1>10 DEF ChatValuate, ChatRest, Row
  <2>. QED BY <2>1 DEF AccountInv, Backfilling
<1>11. CASE Reset
  <2>1. account'.exists /\ account'.month = 0 /\ UNCHANGED <<tx, engine, week>>
    BY <1>11 DEF Reset, FreshAccount
  <2>. QED BY <1>2, <2>1 DEF AccountInv, Backfilling
<1>. QED BY <1>3, <1>4, <1>5, <1>6, <1>7, <1>8, <1>9, <1>10, <1>11,
            TradeKeepsCalendar, DepositKeepsCalendar, StepsSplit

-----------------------------------------------------------------------------
(* What a commit does that nobody has come before.                         *)

LEMMA UnracedTrade ==
  ASSUME TypeOK, StageInv, NEW c \in Callers, TradeCommit(c), ~history'.raced
  PROVE  \/ UNCHANGED <<account, positions>>
         \/ /\ engine.stage # "persist" /\ engine'.stage # "persist"
            /\ Equity(Book') = Equity(Book)
<1> DEFINE x == tx[c]
           t == x.ticker
           sold == SoldBy(x)
           value == IF x.kind = "BUY" THEN x.held + x.size ELSE x.held - sold
           cash == IF x.kind = "SELL" THEN x.row.cash + sold ELSE x.row.cash - x.size
<1>1. /\ x \in Transaction /\ x.kind \in {"BUY", "SELL"} /\ t \in Tickers /\ x.row \in Row
      /\ account \in Row /\ history \in Memory /\ positions \in Holdings /\ engine \in EngineState
  BY DEF TypeOK, StageInv, TradeCommit, Transaction
<1>2. CASE RowConflict(x)
  BY <1>2 DEF TradeCommit
<1>3. CASE ~RowConflict(x)
  <2>1. /\ account' = Paid(x) /\ positions' = [positions EXCEPT ![t] = value]
        /\ history' = [history EXCEPT !.raced = @ \/ Overwrites(c) \/ Displaced(c),
                                      !.ceiling = Ceiling(c, Open([Book EXCEPT !.held = HeldAfter(x)]))]
        /\ Proceed(c)
    BY <1>3 DEF TradeCommit, HeldAfter
  <2>2. ~Overwrites(c) /\ ~Displaced(c)
    BY <1>1, <2>1 DEF Memory
  <2>3. x.row = account /\ x.held = positions[t]
    BY <1>1, <2>2 DEF Overwrites
  <2>4. engine.stage # "persist"
    BY <1>1, <2>2 DEF Displaced, StageInv
  <2>5. engine'.stage = engine.stage
    BY <1>1, <2>1 DEF Proceed, EngineState
  <2>6. sold \in Nat /\ sold <= x.held /\ x.size \in Nat /\ x.held \in Nat
    BY <1>1, SoldTyped DEF Transaction
  <2>7. cash \in Nat /\ value \in Nat
    <3>1. x.kind = "BUY" => x.size <= x.row.cash
      BY DEF StageInv
    <3>2. x.row.cash \in Nat
      BY <1>1 DEF Row
    <3>. HIDE DEF x, sold
    <3>. QED BY <1>1, <2>6, <3>1, <3>2
  <2>8. account'.cash = cash
    <3>1. account' = SetCash(x.row, cash)
      BY <2>1 DEF Paid
    <3>. HIDE DEF cash, x
    <3>. QED BY <1>1, <2>3, <3>1 DEF SetCash, Column, Row
  <2>9. /\ positions' \in Holdings /\ positions'[t] = value
        /\ \A u \in Tickers \ {t} : positions'[u] = positions[u]
    <3>. HIDE DEF value, x, t
    <3>. QED BY <1>1, <2>1, <2>7 DEF Holdings
  <2>10. Total(positions', Tickers) = (Total(positions, Tickers) - positions[t]) + value
    <3> DEFINE g == positions'
    <3>1. g \in [Tickers -> Nat] /\ positions \in [Tickers -> Nat] /\ g[t] = value
          /\ \A u \in Tickers \ {t} : g[u] = positions[u]
      BY <1>1, <2>9 DEF Holdings
    <3>. HIDE DEF g, value, x, t
    <3>2. Total(g, Tickers) = (Total(positions, Tickers) - positions[t]) + g[t]
      BY <1>1, <3>1, TotalChange, Percentages
    <3>. QED BY <3>1, <3>2 DEF g
  <2>11. Equity(Book) = account.cash + Total(positions, Tickers) /\ Total(positions, Tickers) \in Nat
    BY <1>1, BookTyped, TotalType, Percentages DEF Holdings
  <2>12. Equity(Book') = account'.cash + Total(positions', Tickers)
    <3>1. Book' \in Ledger /\ Book'.cash = account'.cash /\ Book'.held = positions'
      BY <2>7, <2>8, <2>9 DEF Book, Ledger
    <3> DEFINE b == Book'
    <3>2. Equity(b) = b.cash + Total(b.held, Tickers)
      <4>1. b \in Ledger
        BY <3>1
      <4>. HIDE DEF b
      <4>. QED BY <4>1, LedgerTyped
    <3>. QED BY <3>1, <3>2
  <2>13. Equity(Book') = Equity(Book)
    <3>1. x.row.cash \in Nat /\ account.cash = x.row.cash /\ positions[t] = x.held
      BY <1>1, <2>3 DEF Row
    <3> DEFINE p == Total(positions, Tickers)
               q == Total(positions', Tickers)
               e == Equity(Book')
               d == Equity(Book)
    <3>2. e = cash + q /\ d = x.row.cash + p /\ q = (p - x.held) + value /\ p \in Nat
      BY <2>8, <2>10, <2>11, <2>12, <3>1
    <3>. HIDE DEF p, q, e, d, x, sold
    <3>3. e = d
      BY <1>1, <2>6, <3>1, <3>2
    <3>. QED BY <3>3 DEF e, d
  <2>. HIDE DEF value, cash, sold
  <2>. QED BY <2>4, <2>5, <2>13
<1>. QED BY <1>2, <1>3

LEMMA UnracedDeposit ==
  ASSUME TypeOK, StageInv, AccountInv, NEW c \in Callers, DepositCommit(c), ~history'.raced
  PROVE  \/ UNCHANGED <<account, allowances>>
         \/ /\ engine.stage # "persist" /\ engine'.stage # "persist"
            /\ account'.cash = account.cash + Allowance /\ account'.month = tx[c].month
            /\ account.month < tx[c].month /\ tx[c].month \in Months \ allowances
            /\ allowances' = allowances \cup {tx[c].month}
<1> DEFINE x == tx[c]
<1>1. /\ x \in Transaction /\ x.kind = "deposit" /\ x.row \in Row /\ x.month \in Months
      /\ account \in Row /\ history \in Memory /\ engine \in EngineState
  BY DEF TypeOK, StageInv, DepositCommit, Transaction
<1>2. CASE DepositConflict(x)
  BY <1>2 DEF DepositCommit
<1>3. CASE ~DepositConflict(x)
  <2>1. /\ account' = [SetCash(x.row, x.row.cash + Allowance) EXCEPT !.month = x.month]
        /\ allowances' = allowances \cup {x.month}
        /\ history' = [history EXCEPT !.raced = @ \/ Overwrites(c) \/ Displaced(c)]
        /\ engine' = IF c = "engine" THEN [engine EXCEPT !.stage = "bench"] ELSE engine
    BY <1>3 DEF DepositCommit
  <2>2. ~Overwrites(c) /\ ~Displaced(c)
    BY <1>1, <2>1 DEF Memory
  <2>3. x.row = account
    BY <2>2 DEF Overwrites
  <2>4. engine.stage # "persist" /\ engine'.stage # "persist"
    BY <1>1, <2>1, <2>2 DEF Displaced, StageInv, EngineState
  <2>5. x.month \notin allowances
    BY <1>3 DEF DepositConflict
  <2>6. account'.cash = account.cash + Allowance /\ account'.month = x.month
    BY <1>1, <2>1, <2>3 DEF SetCash, Column, Row
  <2>7. account.month < x.month
    BY <1>1, <2>3 DEF AccountInv
  <2>. QED BY <1>1, <2>1, <2>4, <2>5, <2>6, <2>7
<1>. QED BY <1>2, <1>3

-----------------------------------------------------------------------------
(* A backfill: between its wipe and its commit the tables are empty unless *)
(* somebody has come before it, and its book is that of its window.        *)

BackfillInv ==
  /\ engine.stage = "persist" /\ ~history.raced => allowances = {} /\ positions = Nothing
  /\ Backfilling =>
       /\ Equity(engine.book) = StartCash + Allowance * Cardinality(engine.window)
       /\ Cardinality(Open(engine.book)) <= MaxPositions

BookKept ==
  Backfilling' => Backfilling /\ engine'.window = engine.window /\ engine'.book = engine.book

LEMMA BookKeptStays ==
  ASSUME BackfillInv, BookKept,
         engine'.stage = "persist" /\ ~history'.raced => allowances' = {} /\ positions' = Nothing
  PROVE  BackfillInv'
<1>1. Backfilling' => /\ Equity(engine'.book) = Equity(engine.book)
                      /\ Open(engine'.book) = Open(engine.book)
                      /\ Cardinality(engine'.window) = Cardinality(engine.window)
  BY DEF BookKept
<1>. QED BY <1>1 DEF BackfillInv, BookKept

LEMMA BackfillStep ==
  ASSUME TypeOK, StageInv, AccountInv, BackfillInv, [Next]_vars
  PROVE  BackfillInv'
<1>1. engine \in EngineState /\ history \in Memory
  BY DEF TypeOK
<1>2. ASSUME NEW c \in Callers, TradeCommit(c) PROVE BackfillInv'
  <2>1. BookKept /\ (engine'.stage = engine.stage \/ engine'.stage = "idle")
    BY <1>2, TradeLeaves DEF BookKept, Backfilling, Idle
  <2>2. allowances' = allowances /\ (~history'.raced => ~history.raced)
    BY <1>2, TradeLeaves
  <2>3. engine'.stage = "persist" /\ ~history'.raced => allowances' = {} /\ positions' = Nothing
    BY <1>2, <2>1, <2>2, UnracedTrade DEF BackfillInv
  <2>. QED BY <2>1, <2>3, BookKeptStays
<1>3. ASSUME NEW c \in Callers, DepositCommit(c) PROVE BackfillInv'
  <2>1. BookKept /\ engine'.stage \in {engine.stage, "idle", "bench"}
    BY <1>1, <1>3, DepositLeaves DEF BookKept, Backfilling, Idle, EngineState
  <2>2. positions' = positions /\ (~history'.raced => ~history.raced)
    BY <1>3, DepositLeaves
  <2>3. engine'.stage = "persist" /\ ~history'.raced => allowances' = {} /\ positions' = Nothing
    BY <1>3, <2>1, <2>2, UnracedDeposit DEF BackfillInv
  <2>. QED BY <2>1, <2>3, BookKeptStays
<1>4. CASE Moves
  BY <1>4, MovesLeave, BookKeptStays DEF BookKept, Backfilling
<1>5. CASE Prepares
  BY <1>5, PreparesLeave, BookKeptStays DEF BookKept, Backfilling, BackfillInv
<1>6. CASE MarkReviewed
  <2>1. engine'.stage = "end"
    BY <1>1, <1>6 DEF MarkReviewed, EngineState
  <2>. QED BY <2>1, BookKeptStays DEF BookKept, Backfilling
<1>7. CASE BackfillStart
  <2>1. PICK window \in Windows, m \in Markets :
          engine' = [Idle EXCEPT !.stage = "wipe", !.window = window, !.book = Replayed(window, m)]
    BY <1>7 DEF BackfillStart
  <2> DEFINE book == Replayed(window, m)
  <2>2. engine'.stage = "wipe" /\ engine'.window = window /\ engine'.book = book
    BY <2>1 DEF Idle
  <2>3. window \in SUBSET Months /\ IsMarket(m)
    BY WindowTyped, Constants DEF TypeOK
  <2>4. /\ Equity(book) = StartCash + Allowance * Cardinality(window)
        /\ Cardinality(Open(book)) <= MaxPositions
    BY <2>3, ReplayedBook
  <2>. HIDE DEF book
  <2>5. /\ Equity(engine'.book) = Equity(book) /\ Open(engine'.book) = Open(book)
        /\ Cardinality(engine'.window) = Cardinality(window)
    BY <2>2
  <2>. QED BY <2>2, <2>4, <2>5 DEF BackfillInv
<1>8. CASE Wipe
  <2>1. allowances' = {} /\ positions' = Nothing /\ BookKept
    BY <1>1, <1>8 DEF Wipe, BookKept, Backfilling, EngineState
  <2>. QED BY <2>1, BookKeptStays
<1>9. CASE Persist
  <2>1. engine' = Idle
    BY <1>9 DEF Persist
  <2>. QED BY <2>1, BookKeptStays DEF BookKept, Backfilling, Idle
<1>10. CASE Elsewhere
  <2>1. UNCHANGED <<positions, allowances>> /\ history'.raced = history.raced
    BY <1>10, ElsewhereLeaves
  <2>2. UNCHANGED engine \/ engine'.stage \notin {"wipe", "persist"}
    <3>1. engine' = Idle => engine'.stage = "idle"
      BY DEF Idle
    <3>. QED BY <1>10, <3>1, ElsewhereLeaves, BenchMovesLeave
  <2>. QED BY <2>1, <2>2, BookKeptStays DEF BookKept, Backfilling, BackfillInv
<1>11. CASE ChatValuate
  <2>1. UNCHANGED <<positions, allowances, engine, history>>
    BY <1>11 DEF ChatValuate, ChatRest
  <2>. QED BY <2>1, BookKeptStays DEF BookKept, Backfilling, BackfillInv
<1>12. CASE Reset
  <2>1. UNCHANGED engine /\ allowances' = {} /\ positions' = Nothing
    BY <1>12 DEF Reset
  <2>. QED BY <2>1, BookKeptStays DEF BookKept, Backfilling
<1>. QED BY <1>2, <1>3, <1>4, <1>5, <1>6, <1>7, <1>8, <1>9, <1>10, <1>11, <1>12, StepsSplit

-----------------------------------------------------------------------------
(* Months paid in.                                                         *)

LEMMA LatestOfNone == Max({} \cup {0}) = 0
<1> DEFINE latest == Max({} \cup {0})
<1>1. latest \in {} \cup {0}
  <2>1. {} \in SUBSET Months /\ 0 \in {0} \cup Months
    OBVIOUS
  <2>. HIDE DEF latest
  <2>2. latest = Max({} \cup {0}) => latest \in {} \cup {0}
    BY <2>1, LatestMonth
  <2>. QED BY <2>2 DEF latest
<1>. QED BY <1>1

\* The latest of some months is the one that no other exceeds.
LEMMA LatestIs ==
  ASSUME NEW S \in SUBSET Months, NEW k \in S, \A i \in S : i <= k
  PROVE  Max(S \cup {0}) = k
<1> DEFINE latest == Max(S \cup {0})
<1>1. 0 \in {0} \cup Months
  OBVIOUS
<1>. HIDE DEF latest
<1>2. latest = Max(S \cup {0}) =>
        /\ latest \in S \cup {0} /\ latest \in Nat
        /\ \A i \in S \cup {0} : i \in Nat /\ i <= latest
  BY <1>1, LatestMonth
<1>3. latest = Max(S \cup {0})
  BY DEF latest
<1>4. k \in Nat /\ k >= 0
  BY MonthsFinite
<1>5. latest <= k /\ k <= latest /\ latest \in Nat
  BY <1>2, <1>3, <1>4
<1>6. latest = k
  BY <1>4, <1>5
<1>. QED BY <1>3, <1>6

\* A window that reaches the running month or the one before, with the running
\* month when the marker says so, leaves the marker with the last of them.
LEMMA WindowMarker ==
  ASSUME NEW M \in Months, NEW window \in SUBSET Months, M \in window \/ M - 1 \in window,
         NEW k \in {0} \cup Months, k <= M, NEW S, S = window \cup ({M} \cap {k})
  PROVE  S \in SUBSET Months /\ Max(S \cup {k}) = Max(S \cup {0})
<1>1. S \in SUBSET Months
  OBVIOUS
<1> DEFINE latest == Max(S \cup {k})
<1>2. latest = Max(S \cup {k})
  OBVIOUS
<1>. HIDE DEF latest
<1>3. latest \in S \cup {k} /\ latest \in Nat /\ \A i \in S \cup {k} : i \in Nat /\ i <= latest
  BY <1>1, <1>2, LatestMonth
<1>4. latest \in S
  <2>1. PICK w \in window : w = M \/ w = M - 1
    OBVIOUS
  <2>2. w \in S /\ w \in Nat /\ w <= latest /\ M \in Nat /\ k \in Nat
    BY <1>3, <2>1, MonthsFinite
  <2>3. CASE k = M
    BY <1>3, <2>3
  <2>4. CASE k # M
    BY <1>3, <2>1, <2>2, <2>4
  <2>. QED BY <2>3, <2>4
<1>5. Max(S \cup {0}) = latest
  BY <1>1, <1>3, <1>4, LatestIs
<1>. QED BY <1>1, <1>2, <1>5

LEMMA OneMonthMore ==
  ASSUME NEW S \in SUBSET Months, NEW k \in Months \ S
  PROVE  /\ Cardinality(S \cup {k}) = Cardinality(S) + 1 /\ Cardinality(S) \in Nat
         /\ Allowance * Cardinality(S \cup {k}) = Allowance * Cardinality(S) + Allowance
<1>1. IsFiniteSet(S) /\ Cardinality(S) \in Nat
  BY MonthsFinite
<1>2. Cardinality(S \cup {k}) = Cardinality(S) + 1
  BY <1>1, FS_AddElement
<1> DEFINE n == Cardinality(S)
<1>3. n \in Nat /\ Cardinality(S \cup {k}) = n + 1
  BY <1>1, <1>2
<1>. HIDE DEF n
<1>4. Allowance * (n + 1) = Allowance * n + Allowance
  BY <1>3, Constants
<1>. QED BY <1>3, <1>4 DEF n

LEMMA NoMonths == Cardinality({}) = 0 /\ Allowance * 0 = 0
BY FS_EmptySet, Constants

-----------------------------------------------------------------------------
(* The benchmark: its marker is the last month paid into it, unless the    *)
(* month ends inside a backfill, and its money one allowance a month,      *)
(* unless a deposit has been written over a reset.                         *)

BenchMarked ==
  /\ history.funded \subseteq 1..Month(week) /\ bench.month <= Month(week) /\ dca.month <= Month(week)
  /\ \A i \in history.funded : i <= bench.month
  /\ ~history.benchLate => bench.month = Max(history.funded \cup {0})
  /\ dca.kind \in {"due", "deposit"} => bench.month <= dca.month
  /\ dca.kind = "deposit" => dca.row.month < dca.month
  /\ dca.kind = "backfill" => dca.row.month <= dca.month

\* The window of its backfill reaches the month the marker is read in.
BenchWindow ==
  engine.stage = "replay" =>
    /\ engine.window \subseteq 1..Month(week)
    /\ ~history.benchLate =>
         /\ dca.kind = "none" => Month(week) \in engine.window \/ Month(week) - 1 \in engine.window
         /\ dca.kind = "backfill" => dca.month \in engine.window \/ dca.month - 1 \in engine.window

BenchMoney == ~history.benchRaced => bench.cash = Allowance * Cardinality(history.funded)

BenchInv == BenchMarked /\ BenchWindow /\ BenchMoney

\* Steps that leave the benchmark alone.
BenchKept ==
  /\ bench'.cash = bench.cash /\ bench'.month = bench.month /\ week' = week
  /\ history'.funded = history.funded /\ history'.benchRaced = history.benchRaced
  /\ history'.benchLate = history.benchLate
  /\ dca' = dca \/ dca' = NoDca
  /\ engine'.stage = "replay" => engine.stage = "replay" /\ engine'.window = engine.window /\ dca' = dca

LEMMA BenchKeptStays ==
  ASSUME TypeOK, BenchInv, BenchKept
  PROVE  BenchInv'
<1>1. Month(week) \in Nat /\ NoDca.kind = "none" /\ NoDca.month = 0
  BY MonthTyped DEF TypeOK, NoDca
<1>2. BenchMoney'
  BY DEF BenchInv, BenchKept, BenchMoney
<1>3. BenchWindow'
  BY DEF BenchInv, BenchKept, BenchWindow
<1>4. BenchMarked'
  BY <1>1 DEF BenchInv, BenchKept, BenchMarked
<1>. QED BY <1>2, <1>3, <1>4 DEF BenchInv

LEMMA BenchUntouched ==
  ASSUME TypeOK, StageInv, [Next]_vars, ~BenchMoves, ~ResetBench, ~Tick
  PROVE  BenchKept
<1>1. engine \in EngineState /\ history \in Memory /\ bench \in BenchRow
  BY DEF TypeOK
<1>2. CASE Moves
  BY <1>2, MovesLeave DEF BenchKept, SameMoney
<1>3. CASE Prepares
  BY <1>3, PreparesLeave DEF BenchKept
<1>4. ASSUME NEW c \in Callers, TradeCommit(c) PROVE BenchKept
  BY <1>4, TradeLeaves DEF BenchKept, Idle
<1>5. ASSUME NEW c \in Callers, DepositCommit(c) PROVE BenchKept
  BY <1>1, <1>5, DepositLeaves DEF BenchKept, Idle, EngineState
<1>6. CASE MarkReviewed
  BY <1>1, <1>6 DEF MarkReviewed, benchmark, Rest, BenchKept, EngineState
<1>7. CASE BackfillStart
  <2>1. engine'.stage = "wipe"
    BY <1>7 DEF BackfillStart, Idle
  <2>. QED BY <1>7, <2>1 DEF BackfillStart, benchmark, BenchKept
<1>8. CASE Wipe
  BY <1>1, <1>8 DEF Wipe, benchmark, Rest, BenchKept, EngineState, Memory
<1>9. CASE Persist
  BY <1>1, <1>9 DEF Persist, benchmark, Rest, BenchKept, Idle, Memory
<1>10. CASE ChatValuate
  BY <1>10 DEF ChatValuate, ChatRest, benchmark, BenchKept
<1>11. CASE Reset
  BY <1>1, <1>11 DEF Reset, benchmark, BenchKept, Memory
<1>12. CASE BenchView
  BY <1>1, <1>12 DEF BenchView, BenchOpened, BenchKept, BenchRow
<1>13. CASE Crash \/ Fail
  BY <1>1, <1>13 DEF Crash, Fail, BenchKept, Idle, Memory
<1>14. CASE UNCHANGED vars
  BY <1>14 DEF vars, benchmark, BenchKept
<1>. QED BY <1>2, <1>3, <1>4, <1>5, <1>6, <1>7, <1>8, <1>9, <1>10, <1>11, <1>12, <1>13, <1>14, StepsSplit
     DEF Elsewhere

\* The month of a deposit is looked up, then the row.
LEMMA BenchLooked ==
  ASSUME TypeOK, StageInv, BenchInv, BenchMonth \/ \E priced \in BOOLEAN : BenchRead(priced)
  PROVE  BenchInv'
<1>1. /\ engine \in EngineState /\ bench.month \in Nat /\ dca \in Lookup /\ dca.month \in Nat
      /\ Month(week) \in Nat /\ NoDca.kind = "none" /\ NoDca.month = 0
  BY MonthTyped, MonthsFinite DEF TypeOK, NoDca, BenchRow, Lookup
<1>2. UNCHANGED <<bench, history, week>> /\ engine'.stage # "replay"
  BY <1>1 DEF BenchMonth, BenchRead, Rest, EngineState, StageInv
<1>3. /\ dca'.month <= Month(week) /\ dca'.kind # "backfill"
      /\ dca'.kind \in {"due", "deposit"} => bench.month <= dca'.month
      /\ dca'.kind = "deposit" => dca'.row.month < dca'.month
  <2>1. CASE BenchMonth
    BY <1>1, <2>1 DEF BenchMonth, Lookup, BenchInv, BenchMarked
  <2>2. ASSUME NEW priced \in BOOLEAN, BenchRead(priced)
        PROVE  /\ dca'.month <= Month(week) /\ dca'.kind # "backfill"
               /\ dca'.kind \in {"due", "deposit"} => bench.month <= dca'.month
               /\ dca'.kind = "deposit" => dca'.row.month < dca'.month
    <3>1. CASE priced /\ bench.month # dca.month
      <4>1. dca'.kind = "deposit" /\ dca'.month = dca.month /\ dca'.row = bench /\ dca.kind = "due"
        BY <1>1, <2>2, <3>1 DEF BenchRead, Lookup
      <4>2. bench.month <= dca.month /\ dca.month <= Month(week)
        BY <4>1 DEF BenchInv, BenchMarked
      <4>3. bench.month < dca.month
        BY <1>1, <3>1, <4>2
      <4>. QED BY <4>1, <4>2, <4>3
    <3>2. CASE ~(priced /\ bench.month # dca.month)
      BY <1>1, <2>2, <3>2 DEF BenchRead
    <3>. QED BY <3>1, <3>2
  <2>. QED BY <2>1, <2>2
<1>. QED BY <1>2, <1>3 DEF BenchInv, BenchMarked, BenchWindow, BenchMoney

LEMMA BenchDeposited ==
  ASSUME TypeOK, StageInv, BenchInv, BenchCommit
  PROVE  BenchInv'
<1>1. /\ engine \in EngineState /\ history \in Memory /\ history.funded \in SUBSET Months
      /\ bench.month \in Nat /\ dca.month \in Months /\ dca.month \in Nat
      /\ Month(week) \in Nat /\ NoDca.kind = "none" /\ NoDca.month = 0
  BY MonthTyped, MonthsFinite DEF TypeOK, Memory, NoDca, BenchRow, Lookup, StageInv, BenchCommit
<1>2. CASE bench.exists /\ ~dca.row.exists
  <2>1. BenchKept
    BY <1>1, <1>2 DEF BenchCommit, BenchKept, Rest, Idle
  <2>. QED BY <2>1, BenchKeptStays
<1>3. CASE ~(bench.exists /\ ~dca.row.exists)
  <2> DEFINE S == history.funded
             k == dca.month
             T == S \cup {k}
  <2>1. /\ bench'.month = k /\ bench'.cash = dca.row.cash + Allowance /\ week' = week
        /\ history'.funded = T /\ history'.benchLate = history.benchLate
        /\ ~history'.benchRaced => ~history.benchRaced /\ bench = dca.row
        /\ engine'.stage = "value" /\ dca' = NoDca
    <3> DEFINE over == bench # dca.row
    <3>1. /\ bench' = BenchPaid /\ dca' = NoDca /\ week' = week
          /\ history' = [history EXCEPT !.funded = @ \cup {dca.month}, !.benchRaced = @ \/ over]
          /\ engine' = [engine EXCEPT !.stage = "value"]
      BY <1>3 DEF BenchCommit, Rest
    <3>2. over \in BOOLEAN
      OBVIOUS
    <3>3. ~over => bench = dca.row
      OBVIOUS
    <3>. HIDE DEF over
    <3>4. /\ history'.funded = T /\ history'.benchLate = history.benchLate
          /\ ~history'.benchRaced => ~history.benchRaced /\ ~over
      BY <1>1, <3>1, <3>2 DEF Memory
    <3>. QED BY <1>1, <3>1, <3>3, <3>4 DEF BenchPaid, EngineState
  <2>2. /\ S \subseteq 1..Month(week) /\ k <= Month(week) /\ bench.month <= k
        /\ dca.row.month < k /\ \A i \in S : i <= bench.month
    BY DEF BenchInv, BenchMarked, BenchCommit
  <2>3. /\ T \in SUBSET Months /\ k \in T /\ k \in 1..Month(week)
        /\ S \subseteq Nat /\ k \in Nat
    BY <1>1, <2>2, MonthsFinite DEF Months
  <2>4. \A i \in T : i <= k
    BY <1>1, <2>2, <2>3
  <2>5. Max(T \cup {0}) = k
    <3>. HIDE DEF T, k
    <3>. QED BY <2>3, <2>4, LatestIs
  <2>6. ~history'.benchRaced => bench'.cash = Allowance * Cardinality(T)
    <3> SUFFICES ASSUME ~history'.benchRaced PROVE bench'.cash = Allowance * Cardinality(T)
      OBVIOUS
    <3>1. bench.cash = Allowance * Cardinality(S) /\ bench.month < k /\ bench'.cash = bench.cash + Allowance
      BY <2>1, <2>2 DEF BenchInv, BenchMoney
    <3>2. k \notin S
      BY <1>1, <2>2, <3>1
    <3>3. S \in SUBSET Months /\ k \in Months \ S
      BY <1>1, <3>2
    <3>. HIDE DEF S, k
    <3>4. Allowance * Cardinality(S \cup {k}) = Allowance * Cardinality(S) + Allowance
      BY <3>3, OneMonthMore
    <3>. QED BY <3>1, <3>4
  <2>7. T \subseteq 1..Month(week)
    BY <2>2, <2>3
  <2>. HIDE DEF T, k, S
  <2>8. BenchMarked'
    <3>1. /\ history'.funded \subseteq 1..Month(week') /\ bench'.month <= Month(week')
          /\ \A i \in history'.funded : i <= bench'.month
          /\ bench'.month = Max(history'.funded \cup {0})
      BY <2>1, <2>2, <2>4, <2>5, <2>7
    <3>2. dca'.month <= Month(week') /\ dca'.kind = "none"
      BY <1>1, <2>1
    <3>. QED BY <3>1, <3>2 DEF BenchMarked
  <2>. QED BY <2>1, <2>6, <2>8 DEF BenchInv, BenchWindow, BenchMoney
<1>. QED BY <1>2, <1>3

\* A backfill has its window from the candles it has loaded and then reads
\* the marker.
LEMMA BenchReplays ==
  ASSUME TypeOK, StageInv, BenchInv, BenchBackfillStart \/ BenchBackfillRead
  PROVE  BenchInv'
<1>1. /\ engine \in EngineState /\ bench.month \in Nat /\ Month(week) \in Nat
  BY MonthTyped, MonthsFinite DEF TypeOK, BenchRow
<1>2. CASE BenchBackfillStart
  <2>1. PICK window \in Windows : engine' = [Idle EXCEPT !.stage = "replay", !.window = window]
    BY <1>2 DEF BenchBackfillStart
  <2>2. /\ engine'.window = window /\ window \subseteq 1..Month(week)
        /\ Month(week) \in window \/ Month(week) - 1 \in window
    BY <2>1, WindowTyped DEF Idle, TypeOK
  <2>3. UNCHANGED <<bench, dca, history, week>> /\ dca.kind # "backfill"
    BY <1>2 DEF BenchBackfillStart, benchmark, StageInv
  <2>. QED BY <2>2, <2>3 DEF BenchInv, BenchMarked, BenchWindow, BenchMoney
<1>3. CASE BenchBackfillRead
  <2>1. /\ UNCHANGED <<bench, engine, history, week>> /\ engine.stage = "replay" /\ dca.kind = "none"
        /\ dca'.kind = "backfill" /\ dca'.month = Month(week) /\ dca'.row = bench
    BY <1>3 DEF BenchBackfillRead, Rest
  <2>. QED BY <1>1, <2>1 DEF BenchInv, BenchMarked, BenchWindow, BenchMoney
<1>. QED BY <1>2, <1>3

LEMMA BenchReplaced ==
  ASSUME TypeOK, StageInv, BenchInv, BenchReplace
  PROVE  BenchInv'
<1> DEFINE M == dca.month
           k == dca.row.month
           S == BenchFunded
           latest == Max(S \cup {k})
           window == engine.window
<1>1. /\ history \in Memory /\ dca.kind = "backfill" /\ engine.stage = "replay" /\ M \in Months
      /\ Month(week) \in Nat /\ NoDca.kind = "none" /\ NoDca.month = 0
  BY MonthTyped DEF TypeOK, NoDca, StageInv, BenchReplace
<1>2. /\ bench'.cash = Allowance * Cardinality(S) /\ bench'.month = latest /\ week' = week
      /\ history'.funded = S /\ history'.benchLate = history.benchLate
      /\ dca' = NoDca /\ engine'.stage = "idle"
  BY <1>1 DEF BenchReplace, Memory, Rest, Idle
<1>3. /\ S \in SUBSET Months /\ k \in {0} \cup Months /\ latest \in {0} \cup Months
      /\ \A i \in S : i <= latest
  BY BenchFundedTyped
<1>4. /\ window \subseteq 1..Month(week) /\ M <= Month(week) /\ k <= M
      /\ ~history.benchLate => M \in window \/ M - 1 \in window
  BY <1>1 DEF BenchInv, BenchMarked, BenchWindow
<1>5. S = window \cup ({M} \cap {k}) /\ window \in SUBSET Months
  BY DEF BenchFunded, TypeOK, EngineState
<1>6. latest = Max(S \cup {k})
  OBVIOUS
<1>. HIDE DEF M, k, S, latest, window
<1>7. M \in Nat /\ M >= 1 /\ k \in Nat
  BY <1>1, <1>3, MonthsFinite DEF Months
<1>8. S \subseteq 1..Month(week)
  BY <1>1, <1>4, <1>5, <1>7
<1>9. latest <= Month(week)
  <2>1. latest \in S \cup {k}
    BY <1>3, <1>6, LatestMonth
  <2>. QED BY <1>1, <1>4, <1>7, <1>8, <2>1
<1>10. ~history.benchLate => latest = Max(S \cup {0})
  BY <1>1, <1>3, <1>4, <1>5, <1>6, WindowMarker
<1>11. BenchMarked'
  <2>1. /\ history'.funded \subseteq 1..Month(week') /\ bench'.month <= Month(week')
        /\ \A i \in history'.funded : i <= bench'.month
        /\ ~history'.benchLate => bench'.month = Max(history'.funded \cup {0})
    BY <1>2, <1>3, <1>8, <1>9, <1>10
  <2>2. dca'.month <= Month(week') /\ dca'.kind = "none"
    BY <1>1, <1>2
  <2>. QED BY <2>1, <2>2 DEF BenchMarked
<1>. QED BY <1>2, <1>11 DEF BenchInv, BenchWindow, BenchMoney

LEMMA BenchStep ==
  ASSUME TypeOK, StageInv, BenchInv, [Next]_vars
  PROVE  BenchInv'
<1>1. /\ history \in Memory /\ week \in Weeks /\ bench.month \in Nat /\ dca.month \in Nat
      /\ Month(week) \in Nat /\ history.funded \in SUBSET Months
  BY MonthTyped, MonthsFinite DEF TypeOK, Memory, BenchRow, Lookup
<1>2. CASE ResetBench
  <2>1. /\ bench'.month = 0 /\ bench'.cash = 0 /\ history'.funded = {} /\ UNCHANGED <<engine, dca, week>>
        /\ history'.benchLate = (history.benchLate /\ engine.stage = "replay")
    BY <1>1, <1>2 DEF ResetBench, FreshBench, Memory
  <2>2. BenchMarked'
    BY <1>1, <2>1, LatestOfNone DEF BenchInv, BenchMarked
  <2>3. BenchWindow'
    BY <2>1 DEF BenchInv, BenchWindow
  <2>4. BenchMoney'
    BY <2>1, NoMonths DEF BenchMoney
  <2>. QED BY <2>2, <2>3, <2>4 DEF BenchInv
<1>3. CASE Tick
  <2> DEFINE k == Month(week)
             l == Month(week')
             ends == l # k
  <2>1. /\ UNCHANGED <<bench, dca, engine>> /\ history'.funded = history.funded
        /\ history'.benchRaced = history.benchRaced
        /\ history'.benchLate = (history.benchLate \/ (ends /\ engine.stage = "replay" /\ dca.kind = "none"))
    BY <1>1, <1>3 DEF Tick, Memory, benchmark
  <2>2. k \in Nat /\ l \in Nat /\ k <= l
    BY <1>1, <1>3, ClockMoves, MonthTyped
  <2>3. 1..k \subseteq 1..l
    <3>. HIDE DEF k, l
    <3>. QED BY <2>2
  <2>4. BenchMarked'
    <3>1. /\ history.funded \subseteq 1..l /\ bench.month <= l /\ dca.month <= l
      <4>1. history.funded \subseteq 1..k /\ bench.month <= k /\ dca.month <= k
        BY DEF BenchInv, BenchMarked
      <4>. HIDE DEF k, l
      <4>. QED BY <1>1, <2>2, <2>3, <4>1
    <3>. QED BY <2>1, <3>1 DEF BenchInv, BenchMarked
  <2>5. BenchWindow'
    <3>1. engine.stage = "replay" => engine.window \subseteq 1..l
      <4>1. engine.stage = "replay" => engine.window \subseteq 1..k
        BY DEF BenchInv, BenchWindow
      <4>. QED BY <2>3, <4>1
    <3>2. ~history'.benchLate => ~history.benchLate /\ (engine.stage = "replay" /\ dca.kind = "none" => l = k)
      BY <2>1
    <3>. QED BY <2>1, <3>1, <3>2 DEF BenchInv, BenchWindow
  <2>6. BenchMoney'
    BY <2>1 DEF BenchInv, BenchMoney
  <2>. QED BY <2>4, <2>5, <2>6 DEF BenchInv
<1>4. CASE BenchMoves
  BY <1>4, BenchLooked, BenchDeposited, BenchReplays, BenchReplaced DEF BenchMoves
<1>5. CASE ~BenchMoves /\ ~ResetBench /\ ~Tick
  BY <1>5, BenchUntouched, BenchKeptStays
<1>. QED BY <1>2, <1>3, <1>4, <1>5

-----------------------------------------------------------------------------
(* The account's marker is the last month that has a row.                  *)

AccountMarked ==
  /\ ~history.raced /\ ~history.late => account.month = Max(allowances \cup {0})
  /\ ~history.late /\ Backfilling => Month(week) \in engine.window \/ Month(week) - 1 \in engine.window

\* Nothing that the account's marker and the window go by has changed.
MarkKept ==
  /\ UNCHANGED <<account, allowances>>
  /\ Backfilling' => Backfilling /\ engine'.window = engine.window
  /\ ~history'.late => /\ ~history.late
                       /\ Backfilling' => Month(week') = Month(week)
  /\ ~history'.raced => ~history.raced

LEMMA MarkKeptStays ==
  ASSUME AccountMarked, MarkKept
  PROVE  AccountMarked'
BY DEF AccountMarked, MarkKept

LEMMA AccountMarkedStep ==
  ASSUME TypeOK, StageInv, AccountInv, BackfillInv, AccountMarked, [Next]_vars
  PROVE  AccountMarked'
<1>1. /\ engine \in EngineState /\ history \in Memory /\ week \in Weeks /\ account \in Row
      /\ allowances \in SUBSET Months /\ account.month \in {0} \cup Months
  BY DEF TypeOK, Row
<1>2. Month(week) \in Months /\ Month(week) \in Nat /\ Month(week) >= 1
  BY <1>1, MonthTyped
<1>3. ASSUME NEW c \in Callers, TradeCommit(c) PROVE AccountMarked'
  <2>1. Backfilling' => Backfilling /\ engine'.window = engine.window
    BY <1>3, TradeLeaves DEF Backfilling, Idle
  <2>. QED BY <1>3, <2>1, TradeLeaves DEF AccountMarked
<1>4. ASSUME NEW c \in Callers, DepositCommit(c) PROVE AccountMarked'
  <2>1. Backfilling' => Backfilling /\ engine'.window = engine.window
    BY <1>1, <1>4, DepositLeaves DEF Backfilling, Idle, EngineState
  <2>2. week' = week /\ history'.late = history.late /\ (~history'.raced => ~history.raced)
    BY <1>4, DepositLeaves
  <2>3. ASSUME ~history'.raced, ~history'.late PROVE account'.month = Max(allowances' \cup {0})
    <3>1. CASE UNCHANGED <<account, allowances>>
      BY <2>2, <2>3, <3>1 DEF AccountMarked
    <3>2. CASE ~UNCHANGED <<account, allowances>>
      <4> DEFINE k == tx[c].month
                 S == allowances \cup {k}
      <4>1. /\ account'.month = k /\ account.month < k /\ k \in Months /\ allowances' = S
        BY <1>4, <2>3, <3>2, UnracedDeposit
      <4>2. account.month = Max(allowances \cup {0})
        BY <2>2, <2>3 DEF AccountMarked
      <4>3. \A i \in allowances : i \in Nat /\ i <= account.month
        BY <1>1, <4>2, LatestMonth
      <4>4. S \in SUBSET Months /\ k \in S /\ k \in Nat /\ account.month \in Nat
        BY <1>1, <4>1, MonthsFinite
      <4>5. \A i \in S : i <= k
        BY <4>1, <4>3, <4>4
      <4>. HIDE DEF S, k
      <4>6. Max(S \cup {0}) = k
        BY <4>4, <4>5, LatestIs
      <4>. QED BY <4>1, <4>6
    <3>. QED BY <3>1, <3>2
  <2>. QED BY <2>1, <2>2, <2>3 DEF AccountMarked
<1>5. CASE Moves
  <2>1. MarkKept
    BY <1>5, MovesLeave DEF MarkKept, Backfilling, SameMoney
  <2>. QED BY <2>1, MarkKeptStays
<1>6. CASE Prepares
  <2>1. MarkKept
    BY <1>6, PreparesLeave DEF MarkKept, Backfilling
  <2>. QED BY <2>1, MarkKeptStays
<1>7. CASE MarkReviewed
  <2>1. /\ account'.month = account.month /\ allowances' = allowances /\ engine'.stage = "end"
        /\ history' = history
    BY <1>1, <1>7 DEF MarkReviewed, Row, EngineState
  <2>. QED BY <2>1 DEF AccountMarked, Backfilling
<1>8. CASE BackfillStart
  <2>1. PICK window \in Windows, m \in Markets :
          engine' = [Idle EXCEPT !.stage = "wipe", !.window = window, !.book = Replayed(window, m)]
    BY <1>8 DEF BackfillStart
  <2>2. engine'.window = window
    BY <2>1 DEF Idle
  <2>3. Month(week) \in window \/ Month(week) - 1 \in window
    BY <1>1, WindowTyped
  <2>4. UNCHANGED <<account, allowances, week, history>>
    BY <1>8 DEF BackfillStart, db
  <2>. QED BY <2>2, <2>3, <2>4 DEF AccountMarked
<1>9. CASE Wipe
  <2>1. /\ account'.month = 0 /\ allowances' = {} /\ week' = week /\ history'.late = history.late
        /\ engine'.window = engine.window /\ Backfilling
    BY <1>1, <1>9 DEF Wipe, FreshAccount, Rest, EngineState, Backfilling, Memory
  <2>. QED BY <2>1, LatestOfNone DEF AccountMarked
<1>10. CASE Persist
  <2>1. /\ ~Backfilling' /\ Backfilling /\ engine.stage = "persist"
        /\ history'.late = history.late /\ history'.raced = history.raced
    BY <1>1, <1>10 DEF Persist, Backfilling, Idle, Memory
  <2>2. ASSUME ~history'.raced, ~history'.late PROVE account'.month = Max(allowances' \cup {0})
    <3>1. CASE UNCHANGED <<db, history>>
      BY <2>1, <2>2, <3>1 DEF AccountMarked, db
    <3>2. CASE ~UNCHANGED <<db, history>>
      <4>1. account'.month = MarkerAfter /\ allowances' = allowances \cup Funded
        BY <1>1, <1>10, <3>2 DEF Persist, Row
      <4>2. allowances = {}
        BY <2>1, <2>2 DEF BackfillInv
      <4> DEFINE M == Month(week)
                 k == engine.live
                 window == engine.window
                 S == Funded
      <4>3. /\ M \in Months /\ window \in SUBSET Months /\ k \in {0} \cup Months /\ k <= M
            /\ S = window \cup ({M} \cap {k})
        BY <1>1, <1>2, <2>1 DEF EngineState, AccountInv, Funded
      <4>4. M \in window \/ M - 1 \in window
        BY <2>1, <2>2 DEF AccountMarked
      <4>5. MarkerAfter = Max(S \cup {k}) /\ allowances' = S
        BY <4>1, <4>2 DEF MarkerAfter
      <4>. HIDE DEF S, k, M, window
      <4>6. Max(S \cup {k}) = Max(S \cup {0})
        BY <4>3, <4>4, WindowMarker
      <4>. QED BY <4>1, <4>5, <4>6
    <3>. QED BY <3>1, <3>2
  <2>. QED BY <2>1, <2>2 DEF AccountMarked
<1>11. CASE Elsewhere
  <2>1. UNCHANGED <<account, allowances>> /\ history'.raced = history.raced
    BY <1>11, ElsewhereLeaves
  <2>2. Backfilling' => Backfilling /\ engine'.window = engine.window
    <3>1. CASE UNCHANGED engine \/ engine' = Idle
      BY <3>1 DEF Idle, Backfilling
    <3>2. CASE BenchMoves
      BY <3>2, BenchMovesLeave DEF Backfilling
    <3>. QED BY <1>11, <3>1, <3>2, ElsewhereLeaves
  <2>3. ~history'.late => ~history.late /\ (Backfilling' => Month(week') = Month(week))
    <3>1. CASE Tick
      BY <1>1, <3>1 DEF Tick, Memory, Backfilling
    <3>2. CASE ~Tick
      BY <1>11, <3>2, ElsewhereLeaves
    <3>. QED BY <3>1, <3>2
  <2>4. MarkKept
    BY <2>1, <2>2, <2>3 DEF MarkKept
  <2>. QED BY <2>4, MarkKeptStays
<1>12. CASE ChatValuate
  <2>1. account'.month = account.month /\ UNCHANGED <<allowances, engine, week, history>>
    BY <1>1, <1>12 DEF ChatValuate, ChatRest, Row
  <2>. QED BY <2>1 DEF AccountMarked, Backfilling
<1>13. CASE Reset
  <2>1. /\ account'.month = 0 /\ allowances' = {} /\ UNCHANGED <<engine, week>>
        /\ history'.late = (history.late /\ Backfilling)
    BY <1>1, <1>13 DEF Reset, FreshAccount, Memory
  <2>2. (~history'.late /\ Backfilling') => (~history.late /\ Backfilling)
    BY <2>1 DEF Backfilling
  <2>. QED BY <2>1, <2>2, LatestOfNone DEF AccountMarked
<1>. QED BY <1>3, <1>4, <1>5, <1>6, <1>7, <1>8, <1>9, <1>10, <1>11, <1>12, <1>13, StepsSplit

-----------------------------------------------------------------------------
(* Money.                                                                  *)

AccountMoney ==
  ~history.raced => Equity(Book) = history.base + Allowance * Cardinality(allowances)

LEMMA EmptyBook ==
  ASSUME NEW cash \in Nat, NEW b, b = [cash |-> cash, held |-> Nothing]
  PROVE  b \in Ledger /\ Equity(b) = cash /\ Open(b) = {}
<1>1. b \in Ledger /\ b.cash = cash /\ b.held = Nothing
  BY InitialsTyped DEF Ledger
<1>2. Total(b.held, Tickers) = 0
  <2>1. Nothing \in [Tickers -> Nat] /\ \A t \in Tickers : Nothing[t] = 0
    BY DEF Nothing
  <2>. QED BY <1>1, <2>1, TotalZero, Percentages
<1>3. Equity(b) = b.cash + Total(b.held, Tickers)
  BY <1>1, LedgerTyped
<1>4. Open(b) = {}
  BY <1>1 DEF Open, Nothing
<1>. QED BY <1>1, <1>2, <1>3, <1>4

LEMMA DepositMoney ==
  ASSUME TypeOK, StageInv, AccountInv, AccountMoney, NEW c \in Callers, DepositCommit(c)
  PROVE  AccountMoney'
<1> SUFFICES ASSUME ~history'.raced
             PROVE  Equity(Book') = history'.base + Allowance * Cardinality(allowances')
  BY DEF AccountMoney
<1>1. ~history.raced /\ positions' = positions /\ history'.base = history.base /\ history.base \in Nat
  BY DepositLeaves DEF TypeOK, Memory
<1>2. Equity(Book) = history.base + Allowance * Cardinality(allowances)
  BY <1>1 DEF AccountMoney
<1>3. CASE UNCHANGED <<account, allowances>>
  <2>1. Book' = Book
    BY <1>1, <1>3 DEF Book
  <2>. QED BY <1>1, <1>2, <1>3, <2>1
<1>4. CASE ~UNCHANGED <<account, allowances>>
  <2> DEFINE k == tx[c].month
             b == Book'
             n == Allowance * Cardinality(allowances)
             total == Total(positions, Tickers)
  <2>1. /\ account'.cash = account.cash + Allowance /\ k \in Months \ allowances
        /\ allowances' = allowances \cup {k}
    BY <1>4, UnracedDeposit
  <2>2. allowances \in SUBSET Months /\ account.cash \in Nat
    BY DEF TypeOK, Row
  <2>3. Allowance * Cardinality(allowances') = n + Allowance /\ n \in Nat
    <3>1. Cardinality(allowances) \in Nat
      BY <2>2, MonthsFinite
    <3>2. n \in Nat
      BY <3>1, Constants
    <3>. HIDE DEF k
    <3>. QED BY <2>1, <2>2, <3>2, OneMonthMore
  <2>4. b \in Ledger /\ b.cash = account.cash + Allowance /\ b.held = positions
    BY <1>1, <2>1, <2>2, Constants DEF Book, Ledger, TypeOK
  <2>5. Equity(Book) = account.cash + total /\ total \in Nat
    BY BookTyped, TotalType, Percentages DEF TypeOK, Holdings
  <2>. HIDE DEF b, n, total
  <2>6. Equity(b) = b.cash + Total(positions, Tickers)
    BY <2>4, LedgerTyped
  <2>7. Equity(b) = account.cash + Allowance + total
    BY <2>4, <2>6 DEF total
  <2>8. Equity(Book) = history.base + n
    BY <1>2 DEF n
  <2>9. Equity(b) = history.base + (n + Allowance)
    <3>1. account.cash + total = history.base + n
      BY <2>5, <2>8
    <3>2. account.cash \in Nat /\ history.base \in Nat /\ n \in Nat /\ total \in Nat /\ Allowance \in Nat
      BY <1>1, <2>2, <2>3, <2>5, Constants
    <3>. QED BY <2>7, <3>1, <3>2
  <2>. QED BY <1>1, <2>3, <2>9 DEF b
<1>. QED BY <1>3, <1>4

\* The replayed book goes in whole, and with it the deposit of the running
\* month when the window does not have it.
LEMMA PersistMoney ==
  ASSUME TypeOK, BackfillInv, AccountMoney, Persist
  PROVE  AccountMoney'
<1>1. engine \in EngineState /\ history \in Memory /\ account \in Row
  BY DEF TypeOK
<1> SUFFICES ASSUME ~history'.raced
             PROVE  Equity(Book') = history'.base + Allowance * Cardinality(allowances')
  BY DEF AccountMoney
<1>2. ~history.raced
  BY <1>1 DEF Persist, Memory
<1>3. CASE UNCHANGED <<db, history>>
  <2>1. Book' = Book
    BY <1>3 DEF Book, db
  <2>. QED BY <1>2, <1>3, <2>1 DEF AccountMoney, db
<1>4. CASE ~UNCHANGED <<db, history>>
  <2> DEFINE window == engine.window
             extra == Funded \ window
             book == engine.book
             b == Book'
  <2>1. /\ account'.cash = book.cash + Allowance * Cardinality(extra)
        /\ positions' = [t \in Tickers |-> positions[t] + book.held[t]]
        /\ allowances' = allowances \cup Funded /\ history'.base = StartCash
    BY <1>1, <1>4 DEF Persist, Row, Memory
  <2>2. /\ allowances = {} /\ positions = Nothing
        /\ Equity(book) = StartCash + Allowance * Cardinality(window)
    BY <1>2 DEF BackfillInv, Backfilling, Persist
  <2>3. book \in Ledger /\ window \in SUBSET Months
    BY <1>1 DEF EngineState
  <2>4. allowances' = Funded /\ positions' = book.held
    <3>1. book.held \in [Tickers -> Nat]
      BY <2>3 DEF Ledger, Holdings
    <3>2. \A t \in Tickers : positions[t] + book.held[t] = book.held[t]
      BY <2>2, <3>1 DEF Nothing
    <3>. QED BY <2>1, <2>2, <3>1, <3>2
  <2>5. /\ window \subseteq Funded /\ Cardinality(extra) \in Nat /\ Cardinality(window) \in Nat
        /\ Cardinality(Funded) = Cardinality(window) + Cardinality(extra)
    <3>1. Funded \in SUBSET Months /\ window \subseteq Funded
      BY FundedTyped DEF Funded
    <3>2. IsFiniteSet(Funded) /\ IsFiniteSet(window) /\ Cardinality(Funded) \in Nat /\ Cardinality(window) \in Nat
      BY <2>3, <3>1, MonthsFinite
    <3>3. Funded \cap window = window
      BY <3>1
    <3> DEFINE F == Funded
    <3>. HIDE DEF F, window
    <3>4. IsFiniteSet(F) /\ Cardinality(F) \in Nat /\ F \cap window = window /\ Cardinality(window) \in Nat
      BY <3>2, <3>3 DEF F
    <3>5. IsFiniteSet(F \ window) /\ Cardinality(F \ window) = Cardinality(F) - Cardinality(F \cap window)
      BY <3>4, FS_Difference
    <3>6. Cardinality(F \ window) \in Nat
      BY <3>5, FS_CardinalityType
    <3>7. Cardinality(F) = Cardinality(window) + Cardinality(F \ window)
      <4> DEFINE a == Cardinality(F)
                 c == Cardinality(window)
                 d == Cardinality(F \ window)
      <4>1. a \in Nat /\ c \in Nat /\ d = a - c
        BY <3>4, <3>5
      <4>. HIDE DEF a, c, d
      <4>2. a = c + d
        BY <4>1
      <4>. QED BY <4>2 DEF a, c, d
    <3>. QED BY <3>1, <3>2, <3>6, <3>7 DEF F
  <2> DEFINE n == Cardinality(window)
             e == Cardinality(extra)
  <2>6. n \in Nat /\ e \in Nat /\ Cardinality(allowances') = n + e
    BY <2>4, <2>5
  <2>7. /\ account'.cash = book.cash + Allowance * e /\ Equity(book) = StartCash + Allowance * n
        /\ book.cash \in Nat
    BY <2>1, <2>2, <2>3 DEF Ledger
  <2>. HIDE DEF n, e, extra, window
  <2>8. Allowance * e \in Nat /\ Allowance * n \in Nat /\ Allowance * (n + e) = Allowance * n + Allowance * e
    BY <2>6, Constants
  <2>9. b \in Ledger /\ b.cash = book.cash + Allowance * e /\ b.held = book.held
    BY <2>3, <2>4, <2>7, <2>8 DEF Book, Ledger
  <2>10. Equity(book) = book.cash + Total(book.held, Tickers) /\ Total(book.held, Tickers) \in Nat
    <3>. HIDE DEF book, b
    <3>1. Total(book.held, Tickers) \in Nat
      BY <2>3, TotalType, Percentages DEF Ledger, Holdings
    <3>. QED BY <2>3, <3>1, LedgerTyped
  <2>. HIDE DEF b, book
  <2>11. Equity(b) = b.cash + Total(b.held, Tickers)
    BY <2>9, LedgerTyped
  <2>12. Equity(b) = StartCash + Allowance * (n + e)
    BY SMTT(30), <2>7, <2>8, <2>9, <2>10, <2>11, Constants
  <2>. QED BY <2>1, <2>6, <2>12 DEF b
<1>. QED BY <1>3, <1>4

LEMMA AccountMoneyStep ==
  ASSUME TypeOK, StageInv, AccountInv, BackfillInv, AccountMoney, [Next]_vars
  PROVE  AccountMoney'
<1>1. /\ engine \in EngineState /\ history \in Memory /\ account \in Row
  BY DEF TypeOK
<1>2. CASE /\ account'.cash = account.cash /\ UNCHANGED <<positions, allowances>>
           /\ history'.raced = history.raced /\ history'.base = history.base
  <2>1. Book' = Book
    BY <1>2 DEF Book
  <2>. QED BY <1>2, <2>1 DEF AccountMoney
<1>3. ASSUME NEW c \in Callers, TradeCommit(c) PROVE AccountMoney'
  <2>1. CASE history'.raced
    BY <2>1 DEF AccountMoney
  <2>2. CASE ~history'.raced
    <3>1. /\ ~history.raced /\ allowances' = allowances /\ history'.base = history.base
      BY <1>3, <2>2, TradeLeaves
    <3>2. UNCHANGED <<account, positions>> => Equity(Book') = Equity(Book)
      BY DEF Book
    <3>3. Equity(Book') = Equity(Book)
      BY <1>3, <2>2, <3>2, UnracedTrade
    <3>. QED BY <3>1, <3>3 DEF AccountMoney
  <2>. QED BY <2>1, <2>2
<1>4. CASE Moves
  BY <1>2, <1>4, MovesLeave DEF SameMoney
<1>5. CASE Prepares
  BY <1>2, <1>5, PreparesLeave
<1>6. CASE MarkReviewed
  <2>1. /\ account'.cash = account.cash /\ UNCHANGED <<positions, allowances, history>>
    BY <1>1, <1>6 DEF MarkReviewed, Row
  <2>. QED BY <1>2, <2>1
<1>7. CASE Wipe
  <2>1. Book' = [cash |-> 0, held |-> Nothing] /\ allowances' = {} /\ history'.base = 0
    BY <1>1, <1>7 DEF Wipe, Book, FreshAccount, Memory
  <2>2. Equity(Book') = 0
    <3> DEFINE b == Book'
    <3>1. b = [cash |-> 0, held |-> Nothing]
      BY <2>1
    <3>. HIDE DEF b
    <3>2. Equity(b) = 0
      BY <3>1, EmptyBook
    <3>. QED BY <3>2 DEF b
  <2>. QED BY <2>1, <2>2, NoMonths DEF AccountMoney
<1>8. CASE Reset
  <2>1. Book' = [cash |-> StartCash, held |-> Nothing] /\ allowances' = {} /\ history'.base = StartCash
    BY <1>1, <1>8 DEF Reset, Book, FreshAccount, Memory
  <2>2. Equity(Book') = StartCash
    <3> DEFINE b == Book'
    <3>1. b = [cash |-> StartCash, held |-> Nothing]
      BY <2>1
    <3>. HIDE DEF b
    <3>2. Equity(b) = StartCash
      BY <3>1, EmptyBook, Constants
    <3>. QED BY <3>2 DEF b
  <2>. QED BY <2>1, <2>2, NoMonths, Constants DEF AccountMoney
<1>9. CASE Elsewhere
  BY <1>2, <1>9, ElsewhereLeaves
<1>10. CASE ChatValuate
  <2>1. account'.cash = account.cash /\ UNCHANGED <<positions, allowances, history>>
    BY <1>1, <1>10 DEF ChatValuate, Row
  <2>. QED BY <1>2, <2>1
<1>11. CASE BackfillStart
  <2>1. UNCHANGED <<account, positions, allowances, history>>
    BY <1>11 DEF BackfillStart, db
  <2>. QED BY <1>2, <2>1
<1>. QED BY <1>3, <1>4, <1>5, <1>6, <1>7, <1>8, <1>9, <1>10, <1>11, DepositMoney, PersistMoney, StepsSplit

-----------------------------------------------------------------------------
(* Reviews.  The one under way comes last, and the others are no later     *)
(* than the account's mark.                                                *)

ReviewInv ==
  /\ engine.week <= week /\ account.review <= week
  /\ strategy # "hybrid" => history.reviews = <<>>
  /\ \A i \in DOMAIN Unfinished : Unfinished[i] <= account.review
  /\ Reviewing => /\ AtReview /\ account.review <= engine.week
                  /\ history.reviews = Append(Unfinished, engine.week)

\* A step goes on with the review, ends it or has nothing to do with one.
ReviewKept ==
  /\ UNCHANGED strategy /\ week <= week' /\ account'.review = account.review
  /\ engine'.week \in {0, engine.week}
  /\ Reviewing' => Reviewing /\ AtReview' /\ history'.reviews = history.reviews
  /\ ~Reviewing' => history'.reviews = Unfinished

LEMMA ReviewKeptStays ==
  ASSUME TypeOK, week' \in Weeks, ReviewInv, ReviewsSpaced, ReviewKept
  PROVE  ReviewInv' /\ ReviewsSpaced'
<1>1. /\ week \in Nat /\ week' \in Nat /\ engine.week \in Nat /\ account.review \in Nat
      /\ history.reviews \in Seq(Weeks) /\ Unfinished \in Seq(Weeks)
  BY UnfinishedTyped DEF TypeOK, EngineState, Row, Weeks, Memory
<1>2. engine'.week <= week' /\ account'.review <= week'
  BY <1>1 DEF ReviewInv, ReviewKept
<1>3. Unfinished' = Unfinished
  BY DEF ReviewKept, Unfinished
<1>4. strategy' # "hybrid" => history'.reviews = <<>>
  <2>1. strategy' # "hybrid" => ~Reviewing /\ ~Reviewing'
    BY DEF Reviewing, ReviewKept
  <2>. QED BY <2>1 DEF ReviewKept, ReviewInv, Unfinished
<1>5. Reviewing' => /\ AtReview' /\ account'.review <= engine'.week
                    /\ history'.reviews = Append(Unfinished', engine'.week)
  <2>1. Reviewing' => engine'.week = engine.week
    BY DEF ReviewKept, Reviewing
  <2>. QED BY <1>3, <2>1 DEF ReviewKept, ReviewInv
<1>6. ReviewsSpaced'
  <2>1. CASE Reviewing' \/ ~Reviewing
    BY <2>1 DEF ReviewKept, ReviewsSpaced, Unfinished
  <2>2. CASE Reviewing /\ ~Reviewing'
    <3> DEFINE q == Unfinished
               r == history.reviews
    <3>1. history'.reviews = q /\ r = Append(q, engine.week) /\ q \in Seq(Weeks)
      BY <1>1, <2>2 DEF ReviewKept, ReviewInv
    <3>2. \A i, j \in DOMAIN r : i < j => r[j] - r[i] >= Interval
      BY DEF ReviewsSpaced
    <3>. HIDE DEF q, r
    <3>3. \A i \in DOMAIN q : i \in DOMAIN r /\ r[i] = q[i]
      BY <3>1
    <3>4. \A i, j \in DOMAIN q : i < j => q[j] - q[i] >= Interval
      BY <3>2, <3>3
    <3>. QED BY <3>1, <3>4 DEF ReviewsSpaced
  <2>. QED BY <2>1, <2>2
<1>7. \A i \in DOMAIN Unfinished' : Unfinished'[i] <= account'.review
  BY <1>3 DEF ReviewInv, ReviewKept
<1>. QED BY <1>2, <1>4, <1>5, <1>6, <1>7 DEF ReviewInv

LEMMA MovesReview ==
  ASSUME TypeOK, StageInv, ReviewInv, Moves, ~Ask
  PROVE  /\ engine'.week \in {0, engine.week}
         /\ Reviewing' => Reviewing /\ AtReview'
         /\ ~Reviewing' => ~Reviewing
<1>1. engine \in EngineState /\ strategy' = strategy /\ (Reviewing => AtReview)
  BY MovesLeave DEF TypeOK, ReviewInv
<1>2. CASE CycleStart \/ CycleEnd
  BY <1>1, <1>2 DEF CycleStart, CycleEnd, Idle, Reviewing, AtReview
<1>3. CASE NothingToDeposit \/ Valuate \/ Decide
  <2>1. /\ ~AtReview /\ engine.stage # "end" /\ engine'.week = engine.week
    BY ZenonT(30), <1>1, <1>3 DEF NothingToDeposit, Valuate, Decide, EngineState, AtReview
  <2>. QED BY <1>1, <2>1 DEF Reviewing
<1>4. CASE Reply
  <2>1. /\ engine.stage = "ask" /\ engine'.stage = "trade" /\ engine'.next = "plan" /\ engine'.week = engine.week
    BY ZenonT(30), <1>1, <1>4 DEF Reply, EngineState
  <2>. QED BY <1>1, <2>1 DEF Reviewing, AtReview
<1>5. CASE PlanAdditions
  <2>1. /\ engine.stage = "plan" /\ engine'.stage = "add" /\ engine'.week = engine.week
        /\ engine'.next = IF strategy = "llm" THEN "end" ELSE "mark"
    BY ZenonT(30), <1>1, <1>5 DEF PlanAdditions, EngineState
  <2>. QED BY <1>1, <2>1 DEF Reviewing, AtReview
<1>6. CASE Traded
  <2>1. /\ engine.stage \in {"trade", "add"} /\ engine'.stage = engine.next /\ engine'.week = engine.week
    BY <1>1, <1>6 DEF Traded, EngineState
  <2>. QED BY <1>1, <2>1 DEF Reviewing, AtReview, StageInv
<1>. QED BY <1>2, <1>3, <1>4, <1>5, <1>6 DEF Moves

\* The LLM is asked once the interval is over.
LEMMA AskSpaced ==
  ASSUME TypeOK, StageInv, ReviewInv, ReviewsSpaced, Ask
  PROVE  ReviewInv' /\ ReviewsSpaced'
<1> DEFINE q == history.reviews
           r == history'.reviews
<1>1. /\ engine \in EngineState /\ history \in Memory /\ week \in Weeks /\ week \in Nat /\ week # 0
      /\ account.review \in Nat /\ q \in Seq(Weeks)
  BY DEF TypeOK, Row, Weeks, Memory
<1>2. /\ engine'.week = week /\ engine'.stage = "ask" /\ UNCHANGED <<strategy, week, account>>
      /\ r = (IF strategy = "hybrid" THEN Append(q, week) ELSE q) /\ engine.stage = "decide"
  BY <1>1 DEF Ask, EngineState, db, Rest, Memory
<1>3. ~Reviewing /\ Unfinished = q
  BY <1>2 DEF ReviewInv, AtReview, Unfinished
<1>4. /\ AtReview' /\ (Reviewing' <=> strategy = "hybrid")
  BY <1>1, <1>2 DEF AtReview, Reviewing
<1>5. Unfinished' = q
  <2>1. CASE strategy = "hybrid"
    <3>1. r = Append(q, week) /\ Unfinished' = Front(r)
      BY <1>2, <1>4, <2>1 DEF Unfinished
    <3>2. Front(Append(q, week)) = q
      BY <1>1, WithoutLast
    <3>. QED BY <3>1, <3>2
  <2>2. CASE strategy # "hybrid"
    BY <1>2, <1>4, <2>2 DEF Unfinished
  <2>. QED BY <2>1, <2>2
<1>6. account.review <= week /\ \A i \in DOMAIN q : q[i] <= account.review
  BY <1>3 DEF ReviewInv
<1>7. ReviewInv'
  BY <1>1, <1>2, <1>3, <1>4, <1>5, <1>6 DEF ReviewInv
<1>8. ReviewsSpaced'
  <2>1. CASE strategy # "hybrid"
    BY <1>2, <2>1 DEF ReviewsSpaced
  <2>2. CASE strategy = "hybrid"
    <3>1. account.review = 0 \/ week - account.review >= Interval
      BY <2>2 DEF Ask, ReviewDue
    <3>2. \A i, j \in DOMAIN q : i < j => q[j] - q[i] >= Interval
      BY DEF ReviewsSpaced
    <3>3. r = Append(q, week)
      BY <1>2, <2>2
    <3>. HIDE DEF q, r
    <3>4. \A i \in DOMAIN q : week - q[i] >= Interval
      <4> SUFFICES ASSUME NEW i \in DOMAIN q PROVE week - q[i] >= Interval
        OBVIOUS
      <4>1. q[i] \in Nat /\ q[i] # 0 /\ q[i] <= account.review
        <5>1. q[i] \in Weeks
          BY <1>1
        <5>. QED BY <1>6, <5>1, Constants DEF Weeks
      <4>2. Interval \in Nat /\ account.review \in Nat /\ week \in Nat
        BY <1>1, Constants
      <4>3. week - account.review >= Interval
        <5>1. account.review # 0
          BY <4>1, <4>2
        <5>. QED BY <3>1, <5>1
      <4>. HIDE DEF ReviewsSpaced
      <4>. QED BY <4>1, <4>2, <4>3
    <3>5. /\ DOMAIN r = 1..(Len(q) + 1) /\ DOMAIN q = 1..Len(q) /\ Len(q) \in Nat
          /\ r[Len(q) + 1] = week /\ \A i \in DOMAIN q : r[i] = q[i]
      BY <1>1, <3>3
    <3>6. \A i, j \in DOMAIN r : i < j => r[j] - r[i] >= Interval
      <4> SUFFICES ASSUME NEW i \in DOMAIN r, NEW j \in DOMAIN r, i < j PROVE r[j] - r[i] >= Interval
        OBVIOUS
      <4>1. i \in DOMAIN q /\ (j \in DOMAIN q \/ j = Len(q) + 1)
        BY <3>5
      <4>. QED BY <3>2, <3>4, <3>5, <4>1
    <3>. QED BY <3>6 DEF ReviewsSpaced, r
  <2>. QED BY <2>1, <2>2
<1>. QED BY <1>7, <1>8

\* The mark is the week of the review.
LEMMA MarkSpaced ==
  ASSUME TypeOK, StageInv, ReviewInv, ReviewsSpaced, MarkReviewed
  PROVE  ReviewInv' /\ ReviewsSpaced'
<1> DEFINE w == engine.week
           q == Unfinished
           r == history.reviews
<1>1. /\ engine \in EngineState /\ account \in Row /\ account.review \in Nat /\ w \in Nat /\ week \in Weeks
      /\ q \in Seq(Weeks)
  BY UnfinishedTyped DEF TypeOK, EngineState, Row, Weeks
<1>2. /\ account'.review = w /\ history' = history /\ engine'.stage = "end" /\ engine'.week = w
      /\ UNCHANGED <<strategy, week>> /\ w # 0 /\ engine.stage = "mark"
  BY <1>1 DEF MarkReviewed, StageInv, AtReview, Row, Rest, EngineState
<1>3. ~Reviewing' /\ Unfinished' = r
  BY <1>2 DEF Reviewing, Unfinished
<1>4. \A i \in DOMAIN r : r[i] <= w
  <2>1. CASE strategy # "hybrid"
    <3>1. r = <<>>
      BY <2>1 DEF ReviewInv
    <3>. QED BY <3>1
  <2>2. CASE strategy = "hybrid"
    <3>1. Reviewing
      BY <1>2, <2>2 DEF Reviewing
    <3>2. r = Append(q, w) /\ account.review <= w /\ \A i \in DOMAIN q : q[i] <= account.review
      BY <3>1 DEF ReviewInv
    <3>. HIDE DEF q, w, r
    <3>3. \A i \in DOMAIN r : (i \in DOMAIN q /\ r[i] = q[i] /\ q[i] \in Weeks) \/ r[i] = w
      BY <1>1, <3>2
    <3>. QED BY <1>1, <3>2, <3>3 DEF Weeks
  <2>. QED BY <2>1, <2>2
<1>5. w <= week
  BY DEF ReviewInv
<1>6. ReviewInv'
  BY <1>1, <1>2, <1>3, <1>4, <1>5 DEF ReviewInv
<1>. QED BY <1>2, <1>6 DEF ReviewsSpaced

\* A reset forgets the reviews, but for the one under way.
LEMMA ResetSpaced ==
  ASSUME TypeOK, StageInv, ReviewInv, ReviewsSpaced, Reset
  PROVE  ReviewInv' /\ ReviewsSpaced'
<1> DEFINE w == engine.week
           r == history'.reviews
<1>1. /\ history \in Memory /\ w \in {0} \cup Weeks /\ week \in Weeks /\ 0 <= week /\ 0 <= w
  BY DEF TypeOK, EngineState, Weeks
<1>2. /\ UNCHANGED <<engine, strategy, week>> /\ account'.review = 0
      /\ r = IF Reviewing THEN <<w>> ELSE <<>>
  BY <1>1 DEF Reset, FreshAccount, Memory
<1>3. Reviewing' <=> Reviewing
  BY <1>2 DEF Reviewing
<1>4. AtReview' <=> AtReview
  BY <1>2 DEF AtReview
<1>5. Unfinished' = <<>>
  <2>1. CASE Reviewing
    <3>1. w \in Weeks
      BY <1>1, <2>1 DEF Reviewing
    <3>2. <<>> \in Seq(Weeks) /\ <<w>> = Append(<<>>, w)
      OBVIOUS
    <3>3. Front(<<w>>) = <<>>
      <4>1. \A x \in Weeks : Front(Append(<<>>, x)) = <<>>
        BY <3>2, WithoutLast
      <4>. HIDE DEF w
      <4>. QED BY <3>1, <3>2, <4>1
    <3>. QED BY <1>2, <1>3, <2>1, <3>3 DEF Unfinished
  <2>2. CASE ~Reviewing
    BY <1>2, <1>3, <2>2 DEF Unfinished
  <2>. QED BY <2>1, <2>2
<1>6. Reviewing => r = Append(<<>>, w)
  BY <1>2
<1>7. strategy # "hybrid" => r = <<>>
  BY <1>2 DEF Reviewing
<1>8. ReviewInv'
  BY <1>1, <1>2, <1>3, <1>4, <1>5, <1>6, <1>7 DEF ReviewInv
<1>9. ReviewsSpaced'
  <2>1. r = <<w>> \/ r = <<>>
    BY <1>2
  <2>. HIDE DEF r, w
  <2>2. \A i, j \in DOMAIN r : ~(i < j)
    BY <2>1
  <2>. QED BY <2>2 DEF ReviewsSpaced, r
<1>. QED BY <1>8, <1>9

LEMMA ReviewStep ==
  ASSUME TypeOK, StageInv, ReviewInv, ReviewsSpaced, [Next]_vars
  PROVE  ReviewInv' /\ ReviewsSpaced'
<1>1. /\ engine \in EngineState /\ history \in Memory /\ account \in Row /\ week \in Weeks
      /\ week \in Nat /\ week <= week
  BY DEF TypeOK, Weeks
<1>2. Reviewing => AtReview
  BY DEF ReviewInv
<1>3. ~Reviewing => Unfinished = history.reviews
  BY DEF Unfinished
<1>4. CASE Moves /\ ~Ask
  <2>1. UNCHANGED <<strategy, week, account, history>>
    BY <1>4, MovesLeave
  <2>2. ReviewKept
    BY <1>1, <1>3, <1>4, <2>1, MovesReview DEF ReviewKept
  <2>. QED BY <1>1, <2>1, <2>2, ReviewKeptStays
<1>5. CASE Prepares
  <2>1. UNCHANGED <<strategy, week, account, history>> /\ engine'.stage = engine.stage
        /\ engine'.next = engine.next /\ engine'.week = engine.week
    BY <1>5, PreparesLeave
  <2>2. (Reviewing' <=> Reviewing) /\ (AtReview' <=> AtReview)
    BY <2>1 DEF Reviewing, AtReview
  <2>3. ReviewKept
    BY <1>1, <1>2, <1>3, <2>1, <2>2 DEF ReviewKept
  <2>. QED BY <1>1, <2>1, <2>3, ReviewKeptStays
<1>6. ASSUME NEW c \in Callers, TradeCommit(c) PROVE ReviewInv' /\ ReviewsSpaced'
  <2>1. /\ UNCHANGED <<strategy, week>> /\ account'.review = account.review
        /\ engine'.week \in {0, engine.week}
    BY <1>6, TradeLeaves
  <2>2. CASE engine' = Idle /\ history'.reviews = Unfinished
    <3>1. ~Reviewing'
      BY <2>2 DEF Idle, Reviewing
    <3>2. ReviewKept
      BY <1>1, <2>1, <2>2, <3>1 DEF ReviewKept
    <3>. QED BY <1>1, <2>1, <3>2, ReviewKeptStays
  <2>3. CASE /\ history'.reviews = history.reviews /\ engine'.stage = engine.stage
             /\ engine'.next = engine.next /\ engine'.week = engine.week
    <3>1. (Reviewing' <=> Reviewing) /\ (AtReview' <=> AtReview)
      BY <2>1, <2>3 DEF Reviewing, AtReview
    <3>2. ReviewKept
      BY <1>1, <1>2, <1>3, <2>1, <2>3, <3>1 DEF ReviewKept
    <3>. QED BY <1>1, <2>1, <3>2, ReviewKeptStays
  <2>. QED BY <1>6, <2>2, <2>3, TradeLeaves
<1>7. ASSUME NEW c \in Callers, DepositCommit(c) PROVE ReviewInv' /\ ReviewsSpaced'
  <2>1. /\ UNCHANGED <<strategy, week>> /\ account'.review = account.review
        /\ history'.reviews = history.reviews
    BY <1>7, DepositLeaves
  <2>2. CASE engine' = engine
    <3>1. (Reviewing' <=> Reviewing) /\ (AtReview' <=> AtReview)
      BY <2>1, <2>2 DEF Reviewing, AtReview
    <3>2. ReviewKept
      BY <1>1, <1>2, <1>3, <2>1, <2>2, <3>1 DEF ReviewKept
    <3>. QED BY <1>1, <2>1, <3>2, ReviewKeptStays
  <2>3. CASE engine.stage = "deposit" /\ (engine' = Idle \/ engine' = [engine EXCEPT !.stage = "bench"])
    <3>1. ~Reviewing /\ engine'.week \in {0, engine.week}
      BY <1>1, <1>2, <2>3 DEF AtReview, EngineState, Idle
    <3>2. ~Reviewing'
      BY <2>1, <2>3, <3>1 DEF Reviewing
    <3>3. ReviewKept
      BY <1>1, <1>3, <2>1, <3>1, <3>2 DEF ReviewKept
    <3>. QED BY <1>1, <2>1, <3>3, ReviewKeptStays
  <2>. QED BY <1>7, <2>2, <2>3, DepositLeaves
<1>8. CASE Wipe
  <2>1. /\ account'.review = 0 /\ history'.reviews = <<>> /\ UNCHANGED <<strategy, week>>
        /\ engine'.week = engine.week /\ engine.stage = "wipe"
    BY <1>1, <1>8 DEF Wipe, FreshAccount, Memory, Rest, EngineState
  <2>2. ~Reviewing /\ ~Reviewing'
    BY <1>2, <2>1 DEF AtReview, Reviewing
  <2>3. Unfinished' = <<>>
    BY <2>1, <2>2 DEF Unfinished
  <2>4. ReviewInv'
    BY <1>1, <2>1, <2>2, <2>3 DEF ReviewInv
  <2>. QED BY <2>1, <2>4 DEF ReviewsSpaced
<1>9. CASE Persist
  <2>1. /\ account'.review = account.review /\ history'.reviews = history.reviews /\ engine' = Idle
        /\ UNCHANGED <<strategy, week>> /\ engine.stage = "persist"
    BY <1>1, <1>9 DEF Persist, db, Rest, Row, Memory
  <2>2. ~Reviewing /\ ~Reviewing' /\ engine'.week = 0
    BY <1>2, <2>1 DEF AtReview, Reviewing, Idle
  <2>3. ReviewKept
    BY <1>1, <1>3, <2>1, <2>2 DEF ReviewKept
  <2>. QED BY <1>1, <2>1, <2>3, ReviewKeptStays
<1>10. CASE BackfillStart
  <2>1. engine'.week = 0 /\ engine.stage = "idle"
    BY <1>10 DEF BackfillStart, Idle
  <2>2. UNCHANGED <<strategy, week, account, history>>
    BY <1>10 DEF BackfillStart, db
  <2>3. ~Reviewing /\ ~Reviewing'
    BY <1>2, <2>1 DEF AtReview, Reviewing
  <2>4. ReviewKept
    BY <1>1, <1>3, <2>1, <2>2, <2>3 DEF ReviewKept
  <2>. QED BY <1>1, <2>2, <2>4, ReviewKeptStays
<1>11. CASE Elsewhere
  <2>1. UNCHANGED <<strategy, account>> /\ week' \in Weeks /\ week <= week'
    BY <1>11, ElsewhereLeaves, ClockMoves
  <2>2. CASE BenchMoves
    <3>1. /\ engine.stage \in {"idle", "bench", "replay"} /\ engine'.week \in {0, engine.week}
          /\ history'.reviews = history.reviews
      BY <2>2, BenchMovesLeave
    <3>2. ~Reviewing /\ ~Reviewing'
      BY <1>2, <2>1, <3>1 DEF AtReview, Reviewing
    <3>3. ReviewKept
      BY <1>3, <2>1, <3>1, <3>2 DEF ReviewKept
    <3>. QED BY <2>1, <3>3, ReviewKeptStays
  <2>3. CASE UNCHANGED engine /\ history'.reviews = history.reviews
    <3>1. (Reviewing' <=> Reviewing) /\ (AtReview' <=> AtReview)
      BY <2>1, <2>3 DEF Reviewing, AtReview
    <3>2. ReviewKept
      BY <1>2, <1>3, <2>1, <2>3, <3>1 DEF ReviewKept
    <3>. QED BY <2>1, <3>2, ReviewKeptStays
  <2>4. CASE Crash \/ Fail
    <3>1. engine' = Idle /\ history'.reviews = Unfinished
      BY <1>1, <2>4 DEF Crash, Fail, Memory
    <3>2. ~Reviewing' /\ engine'.week = 0
      BY <3>1 DEF Reviewing, Idle
    <3>3. ReviewKept
      BY <2>1, <3>1, <3>2 DEF ReviewKept
    <3>. QED BY <2>1, <3>3, ReviewKeptStays
  <2>5. CASE ResetBench \/ BenchView \/ Tick \/ UNCHANGED vars
    <3>1. UNCHANGED engine /\ history'.reviews = history.reviews
      BY <1>1, <2>5 DEF ResetBench, BenchView, Tick, vars, Memory
    <3>. QED BY <2>3, <3>1
  <2>. QED BY <1>11, <2>2, <2>4, <2>5 DEF Elsewhere
<1>12. CASE ChatValuate
  <2>1. account'.review = account.review /\ UNCHANGED <<strategy, week, history, engine>>
    BY <1>1, <1>12 DEF ChatValuate, ChatRest, Row
  <2>2. (Reviewing' <=> Reviewing) /\ (AtReview' <=> AtReview)
    BY <2>1 DEF Reviewing, AtReview
  <2>3. ReviewKept
    BY <1>1, <1>2, <1>3, <2>1, <2>2 DEF ReviewKept
  <2>. QED BY <1>1, <2>1, <2>3, ReviewKeptStays
<1>. QED BY <1>4, <1>5, <1>6, <1>7, <1>8, <1>9, <1>10, <1>11, <1>12, AskSpaced, MarkSpaced, ResetSpaced,
            StepsSplit

-----------------------------------------------------------------------------
(* The cap.  Neither what is open nor what the engine has counted exceeds  *)
(* the ceiling, and the cap is no higher.                                  *)

CapInv ==
  /\ Cardinality(Open(Book)) <= history.ceiling
  /\ Cardinality(engine.names) <= history.ceiling
  /\ MaxPositions <= history.ceiling
  /\ engine.stage = "wipe" => engine.names = {}

LEMMA NoNames == Cardinality({}) = 0 /\ Cardinality({}) <= MaxPositions
BY FS_EmptySet, Percentages

\* The same positions, and no more names than before.
CapKept ==
  /\ Open(Book)' = Open(Book) /\ history'.ceiling = history.ceiling
  /\ engine'.names \in {{}, engine.names, Open(Book)}
  /\ engine'.stage = "wipe" => engine'.names = {}

LEMMA CapKeptStays ==
  ASSUME TypeOK, CapInv, CapKept
  PROVE  CapInv'
<1>1. Cardinality({}) <= history.ceiling
  <2>1. history.ceiling \in Nat /\ MaxPositions <= history.ceiling
    BY DEF TypeOK, Memory, CapInv
  <2>. QED BY <2>1, NoNames
<1>. QED BY <1>1 DEF CapInv, CapKept

\* A name that is there already, or one more than fewer than the cap.
LEMMA OneMore ==
  ASSUME NEW S \in SUBSET Tickers, NEW t \in Tickers, NEW n \in Nat, MaxPositions <= n,
         Cardinality(S) <= n, t \in S \/ Cardinality(S) < MaxPositions
  PROVE  Cardinality(S \cup {t}) <= n
<1>1. IsFiniteSet(S) /\ Cardinality(S) \in Nat /\ MaxPositions \in Nat
  BY FewerNames, Percentages
<1>2. Cardinality(S \cup {t}) = IF t \in S THEN Cardinality(S) ELSE Cardinality(S) + 1
  BY <1>1, FS_AddElement
<1>. QED BY <1>1, <1>2

LEMMA ReadKeepsCap ==
  ASSUME TypeOK, StageInv, CapInv, TradeRead
  PROVE  CapInv'
<1> DEFINE p == Head(engine.todo)
<1>1. /\ engine \in EngineState /\ history.ceiling \in Nat /\ MaxPositions <= history.ceiling
      /\ Cardinality(engine.names) <= history.ceiling /\ Cardinality(Open(Book)) <= history.ceiling
      /\ engine.stage \in {"trade", "add"} /\ engine.names \in SUBSET Tickers
  BY DEF TypeOK, Memory, CapInv, EngineState, TradeRead
<1>2. /\ UNCHANGED history /\ Open(Book)' = Open(Book) /\ engine'.stage = engine.stage
      /\ Open(Book) \in SUBSET Tickers
  BY PreparesLeave DEF Prepares, Open, Book
<1>3. p \in Proposal /\ p.ticker \in Tickers
  <2>1. engine.todo \in Seq(Proposal) /\ engine.todo # <<>>
    BY <1>1 DEF TradeRead, EngineState
  <2>2. p \in Proposal
    BY <2>1
  <2>. QED BY <2>2 DEF Proposal
<1>4. engine'.names = engine.names \/ (Executable(p) /\ engine'.names = Counted(p))
  BY <1>1 DEF TradeRead, EngineState
<1>5. ASSUME Executable(p) PROVE Cardinality(Counted(p)) <= history.ceiling
  <2>. HIDE DEF p
  <2>1. CASE p.side = "SELL"
    BY <1>1, <2>1 DEF Counted
  <2>2. CASE p.side # "SELL" /\ engine.stage = "trade"
    <3>1. p.ticker \in Open(Book) \/ Cardinality(Open(Book)) < MaxPositions
      BY <1>3, <1>5, <2>2 DEF Executable, SlotAtExecution, SlotFree, Open
    <3>2. Counted(p) = Open(Book) \cup {p.ticker}
      BY <2>2 DEF Counted
    <3>. QED BY <1>1, <1>2, <1>3, <3>1, <3>2, OneMore
  <2>3. CASE p.side # "SELL" /\ engine.stage # "trade" /\ strategy = "llm"
    <3>1. p.ticker \in engine.names \/ Cardinality(engine.names) < MaxPositions
      BY <1>5, <2>3 DEF Executable, SlotAtExecution
    <3>2. Counted(p) = engine.names \cup {p.ticker}
      BY <2>3 DEF Counted
    <3>. QED BY <1>1, <1>3, <3>1, <3>2, OneMore
  <2>4. CASE p.side # "SELL" /\ engine.stage # "trade" /\ strategy # "llm"
    <3>1. Counted(p) = {}
      BY <2>4 DEF Counted
    <3>2. MaxPositions \in Nat
      BY Percentages
    <3>. QED BY <1>1, <3>1, <3>2, NoNames
  <2>. QED BY <2>1, <2>2, <2>3, <2>4
<1>6. Cardinality(engine'.names) <= history.ceiling
  <2>. HIDE DEF p
  <2>. QED BY <1>1, <1>4, <1>5
<1>. QED BY <1>1, <1>2, <1>6 DEF CapInv

LEMMA TradeKeepsCap ==
  ASSUME TypeOK, StageInv, CapInv, NEW c \in Callers, TradeCommit(c)
  PROVE  CapInv'
<1> DEFINE x == tx[c]
<1>1. /\ engine \in EngineState /\ history \in Memory /\ engine.names \in SUBSET Tickers
      /\ engine'.names \in {{}, engine.names}
      /\ engine'.stage = engine.stage \/ engine' = Idle
      /\ Idle.stage = "idle"
  BY TradeLeaves DEF TypeOK, EngineState, Idle
<1>2. engine'.stage = "wipe" => engine'.names = {}
  BY <1>1 DEF CapInv
<1>3. CASE RowConflict(x)
  <2>1. UNCHANGED <<account, positions>> /\ history'.ceiling = history.ceiling
    BY <1>1, <1>3 DEF TradeCommit, Memory
  <2>2. Open(Book)' = Open(Book)
    BY <2>1 DEF Open, Book
  <2>. QED BY <1>1, <1>2, <2>1, <2>2, CapKeptStays DEF CapKept
<1>4. CASE ~RowConflict(x)
  <2> DEFINE open == Open([Book EXCEPT !.held = HeldAfter(x)])
  <2>1. positions' = HeldAfter(x) /\ history'.ceiling = Ceiling(c, open)
    BY <1>1, <1>4 DEF TradeCommit, Memory
  <2>2. Open(Book)' = open /\ open \in SUBSET Tickers
    BY <2>1 DEF Open, Book
  <2>. HIDE DEF open
  <2>3. /\ history'.ceiling \in Nat /\ MaxPositions <= history'.ceiling
        /\ Cardinality(engine.names) <= history'.ceiling /\ Cardinality(open) <= history'.ceiling
    BY <2>1, <2>2, CeilingTyped DEF CapInv
  <2>4. Cardinality({}) <= history'.ceiling
    BY <2>3, NoNames, Percentages
  <2>. QED BY <1>1, <1>2, <2>2, <2>3, <2>4 DEF CapInv
<1>. QED BY <1>3, <1>4

LEMMA PersistKeepsCap ==
  ASSUME TypeOK, BackfillInv, CapInv, Persist
  PROVE  CapInv'
<1>1. /\ engine \in EngineState /\ history \in Memory /\ history.ceiling \in Nat
      /\ engine' = Idle /\ Idle.names = {} /\ Idle.stage = "idle"
      /\ MaxPositions \in Nat
  BY Percentages DEF TypeOK, Memory, Persist, Idle
<1>2. CASE UNCHANGED <<db, history>>
  <2>1. Open(Book)' = Open(Book) /\ history'.ceiling = history.ceiling
    BY <1>2 DEF Open, Book, db
  <2>. QED BY <1>1, <2>1, CapKeptStays DEF CapKept
<1>3. CASE ~UNCHANGED <<db, history>>
  <2> DEFINE old == Open(Book)
             new == Open(engine.book)
             top == history'.ceiling
  <2>1. /\ positions' = [t \in Tickers |-> positions[t] + engine.book.held[t]]
        /\ top = Max({history.ceiling, MaxPositions + Cardinality(old)})
    BY <1>1, <1>3 DEF Persist, Memory
  <2>2. positions \in [Tickers -> Nat] /\ engine.book.held \in [Tickers -> Nat]
    BY <1>1 DEF TypeOK, EngineState, Ledger, Holdings
  <2>3. Open(Book)' \subseteq old \cup new /\ old \in SUBSET Tickers /\ new \in SUBSET Tickers
    BY <2>1, <2>2 DEF Open, Book
  <2>4. Cardinality(new) <= MaxPositions
    BY DEF BackfillInv, Backfilling, Persist
  <2>. HIDE DEF old, new, top
  <2>5. /\ IsFiniteSet(old) /\ IsFiniteSet(new) /\ Cardinality(old) \in Nat /\ Cardinality(new) \in Nat
    BY <2>3, FewerNames
  <2>6. Cardinality(old \cup new) <= Cardinality(old) + Cardinality(new)
    <3>1. /\ Cardinality(old \cup new) = Cardinality(old) + Cardinality(new) - Cardinality(old \cap new)
          /\ Cardinality(old \cap new) \in Nat
      BY <2>3, <2>5, FS_Union, FewerNames
    <3>. QED BY <2>5, <3>1
  <2>7. Cardinality(Open(Book)') \in Nat /\ Cardinality(old \cup new) \in Nat
        /\ Cardinality(Open(Book)') <= Cardinality(old \cup new)
    BY <2>3, FewerNames
  <2>8. top \in Nat /\ history.ceiling <= top /\ MaxPositions + Cardinality(old) <= top
    BY <1>1, <2>1, <2>5, LargestOfTwo
  <2>9. Cardinality(Open(Book)') <= top /\ MaxPositions <= top
    BY <1>1, <2>4, <2>5, <2>6, <2>7, <2>8
  <2>10. Cardinality({}) <= top
    BY <1>1, <2>8, <2>9, NoNames
  <2>. QED BY <1>1, <2>9, <2>10 DEF CapInv, top
<1>. QED BY <1>2, <1>3

LEMMA CapStep ==
  ASSUME TypeOK, StageInv, BackfillInv, CapInv, [Next]_vars
  PROVE  CapInv'
<1>1. /\ engine \in EngineState /\ history \in Memory /\ engine.names \in SUBSET Tickers
      /\ Idle.names = {} /\ Idle.stage = "idle"
  BY DEF TypeOK, EngineState, Idle
<1>2. CASE Moves
  <2>1. Open(Book)' = Open(Book)
    BY <1>2, MovesLeave DEF Open, Book
  <2>. QED BY <1>2, <2>1, MovesLeave, CapKeptStays DEF CapKept
<1>3. CASE Prepares /\ ~TradeRead
  <2>1. UNCHANGED <<engine, history>> /\ Open(Book)' = Open(Book)
    BY <1>3, PreparesLeave DEF Open, Book
  <2>. QED BY <2>1, CapKeptStays DEF CapKept, CapInv
<1>4. ASSUME NEW c \in Callers, DepositCommit(c) PROVE CapInv'
  <2>1. Open(Book)' = Open(Book) /\ history'.ceiling = history.ceiling
    BY <1>4, DepositLeaves DEF Open, Book
  <2>2. engine' = engine \/ engine' = Idle \/ engine' = [engine EXCEPT !.stage = "bench"]
    BY <1>4, DepositLeaves
  <2>3. engine'.names \in {{}, engine.names} /\ (engine'.stage = "wipe" => engine'.names = {})
    BY <1>1, <2>2 DEF CapInv, EngineState
  <2>. QED BY <2>1, <2>3, CapKeptStays DEF CapKept
<1>5. CASE Elsewhere
  <2>1. Open(Book)' = Open(Book) /\ history'.ceiling = history.ceiling
    BY <1>5, ElsewhereLeaves DEF Open, Book
  <2>2. engine'.names \in {{}, engine.names} /\ (engine'.stage = "wipe" => engine'.names = {})
    <3>1. CASE UNCHANGED engine \/ engine' = Idle
      BY <1>1, <3>1 DEF CapInv
    <3>2. CASE BenchMoves
      BY <3>2, BenchMovesLeave
    <3>. QED BY <1>5, <3>1, <3>2, ElsewhereLeaves
  <2>. QED BY <2>1, <2>2, CapKeptStays DEF CapKept
<1>6. CASE MarkReviewed \/ BackfillStart \/ ChatValuate
  <2>1. UNCHANGED <<positions, history>>
    BY <1>6 DEF MarkReviewed, BackfillStart, ChatValuate, db, Rest, ChatRest
  <2>2. Open(Book)' = Open(Book)
    BY <2>1 DEF Open, Book
  <2>3. engine'.names \in {{}, engine.names} /\ (engine'.stage = "wipe" => engine'.names = {})
    <3>1. CASE MarkReviewed
      BY <1>1, <3>1 DEF MarkReviewed, EngineState
    <3>2. CASE BackfillStart
      <4>1. PICK window \in Windows, m \in Markets :
              engine' = [Idle EXCEPT !.stage = "wipe", !.window = window, !.book = Replayed(window, m)]
        BY <3>2 DEF BackfillStart
      <4>2. engine'.names = {}
        BY <4>1 DEF Idle
      <4>. QED BY <4>2
    <3>3. CASE ChatValuate
      BY <3>3 DEF ChatValuate, ChatRest, CapInv
    <3>. QED BY <1>6, <3>1, <3>2, <3>3
  <2>. QED BY <2>1, <2>2, <2>3, CapKeptStays DEF CapKept
<1>7. CASE Wipe
  <2>1. /\ positions' = Nothing /\ engine'.names = engine.names /\ engine.names = {}
        /\ engine'.stage = "persist" /\ history'.ceiling = MaxPositions
    BY <1>1, <1>7 DEF Wipe, EngineState, Memory, CapInv
  <2>2. Open(Book)' = {}
    BY <2>1 DEF Open, Book, Nothing
  <2>3. MaxPositions <= MaxPositions
    BY Percentages
  <2>. QED BY <2>1, <2>2, <2>3, NoNames DEF CapInv
<1>8. CASE Reset
  <2> DEFINE n == Cardinality(engine.names)
             top == history'.ceiling
  <2>1. positions' = Nothing /\ engine' = engine /\ top = Max({MaxPositions, n})
    BY <1>1, <1>8 DEF Reset, Memory
  <2>2. Open(Book)' = {}
    BY <2>1 DEF Open, Book, Nothing
  <2>3. n \in Nat /\ MaxPositions \in Nat
    BY <1>1, FewerNames, Percentages
  <2>. HIDE DEF n, top
  <2>4. top \in Nat /\ MaxPositions <= top /\ n <= top
    BY <2>1, <2>3, LargestOfTwo
  <2>5. Cardinality({}) <= top
    BY <2>3, <2>4, NoNames
  <2>. QED BY <2>1, <2>2, <2>4, <2>5 DEF CapInv, n, top
<1>. QED BY <1>2, <1>3, <1>4, <1>5, <1>6, <1>7, <1>8, ReadKeepsCap, TradeKeepsCap, PersistKeepsCap, StepsSplit

-----------------------------------------------------------------------------
(* The inductive invariant and what it implies.                            *)

Inductive ==
  /\ TypeOK /\ StageInv /\ AccountInv /\ BackfillInv
  /\ BenchInv /\ AccountMarked /\ AccountMoney
  /\ ReviewInv /\ ReviewsSpaced /\ CapInv

LEMMA InductiveInit ==
  ASSUME Init
  PROVE  Inductive
<1>1. /\ TypeOK /\ StageInv /\ engine = Idle /\ history = NoHistory /\ account = NoAccount /\ positions = Nothing
      /\ allowances = {} /\ bench = NoBench /\ dca = NoDca /\ week = FirstWeek /\ week \in Weeks /\ week \in Nat
  <2>1. TypeOK /\ StageInv
    BY StageInit
  <2>2. week \in Weeks
    BY <2>1 DEF TypeOK
  <2>3. week \in Nat
    BY <2>2 DEF Weeks
  <2>. QED BY <2>1, <2>2, <2>3 DEF Init
<1>2. \A c \in Callers : tx[c].kind = "none"
  <2>1. NoTx.kind = "none" /\ \A c \in Callers : tx[c] = NoTx
    BY DEF Init, NoTx
  <2>. QED BY <2>1
<1>3. Month(week) \in Nat /\ Month(week) >= 1
  BY <1>1, MonthTyped
<1>4. /\ Book.cash = StartCash /\ Equity(Book) = StartCash /\ Open(Book) = {}
  <2>1. Book = [cash |-> StartCash, held |-> Nothing]
    BY <1>1 DEF Book, NoAccount, FreshAccount
  <2>. QED BY <2>1, EmptyBook, Constants
<1>5. ~Backfilling /\ engine.stage = "idle" /\ ~Reviewing /\ engine.week = 0 /\ engine.names = {}
  <2>1. engine.stage = "idle" /\ engine.week = 0 /\ engine.names = {}
    BY <1>1 DEF Idle
  <2>. QED BY <2>1 DEF Backfilling, Reviewing
<1>6. account.month = 0 /\ account.review = 0 /\ ~account.exists
  BY <1>1 DEF NoAccount, FreshAccount
<1>7. /\ history.funded = {} /\ history.reviews = <<>> /\ history.base = StartCash
      /\ history.ceiling = MaxPositions
  BY <1>1 DEF NoHistory
<1>8. AccountInv
  <2>1. \A c \in Callers : tx[c].kind # "deposit"
    BY <1>2
  <2>. QED BY <1>1, <1>3, <1>5, <1>6, <1>7, <2>1 DEF AccountInv
<1>9. BackfillInv
  BY <1>5 DEF BackfillInv
<1>10. BenchInv
  <2>1. bench.month = 0 /\ bench.cash = 0 /\ dca.kind = "none" /\ dca.month = 0
    BY <1>1 DEF NoBench, FreshBench, NoDca
  <2>2. BenchMarked
    BY <1>3, <1>7, <2>1, LatestOfNone DEF BenchMarked
  <2>3. BenchWindow
    BY <1>5, <2>1 DEF BenchWindow
  <2>4. BenchMoney
    BY <1>7, <2>1, NoMonths DEF BenchMoney
  <2>. QED BY <2>2, <2>3, <2>4 DEF BenchInv
<1>11. AccountMarked
  BY <1>1, <1>5, <1>6, LatestOfNone DEF AccountMarked
<1>12. AccountMoney
  BY <1>1, <1>4, <1>7, NoMonths, Constants DEF AccountMoney
<1>13. ReviewInv /\ ReviewsSpaced
  <2>1. Unfinished = <<>>
    BY <1>5, <1>7 DEF Unfinished
  <2>. QED BY <1>1, <1>5, <1>6, <1>7, <2>1 DEF ReviewInv, ReviewsSpaced
<1>14. CapInv
  BY <1>4, <1>5, <1>7, NoNames, Percentages DEF CapInv
<1>. QED BY <1>1, <1>8, <1>9, <1>10, <1>11, <1>12, <1>13, <1>14 DEF Inductive

LEMMA InductiveStep ==
  ASSUME Inductive, [Next]_vars
  PROVE  Inductive'
<1>1. /\ TypeOK /\ StageInv /\ AccountInv /\ BackfillInv
      /\ BenchInv /\ AccountMarked /\ AccountMoney
      /\ ReviewInv /\ ReviewsSpaced /\ CapInv
  BY DEF Inductive
<1>2. TypeOK' /\ StageInv' /\ AccountInv' /\ BackfillInv'
  BY <1>1, TypeStep, StageStep, AccountStep, BackfillStep
<1>3. BenchInv' /\ AccountMarked' /\ AccountMoney'
  BY <1>1, BenchStep, AccountMarkedStep, AccountMoneyStep
<1>4. ReviewInv' /\ ReviewsSpaced' /\ CapInv'
  BY <1>1, ReviewStep, CapStep
<1>. QED BY <1>2, <1>3, <1>4 DEF Inductive

\* All of it together is inductive: it holds through every overlap of the
\* transactions of cycle, backfill, chat, status requests and resets.
THEOREM InductiveHolds == Spec => []Inductive
BY InductiveInit, InductiveStep, PTL DEF Spec

\* Cash and holdings of the account are its starting cash and one allowance a
\* month, and the benchmark has been paid every month once, through cycles,
\* backfills, chat turns, resets and restarts; except, until the next reset or
\* backfill, after a commit over what somebody else had changed since the
\* reading, which is what raced and benchRaced say (sim.py:178-201, 293-373,
\* 2275-2330, 2428-2463, 2600-2660).
THEOREM MoneyIsConserved == Spec => []MoneyConserved
<1>1. Inductive => MoneyConserved
  <2> SUFFICES ASSUME Inductive PROVE MoneyConserved
    OBVIOUS
  <2>1. TypeOK /\ AccountMoney /\ BenchMoney
    BY DEF Inductive, BenchInv
  <2>2. Equity(Book) = account.cash + Invested(Book)
    BY <2>1, BookTyped DEF Equity
  <2>. QED BY <2>1, <2>2 DEF MoneyConserved, AccountMoney, BenchMoney
<1>. QED BY <1>1, InductiveHolds, PTL

\* A buy of the engine takes the number of positions to the cap at most, or
\* leaves it where buys it does not count have taken it: those of the chat, the
\* additions of a review, and one that commits after a position was opened
\* behind the engine's count (sim.py:498-512, 1626-1640).
THEOREM EngineCapHeld == Spec => []EngineKeepsCap
<1>1. Inductive => EngineKeepsCap
  BY DEF Inductive, CapInv, EngineKeepsCap
<1>. QED BY <1>1, InductiveHolds, PTL

\* Two reviews are at least an interval apart, so no week has two, also when
\* the week ends while one is under way; the reviews of cycles that failed
\* before the mark do not count (sim.py:1855-1936).
THEOREM ReviewsAreSpaced == Spec => []ReviewsSpaced
<1>1. Inductive => ReviewsSpaced
  BY DEF Inductive
<1>. QED BY <1>1, InductiveHolds, PTL

\* The markers of account and benchmark name the latest month paid in, but for
\* a backfill that the month's end has overtaken (sim.py:178-201, 2326-2330,
\* 2616-2622).
THEOREM MarkersTell == Spec => []MarkersTellPayments
<1>1. Inductive => MarkersTellPayments
  BY DEF Inductive, AccountMarked, BenchInv, BenchMarked, MarkersTellPayments
<1>. QED BY <1>1, InductiveHolds, PTL
=============================================================================
