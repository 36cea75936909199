------------------------------ MODULE DailyBook ------------------------------
(***************************************************************************)
(* What the daily-core portfolio promises about its money: a book of cash  *)
(* and holdings that changes by whole deposits and whole deployment        *)
(* passes.  The pass is the backfill's replay of one trading day           *)
(* (daily_core.py:1073-1205); DailyCore shows that the live engine, which  *)
(* makes the same pass in many transactions, does nothing else.            *)
(*                                                                         *)
(* Money is counted in units above the one-dollar minimum of a trade, and  *)
(* a holding by its value.  Operators introduced by "Mutant:" are          *)
(* plausible bugs in the definition that follows them.                     *)
(***************************************************************************)
EXTENDS Integers, Sequences, FiniteSets, FiniteSetsExt, SequencesExt

CONSTANTS
  Tickers,
  Rankings,      \* the bands a ranking may come out as, best name first
  TargetN,       \* sim_monthly_target_n
  Scales,        \* target over realized volatility in quarters; 4 is "no cap"
  StartCash,     \* sim_monthly_start_cash
  Contribution,  \* sim_monthly_contribution
  MaxMoney       \* bound: deposits and price rises stop here

VARIABLE book

-----------------------------------------------------------------------------
Book == [cash: Nat, value: [Tickers -> Nat]]
Empty(cash) == [cash |-> cash, value |-> [t \in Tickers |-> 0]]

Worth(value, names) == MapThenSumSet(LAMBDA t : value[t], names)
Invested(b) == Worth(b.value, Tickers)
Equity(b) == b.cash + Invested(b)
Weight(b) == Equity(b) \div TargetN

\* What protection made of the day, what names have a price, and the cap.
Verdicts == {"clear", "parked", "out"}
Input == [ranking: Rankings, verdict: Verdicts, priced: SUBSET Tickers, scale: Scales]

\* _vol_deploy_room: new money fits until holdings are the scaled equity.
Room(b, scale) ==
  IF scale = 4 THEN Equity(b)
  ELSE LET room == (Equity(b) * scale) \div 4 - Invested(b) IN IF room > 0 THEN room ELSE 0

Sold(b, names) ==
  [cash |-> b.cash + Worth(b.value, names),
   value |-> [t \in Tickers |-> IF t \in names THEN 0 ELSE b.value[t]]]

\* A state of the buying loop is a book and the room left.
\* Mutant: a name is bought a full weight, whatever is held of it.
BudgetOfWeight(s, t, weight) == Min({weight, s.room, s.book.cash})

\* Mutant: the room is not consulted.
BudgetUncapped(s, t, weight) == Min({weight - s.book.value[t], s.book.cash})

Budget(s, t, weight) == Min({weight - s.book.value[t], s.room, s.book.cash})

Bought(s, t, weight) ==
  LET budget == Budget(s, t, weight)
  IN  IF budget < 1 THEN s
      ELSE [book |-> [cash |-> s.book.cash - budget,
                      value |-> [s.book.value EXCEPT ![t] = @ + budget]],
            room |-> s.room - budget]

\* Mutant: worst name first.
WorstFirst(ranking) == Reverse(SubSeq(ranking, 1, Min({TargetN, Len(ranking)})))

Targets(ranking) == SubSeq(ranking, 1, Min({TargetN, Len(ranking)}))

Deployed(b, in) ==
  LET buy(s, t) == IF t \in in.priced THEN Bought(s, t, Weight(b)) ELSE s
  IN  FoldLeft(buy, [book |-> b, room |-> Room(b, in.scale)], Targets(in.ranking)).book

Released(in) == Tickers \ ToSet(in.ranking)

Passed(b, in) ==
  CASE in.verdict = "out" -> Sold(b, Tickers)
    [] in.verdict = "parked" -> Sold(b, Released(in))
    [] OTHER -> Deployed(Sold(b, Released(in)), in)

Credited(b) == [b EXCEPT !.cash = @ + Contribution]

-----------------------------------------------------------------------------
Init == book = Empty(StartCash)

Bounded == Equity(book) + Contribution <= MaxMoney

Deposit == Bounded /\ book' = Credited(book)

Pass == \E in \in Input : book' = Passed(book, in)

\* A replayed day that begins a month.
Day == Bounded /\ \E in \in Input : book' = Passed(Credited(book), in)

\* reset and the first step of a backfill
Restart == book' \in {Empty(StartCash), Empty(0)}

\* A price moves.
Move ==
  \E t \in Tickers :
    \/ Equity(book) < MaxMoney /\ book.value[t] > 0
       /\ book' = [book EXCEPT !.value[t] = @ + 1]
    \/ book.value[t] > 1 /\ book' = [book EXCEPT !.value[t] = @ - 1]

Next == Deposit \/ Pass \/ Day \/ Restart \/ Move

Spec == Init /\ [][Next]_book

-----------------------------------------------------------------------------
(* Properties.                                                             *)

TypeOK == book \in Book

\* A pass neither makes nor loses money, never runs into debt, and is
\* harmless when it is run again on the same inputs ("top-ups stop when
\* targets are met, so a re-run is harmless").
RerunTradesNothing ==
  \A in \in Input :
    LET after == Passed(book, in)
    IN  /\ after \in Book /\ Equity(after) = Equity(book)
        /\ Passed(after, in) = after

\* The top of the ranking is reinforced first: when a target is bought,
\* every better-ranked name with a price already has its weight.
BestRankFirst ==
  \A in \in Input :
    LET after == Passed(book, in).value
        before == Sold(book, Released(in))
    IN  in.verdict = "clear" =>
          \A i, j \in 1..Len(in.ranking) :
            i < j /\ in.ranking[i] \in in.priced /\ after[in.ranking[j]] > before.value[in.ranking[j]]
            => after[in.ranking[i]] >= Weight(before)

\* The volatility control never sells, and never lets new money take the
\* holdings over the scaled equity.
VolCapHeld ==
  \A in \in Input :
    in.verdict = "clear" /\ in.scale < 4 =>
      LET before == Sold(book, Released(in))
          after == Passed(book, in)
      IN  /\ \A t \in Tickers : after.value[t] >= before.value[t]
          /\ \/ 4 * Invested(after) <= in.scale * Equity(after)
             \/ after = before

=============================================================================
