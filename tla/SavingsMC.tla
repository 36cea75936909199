------------------------------ MODULE SavingsMC ------------------------------
(* Small calendars and inputs for TLC. *)
EXTENDS Savings, TLC

\* The last day of a month and the first of the next.
TwoDayMonthOf == (0 :> 1) @@ (1 :> 2)
TwoDayDayOfMonth == (0 :> 3) @@ (1 :> 1)
TwoDayMonthLength == (0 :> 3) @@ (1 :> 31)

\* Two days of a month of two days, then the last two of a month of four: a plan
\* of the 3rd is clamped in the first month and not in the second.
FourDMonthOf == (0 :> 1) @@ (1 :> 1) @@ (2 :> 2) @@ (3 :> 2)
FourDDayOfMonth == (0 :> 1) @@ (1 :> 2) @@ (2 :> 3) @@ (3 :> 4)
FourDMonthLength == (0 :> 2) @@ (1 :> 2) @@ (2 :> 4) @@ (3 :> 4)

NoSeeds == {[t \in Tickers |-> 0]}
SomeSeeds == {[t \in Tickers |-> 0], [t \in Tickers |-> 2]}
=============================================================================
