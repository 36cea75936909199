------------------------------ MODULE Schedule ------------------------------
(***************************************************************************)
(* What a tick of the scheduler (sim.py:2734-2795) owes the portfolios,    *)
(* whoever holds their locks and whatever fails.                           *)
(***************************************************************************)

CONSTANTS
  TradingDays,   \* is_trading_day
  RebalanceDays  \* the last trading day of a month

VARIABLES
  date,    \* the UTC day
  ticked,  \* scheduler loops that have woken up today
  task,    \* what each task is at, and what it has still to do
  reached  \* what the properties remember; no action reads it

Idle == [at |-> "idle", todo |-> <<>>]

\* A tick gets to every portfolio that is due: whatever the other portfolios
\* are at, whatever fails or is skipped before, each is served or its own
\* lock was taken (sim.py:2739-2740, 2768-2770).
DueToday == {"sim", "daily"} \cup (IF date \in RebalanceDays THEN {"monthly"} ELSE {})
EveryStageReached ==
  "tick" \in ticked /\ date \in TradingDays /\ task["tick"] = Idle /\ "tick" \notin reached.cut
    => DueToday \subseteq reached.served
=============================================================================
