-------------------------------- MODULE Quota -------------------------------
(***************************************************************************)
(* What the limiter of app/market.py promises the metered provider, as the *)
(* provider sees it: a history of calls, whoever made them and however     *)
(* they were let through.                                                  *)
(***************************************************************************)
EXTENDS Integers

CONSTANTS
  MaxPerMin,  \* twelve_data_max_per_min
  Budget,     \* twelve_data_daily_budget
  Minute,     \* sixty seconds, in ticks
  DayLength

VARIABLE granted  \* the calls of the metered provider so far; no action reads it

Day(t) == t \div DayLength

\* The provider's quota: however many workers wait for a slot, are woken
\* together or come when one has just expired, no minute of a day sees more
\* than MaxPerMin calls and no day more than Budget (market.py:43-50).  The
\* window is emptied at midnight (market.py:66), so a minute that spans it is
\* not covered.
QuotaKept ==
  \A i \in DOMAIN granted :
    /\ i + MaxPerMin \in DOMAIN granted /\ Day(granted[i + MaxPerMin]) = Day(granted[i]) =>
         granted[i + MaxPerMin] - granted[i] >= Minute
    /\ i + Budget \in DOMAIN granted => Day(granted[i + Budget]) # Day(granted[i])
=============================================================================
