------------------------------- MODULE Market -------------------------------
(***************************************************************************)
(* Fetching candles (app/market.py): refresh() of one ticker by several    *)
(* workers at once, the limiter in front of the metered provider, and the  *)
(* freshness map that lets a batch reuse an earlier one's fetches.         *)
(*                                                                         *)
(* Time goes in ticks; the day changes every DayLength of them.  A worker  *)
(* that has slept finds the time it finds: the model does not say when the *)
(* event loop runs it.  What the limiter promises, and the history it is   *)
(* promised of, are in Quota.  Operators introduced by "Mutant:" are       *)
(* plausible bugs in the definition that follows them.                     *)
(***************************************************************************)
EXTENDS Quota, Sequences, FiniteSets, SequencesExt

CONSTANTS
  Workers,    \* refreshes that run at once: the semaphore of refresh_many, endpoints
  Tickers,
  MaxAge,     \* market_fresh_seconds, in ticks
  LastTick    \* bound

\* What acquire makes of its settings is at least one.
Settings ==
  /\ MaxPerMin \in Nat \ {0} /\ Budget \in Nat \ {0}
  /\ Minute \in Nat \ {0} /\ MaxAge \in Nat /\ DayLength \in Nat \ {0}
  /\ LastTick \in Nat

ASSUME MarketAssumption == Settings

Never == -MaxAge

VARIABLES
  now,      \* the clock
  limiter,  \* _TwelveLimiter: _calls, _day (-1 is None) and _used
  worker,   \* what each refresh is at
  freshAt   \* _fresh_at

vars == <<now, limiter, worker, freshAt, granted>>

Idle == [at |-> "idle", ticker |-> "none", wake |-> 0]

Init ==
  /\ now = 0
  /\ limiter = [calls |-> <<>>, day |-> -1, used |-> 0]
  /\ worker = [w \in Workers |-> Idle]
  /\ freshAt = [t \in Tickers |-> Never]
  /\ granted = <<>>

-----------------------------------------------------------------------------
(* _TwelveLimiter.acquire, of which one round is made under its lock.      *)

\* A new day starts with an empty window and an unspent budget.
Today ==
  IF limiter.day = Day(now) THEN limiter ELSE [calls |-> <<>>, day |-> Day(now), used |-> 0]

\* What has left the window is taken from the front, until a call that has not.
Expired(calls) == Max({k \in 0..Len(calls) : \A i \in 1..k : now - calls[i] >= Minute})
InWindow(calls) == SubSeq(calls, Expired(calls) + 1, Len(calls))

SlotFree(calls) == Len(calls) < MaxPerMin

\* Mutant: a worker that has slept for its slot takes it.
SleeperServed(w, calls) == worker[w].wake > 0 \/ SlotFree(calls)

Admitted(w, calls) == SlotFree(calls)

Acquire(w) ==
  LET calls == InWindow(Today.calls) IN
  /\ worker[w].at = "acquire" /\ worker[w].wake <= now
  /\ IF Today.used >= Budget
     THEN /\ limiter' = Today
          /\ worker' = [worker EXCEPT ![w].at = "yahoo"]
          /\ UNCHANGED granted
     ELSE IF Admitted(w, calls)
     THEN /\ limiter' = [calls |-> Append(calls, now), day |-> Day(now), used |-> Today.used + 1]
          /\ worker' = [worker EXCEPT ![w].at = "metered"]
          /\ granted' = Append(granted, now)
     ELSE /\ limiter' = [Today EXCEPT !.calls = calls]
          /\ worker' = [worker EXCEPT ![w].wake = Head(calls) + Minute]
          /\ UNCHANGED granted
  /\ UNCHANGED <<now, freshAt>>

-----------------------------------------------------------------------------
(* refresh and refresh_many                                                *)

Fresh(t) == now - freshAt[t] < MaxAge

\* A batch skips what is fresh when it is put together; a single refresh
\* fetches whatever it is asked for.
Start(w) ==
  /\ worker[w] = Idle
  /\ \E t \in Tickers, batch \in BOOLEAN :
       /\ ~(batch /\ Fresh(t))
       /\ worker' = [worker EXCEPT ![w] = [at |-> "acquire", ticker |-> t, wake |-> 0]]
  /\ UNCHANGED <<now, limiter, freshAt, granted>>

\* The provider answers, or fails and Yahoo is asked.
Metered(w, ok) ==
  /\ worker[w].at = "metered"
  /\ worker' = [worker EXCEPT ![w].at = IF ok THEN "store" ELSE "yahoo"]
  /\ UNCHANGED <<now, limiter, freshAt, granted>>

Yahoo(w, ok) ==
  /\ worker[w].at = "yahoo"
  /\ worker' = [worker EXCEPT ![w] = IF ok THEN [@ EXCEPT !.at = "store"] ELSE Idle]
  /\ UNCHANGED <<now, limiter, freshAt, granted>>

Store(w) ==
  /\ worker[w].at = "store"
  /\ freshAt' = [freshAt EXCEPT ![worker[w].ticker] = now]
  /\ worker' = [worker EXCEPT ![w] = Idle]
  /\ UNCHANGED <<now, limiter, granted>>

Work(w) ==
  \/ Acquire(w) \/ Store(w)
  \/ \E ok \in BOOLEAN : Metered(w, ok) \/ Yahoo(w, ok)

Tick ==
  /\ now < LastTick
  /\ now' = now + 1
  /\ UNCHANGED <<limiter, worker, freshAt, granted>>

\* The clock stops at its bound, with workers still asleep.
Done == now = LastTick /\ UNCHANGED vars

Next == Tick \/ Done \/ \E w \in Workers : Start(w) \/ Work(w)

Spec == Init /\ [][Next]_vars

-----------------------------------------------------------------------------
(* Inductive invariants: what makes QuotaKept (of Quota) hold.             *)

Limits == [calls: Seq(Nat), day: Nat \cup {-1}, used: 0..Budget]
Jobs == [at: {"idle", "acquire", "metered", "yahoo", "store"},
         ticker: Tickers \cup {"none"}, wake: Nat]

TypeOK ==
  /\ now \in 0..LastTick
  /\ limiter \in Limits
  /\ worker \in [Workers -> Jobs]
  /\ freshAt \in [Tickers -> Int]
  /\ granted \in Seq(0..LastTick)

\* The calls were made one after the other; the last ones, as many as the
\* limiter counts, are those of its day; its window holds the last of them,
\* and the others have left it for good.
Counts(l) ==
  LET n == Len(granted)
      today == n - l.used
      old == n - Len(l.calls)
  IN  /\ 0 <= today /\ today <= old
      /\ \A j \in 1..Len(l.calls) : l.calls[j] = granted[old + j]
      /\ \A i \in 1..n : Day(granted[i]) <= l.day /\ (Day(granted[i]) = l.day <=> today < i)
      /\ \A i \in (today + 1)..old : now - granted[i] >= Minute
      /\ l.day <= Day(now)

WindowInv ==
  /\ Counts(limiter)
  /\ \A i \in 1..Len(granted) : granted[i] <= now
  /\ \A i, j \in 1..Len(granted) : i <= j => granted[i] <= granted[j]
=============================================================================
