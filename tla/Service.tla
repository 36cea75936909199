------------------------------ MODULE Service ------------------------------
(***************************************************************************)
(* How the portfolios run side by side in one event loop: the scheduler's  *)
(* tick (sim.py:2734-2795), the daily mark loop (sim.py:2814-2872), the    *)
(* coordinator of backfill-all and reset-all (main.py:633-717, 1280-1302)  *)
(* and the single endpoints, over the lock of each portfolio.  What an     *)
(* operation does under its lock is modelled by Sim, Monthly and           *)
(* DailyCore; here it begins, and ends well or with an exception.  What    *)
(* the tick promises, and the variables that tell, are in Schedule.        *)
(*                                                                         *)
(* An asyncio.Lock is FIFO: who comes while others wait queues up, and a   *)
(* lock that was released for a waiter is unlocked until the waiter runs.  *)
(* Operators introduced by "Mutant:" are plausible bugs in the definition  *)
(* that follows them.                                                      *)
(***************************************************************************)
EXTENDS Schedule, Naturals, Sequences, FiniteSets, SequencesExt

CONSTANTS
  Users,        \* requests of the single endpoints that run at once
  LastDay,      \* bound: days are 1..LastDay
  MaxRequests,  \* bound: requests, of single endpoints and of the coordinator
  MaxCrashes    \* bound: restarts

Tasks == {"tick", "mark", "bulk"} \cup Users
Portfolios == {"sim", "monthly", "daily", "bench"}
Locks == {"sim", "monthly", "daily"}
Nobody == "nobody"

Calendar ==
  /\ Users \cap {"tick", "mark", "bulk", Nobody} = {}
  /\ RebalanceDays \subseteq TradingDays
  /\ LastDay \in Nat \ {0} /\ MaxRequests \in Nat /\ MaxCrashes \in Nat

ASSUME ServiceAssumption == Calendar

VARIABLES
  lock,  \* _run_cycle_lock, _rebalance_lock and _cycle_lock
  spent  \* what the bounds count

vars == <<date, ticked, lock, task, reached, spent>>

-----------------------------------------------------------------------------
(* Operations and the locks they take.                                     *)

Op(kind, p) == [kind |-> kind, of |-> p]
Cycle(p) == Op("cycle", p)
Backfill(p) == Op("backfill", p)
Reset(p) == Op("reset", p)

Tick == <<Cycle("monthly"), Cycle("sim"), Cycle("daily")>>
Mark == <<Op("mark", "monthly")>>
BackfillAll == <<Backfill("sim"), Backfill("monthly"), Backfill("daily"), Backfill("bench")>>
ResetAll == <<Reset("sim"), Reset("monthly"), Reset("daily")>>

\* The single endpoints; "force" is a daily cycle that does not mind the lock.
Requests ==
  {Cycle(p) : p \in Locks} \cup {Backfill(p) : p \in Portfolios}
    \cup {Reset(p) : p \in Locks} \cup {Op("force", "daily")}

LockOf(op) == IF op.of = "bench" THEN "sim" ELSE op.of

\* Skipped, not queued, when the lock is taken.
Skippable(op) == op.kind \in {"cycle", "mark"} \/ op = Backfill("sim")

\* reset_sim takes no lock.
Lockless(op) == op = Reset("sim")

Free == [owner |-> Nobody, queue |-> <<>>]

Current(t) == Head(task[t].todo)
Locked(l) == lock[l].owner # Nobody

Init ==
  /\ date = 1 /\ ticked = {}
  /\ lock = [l \in Locks |-> Free]
  /\ task = [t \in Tasks |-> Idle]
  /\ reached = [served |-> {}, attempted |-> {}, cut |-> {}]
  /\ spent = [requests |-> 0, crashes |-> 0]

-----------------------------------------------------------------------------
(* Tasks.                                                                  *)

Launch(t, ops) ==
  /\ task[t] = Idle
  /\ task' = [task EXCEPT ![t] = [at |-> "next", todo |-> ops]]

\* A loop that wakes up on a day without trading goes back to sleep.
Wake(t, ops) ==
  /\ t \notin ticked
  /\ IF date \in TradingDays THEN Launch(t, ops) ELSE UNCHANGED task
  /\ ticked' = ticked \cup {t}
  /\ reached' = IF t = "tick" THEN [reached EXCEPT !.served = {}, !.cut = @ \ {t}] ELSE reached
  /\ UNCHANGED <<date, lock, spent>>

\* The daily mark comes five minutes before the tick.
WakeMark == Wake("mark", Mark)
WakeTick == "mark" \in ticked /\ Wake("tick", Tick)

Request(u) ==
  /\ spent.requests < MaxRequests
  /\ \E op \in Requests : Launch(u, <<op>>)
  /\ spent' = [spent EXCEPT !.requests = @ + 1]
  /\ UNCHANGED <<date, ticked, lock, reached>>

\* _backfill_all_lock: a second coordinator is turned away.
Coordinate(ops) ==
  /\ spent.requests < MaxRequests
  /\ Launch("bulk", ops)
  /\ spent' = [spent EXCEPT !.requests = @ + 1]
  /\ reached' = [reached EXCEPT !.attempted = {}, !.cut = @ \ {"bulk"}]
  /\ UNCHANGED <<date, ticked, lock>>

\* Goes on to what is still to do, which is left to it.
Onward(t, todo) ==
  task' = [task EXCEPT ![t] = IF todo = <<>> THEN Idle ELSE [at |-> "next", todo |-> todo]]

Noted(t) ==
  CASE t = "tick" -> [reached EXCEPT !.served = @ \cup {Current(t).of}]
    [] t = "bulk" -> [reached EXCEPT !.attempted = @ \cup {Current(t).of}]
    [] OTHER -> reached

\* Mutant: a simulation under way makes the tick skip everything.
SkippedForSim(t) ==
  \/ Skippable(Current(t)) /\ Locked(LockOf(Current(t)))
  \/ t = "tick" /\ Locked("sim")
  \/ t = "tick" /\ Current(t).of = "monthly" /\ date \notin RebalanceDays

Skipped(t) ==
  \/ Skippable(Current(t)) /\ Locked(LockOf(Current(t)))
  \/ t = "tick" /\ Current(t).of = "monthly" /\ date \notin RebalanceDays

Skip(t) ==
  /\ task[t].at = "next" /\ Skipped(t)
  /\ reached' = IF Locked(LockOf(Current(t))) THEN Noted(t) ELSE reached
  /\ Onward(t, Tail(task[t].todo))
  /\ UNCHANGED <<date, ticked, lock, spent>>

\* async with: at once when nobody holds the lock or waits for it.
Enter(t) ==
  LET l == LockOf(Current(t)) IN
  /\ task[t].at = "next" /\ ~Skipped(t)
  /\ \/ /\ Lockless(Current(t))
        /\ task' = [task EXCEPT ![t].at = "running"]
        /\ UNCHANGED lock
     \/ /\ ~Lockless(Current(t)) /\ lock[l] = Free
        /\ task' = [task EXCEPT ![t].at = "running"]
        /\ lock' = [lock EXCEPT ![l].owner = t]
     \/ /\ ~Lockless(Current(t)) /\ lock[l] # Free
        /\ task' = [task EXCEPT ![t].at = "queued"]
        /\ lock' = [lock EXCEPT ![l].queue = Append(@, t)]
  /\ UNCHANGED <<date, ticked, reached, spent>>

\* The waiter that was woken takes the lock.
Grant(l) ==
  /\ ~Locked(l) /\ lock[l].queue # <<>>
  /\ LET t == Head(lock[l].queue)
     IN  /\ lock' = [lock EXCEPT ![l] = [owner |-> t, queue |-> Tail(@.queue)]]
         /\ task' = [task EXCEPT ![t].at = "running"]
  /\ UNCHANGED <<date, ticked, reached, spent>>

Released(l, t) == IF lock[l].owner = t THEN [lock EXCEPT ![l].owner = Nobody] ELSE lock

\* Mutant: what one replay raises ends the others.
StoppedOnFailure(t, failed) == IF failed THEN <<>> ELSE Tail(task[t].todo)

\* The tick and the coordinator of the backfills catch what a stage raises;
\* that of the resets does not.
Remaining(t, failed) ==
  IF failed /\ Current(t).kind = "reset" THEN <<>> ELSE Tail(task[t].todo)

Finish(t, failed) ==
  /\ task[t].at = "running"
  /\ lock' = Released(LockOf(Current(t)), t)
  /\ reached' = Noted(t)
  /\ Onward(t, Remaining(t, failed))
  /\ UNCHANGED <<date, ticked, spent>>

Step(t) == Skip(t) \/ Enter(t) \/ \E failed \in BOOLEAN : Finish(t, failed)

\* A tick is over before the next day's.
NextDay ==
  /\ date < LastDay /\ ticked = {"mark", "tick"} /\ task["tick"] = Idle /\ task["mark"] = Idle
  /\ date' = date + 1 /\ ticked' = {}
  /\ UNCHANGED <<lock, task, reached, spent>>

\* Locks and tasks are the process's.
Crash ==
  /\ spent.crashes < MaxCrashes
  /\ spent' = [spent EXCEPT !.crashes = @ + 1]
  /\ lock' = [l \in Locks |-> Free]
  /\ task' = [t \in Tasks |-> Idle]
  /\ reached' = [reached EXCEPT !.cut = @ \cup ({"tick", "bulk"} \cap {t \in Tasks : task[t] # Idle})]
  /\ UNCHANGED <<date, ticked>>

\* The last day goes on for ever.
Done == date = LastDay /\ ticked = {"mark", "tick"} /\ UNCHANGED vars

Next ==
  \/ WakeMark \/ WakeTick
  \/ \E u \in Users : Request(u)
  \/ Coordinate(BackfillAll) \/ Coordinate(ResetAll)
  \/ \E t \in Tasks : Step(t)
  \/ \E l \in Locks : Grant(l)
  \/ NextDay \/ Crash \/ Done

Spec == Init /\ [][Next]_vars

\* Every operation ends, and the loop runs whoever is ready.
Fairness ==
  /\ \A t \in Tasks : WF_vars(Step(t))
  /\ \A l \in Locks : WF_vars(Grant(l))

FairSpec == Spec /\ Fairness

-----------------------------------------------------------------------------
(* Properties.                                                             *)

\* A backfill-all comes to its end, all four replays attempted, although it
\* waits for the locks of cycles, marks, resets and other backfills and
\* although any of them may fail (main.py:633-717); a restart cuts it off.
BackfillAllEnds ==
  task["bulk"].todo = BackfillAll
    ~> task["bulk"] = Idle /\ (reached.attempted = Portfolios \/ "bulk" \in reached.cut)

\* No two tasks run under the same lock.
Runs(t, l) == task[t].at = "running" /\ ~Lockless(Current(t)) /\ LockOf(Current(t)) = l
OneUnderEachLock == \A l \in Locks : \A s, t \in Tasks : Runs(s, l) /\ Runs(t, l) => s = t

\* A backfill-all is not over before all four replays were attempted, unless
\* a restart cut it off: what BackfillAllEnds says of how it ends.
Replaying == task["bulk"].todo # <<>> /\ Current("bulk").kind = "backfill"
EndsComplete ==
  Replaying /\ task'["bulk"] = Idle =>
    reached'.attempted = Portfolios \/ "bulk" \in reached'.cut

-----------------------------------------------------------------------------
(* Inductive invariants.                                                   *)

Ops == [kind: {"cycle", "backfill", "reset", "mark", "force"}, of: Portfolios]

TaskStates == [at: {"idle", "next", "queued", "running"}, todo: Seq(Ops)]
Memory == [served: SUBSET Portfolios, attempted: SUBSET Portfolios, cut: SUBSET {"tick", "bulk"}]

TypeOK ==
  /\ date \in 1..LastDay /\ ticked \in SUBSET {"mark", "tick"}
  /\ lock \in [Locks -> [owner: Tasks \cup {Nobody}, queue: Seq(Tasks)]]
  /\ task \in [Tasks -> TaskStates]
  /\ reached \in Memory
  /\ spent \in [requests: Nat, crashes: Nat]

\* A lock is held by the one task that runs under it, and the queue of each
\* lock holds, once, every task that waits for it: nobody waits for a lock
\* that will not be handed to him.
Waits(t, l) == task[t].at = "queued" /\ LockOf(Current(t)) = l

Once(q) == \A i, j \in 1..Len(q) : q[i] = q[j] => i = j

LockInv ==
  /\ \A t \in Tasks : task[t].at = "idle" <=> task[t].todo = <<>>
  /\ \A t \in Tasks : task[t].at = "queued" => ~Lockless(Current(t))
  /\ \A l \in Locks : \A t \in Tasks : lock[l].owner = t <=> Runs(t, l)
  /\ \A l \in Locks : \A t \in Tasks : Contains(lock[l].queue, t) <=> Waits(t, l)
  /\ \A l \in Locks : Once(lock[l].queue)

\* Whom what is still to do is for.
Ahead(todo) == {todo[i].of : i \in 1..Len(todo)}

\* A tick has served whom it has not ahead of it any more.
TickInv ==
  /\ task["tick"].todo \in {<<>>, Tick, Tail(Tick), Tail(Tail(Tick))}
  /\ task["tick"].todo # <<>> => "tick" \in ticked /\ date \in TradingDays
  /\ "tick" \in ticked /\ date \in TradingDays /\ "tick" \notin reached.cut
       => DueToday \ Ahead(task["tick"].todo) \subseteq reached.served

\* A backfill-all has attempted whom it has not ahead of it any more.
BulkInv ==
  /\ task["bulk"].todo \in
       {<<>>, BackfillAll, Tail(BackfillAll), Tail(Tail(BackfillAll)), Tail(Tail(Tail(BackfillAll))),
        ResetAll, Tail(ResetAll), Tail(Tail(ResetAll))}
  /\ Replaying => Portfolios \ Ahead(task["bulk"].todo) \subseteq reached.attempted
=============================================================================
