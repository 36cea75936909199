------------------------------- MODULE Savings -------------------------------
(***************************************************************************)
(* The real-money savings tracker of app/savings.py, with the endpoints of *)
(* app/main.py that change it and the nightly pass of its scheduler loop.  *)
(*                                                                         *)
(* Every action is one database transaction of the code.  An operation of  *)
(* several transactions (a buy and its mirror allocation, a flush of the   *)
(* parked euros, the removal of a position) therefore takes several steps, *)
(* and the clock, the market and a failure may come between two of them.   *)
(* account_lock (savings.py:55-62) serialises the operations, so nobody     *)
(* writes between the read and the commit of a transaction and it may be   *)
(* taken as one step.                                                      *)
(*                                                                         *)
(* Money is an integer number of half cents, so the 0.005 of the code is   *)
(* one unit.  A day is an index into a calendar given by three constants.  *)
(*                                                                         *)
(* An operator introduced by "Mutant:" is a plausible bug in the one that  *)
(* follows it; no action uses it.                                          *)
(***************************************************************************)
EXTENDS Integers, FiniteSets, FiniteSetsExt

CONSTANTS
  Tickers,       \* what the operator may hold or plan to buy
  PickSets,      \* the sets of priced daily-core picks a ranking may offer
  LastDay,       \* bound: the calendar is 0..LastDay
  MonthOf,       \* [Days -> Nat], the calendar month of a day
  DayOfMonth,    \* [Days -> 1..31]
  MonthLength,   \* [Days -> 1..31], the length of the day's month
  PlanDays,      \* the days of the month plans are configured for
  Amounts,       \* operator inputs: amounts of a buy, a deposit, a plan
  Cashes,        \* operator inputs: seed cash, and the total of a true-up
  Transfers,     \* operator inputs: monthly transfer
  Rates,         \* operator inputs: interest rate
  Seeds,         \* operator inputs: [Tickers -> Nat], cost of seeded holdings
  InterestScale, \* a day's interest is cash * rate \div InterestScale
  MaxOps,        \* bound: operator requests in a behaviour
  MaxAborts      \* bound: crashes and failures inside an operation

NoMonth == -1    \* a YYYY-MM marker that is None
NoDay == -1      \* a YYYY-MM-DD marker that is None
Seed == "seed"   \* source_ticker "": the holdings seeded by initialize

Days == 0..LastDay
Months == {MonthOf[d] : d \in Days}
Sources == Tickers \cup {Seed}
Names == UNION PickSets
PlanKeys == Tickers \X PlanDays
Kinds == {"INIT", "TRANSFER", "INTEREST_PAYOUT", "TRUEUP",
          "SPARPLAN_BUY", "MANUAL_BUY", "SAVEBACK"}

ASSUME CalendarAssumption ==
  /\ LastDay \in Nat
  /\ MonthOf \in [Days -> Nat]
  /\ DayOfMonth \in [Days -> 1..31]
  /\ MonthLength \in [Days -> 1..31]
  /\ \A d, e \in Days : d <= e => MonthOf[d] <= MonthOf[e]

ASSUME InputAssumption ==
  /\ IsFiniteSet(Tickers) /\ Seed \notin Tickers
  /\ IsFiniteSet(PickSets) /\ \A P \in PickSets : IsFiniteSet(P) /\ P # {}
  /\ PlanDays \subseteq 1..31
  /\ Amounts \subseteq Nat \ {0}
  /\ Cashes \subseteq Nat
  /\ Transfers \subseteq Nat
  /\ Rates \subseteq Nat
  /\ Seeds \subseteq [Tickers -> Nat]
  /\ InterestScale \in Nat \ {0}
  /\ MaxOps \in Nat
  /\ MaxAborts \in Nat

\* The days of a month follow one another, and a month the calendar enters
\* is entered no later than on the first day a plan may be due.
ASSUME DueDayAssumption ==
  /\ \A d \in Days : DayOfMonth[d] <= MonthLength[d]
  /\ \A d, e \in Days : MonthOf[d] = MonthOf[e] => MonthLength[d] = MonthLength[e]
  /\ \A d \in Days \ {0} :
       IF MonthOf[d - 1] = MonthOf[d]
       THEN DayOfMonth[d] = DayOfMonth[d - 1] + 1
       ELSE \A day \in PlanDays : DayOfMonth[d] <= day

\* What the seeded holdings cost together.
SeedCost(seeds) == MapThenSumSet(LAMBDA t : seeds[t], Tickers)

\* Whole units only: every amount splits evenly over every set of picks.
Splits(amount) == \A P \in PickSets : amount % Cardinality(P) = 0

ASSUME ShareAssumption ==
  /\ \A a \in Amounts : Splits(a)
  /\ \A s \in Seeds : Splits(SeedCost(s))

VARIABLES
  now,      \* the operator-local day
  picks,    \* priced picks of a fresh stored ranking; {} when there is none
  priced,   \* tickers with a EUR price
  account,  \* the singleton SavingsAccount row
  plans,    \* SavingsPlan rows by (ticker, day_of_month)
  held,     \* cost of each SavingsPosition: seeded part and bought part
  ledger,   \* SavingsEvent amounts, totalled by kind
  placed,   \* SavingsMirrorEntry euros by source and by the picks they bought
  parked,   \* SavingsMirrorPending rows
  mirror,   \* cost of each SavingsMirrorPosition
  snapshot, \* day of the newest SavingsSnapshot row
  lock,     \* holder of account_lock
  cycle,    \* the nightly pass: where it stands, and its local variables
  request,  \* the operator request: where it stands, and its local variables
  history,  \* what the properties remember; no action reads it
  ops,      \* operator requests so far
  aborts    \* failures so far

env == <<now, picks, priced>>
book == <<placed, parked, mirror>>
db == <<account, plans, held, ledger, book, snapshot>>
vars == <<env, db, lock, cycle, request, history, ops, aborts>>

-----------------------------------------------------------------------------
(* The shape of the state.                                                 *)

Account ==
  [open: BOOLEAN, cash: Int, accrued: Int, rate: Nat, transfer: Nat,
   lastTransfer: Int, lastInterest: Int, lastAccrual: Int]

NoAccount ==
  [open |-> FALSE, cash |-> 0, accrued |-> 0, rate |-> 0, transfer |-> 0,
   lastTransfer |-> NoMonth, lastInterest |-> NoMonth, lastAccrual |-> NoDay]

Plan == [exists: BOOLEAN, amount: Nat, executed: Int, created: Days, fired: Nat]
NoPlan == [exists |-> FALSE, amount |-> 0, executed |-> NoMonth,
           created |-> 0, fired |-> 0]

Row == [id: Nat, source: Sources, amount: Nat]

NoPlans == [k \in PlanKeys |-> NoPlan]
NoHoldings == [t \in Tickers |-> [seeded |-> 0, bought |-> 0]]
NoEvents == [k \in Kinds |-> 0]
NoEntries == [s \in Sources |-> [P \in PickSets |-> 0]]
NoMirror == [n \in Names |-> 0]
NoHistory == [seed |-> 0, opened |-> 0, transfers |-> 0, payouts |-> 0,
              firstAccrual |-> NoDay, booked |-> 0]

\* An operation that still owes the mirror `amount` euros from `source`.
Job == [source: Sources, amount: Nat]
NoJob == [source |-> Seed, amount |-> 0]

Stages == {"idle", "transfer", "payout", "accrue", "plans", "buy", "mirror",
           "flush", "row", "unpark", "snapshot"}
Cycle == [stage: Stages, today: Days, due: SUBSET PlanKeys, rows: SUBSET Row, job: Job]
RequestState == [stage: {"idle", "mirror", "unwind"}, job: Job]
History == [seed: Nat, opened: Nat, transfers: Nat, payouts: Nat,
            firstAccrual: Int, booked: Int]
IdleCycle == [stage |-> "idle", today |-> 0, due |-> {}, rows |-> {}, job |-> NoJob]
IdleRequest == [stage |-> "idle", job |-> NoJob]

TypeOK ==
  /\ now \in Days
  /\ picks \in PickSets \cup {{}}
  /\ priced \in SUBSET Tickers
  /\ account \in Account
  /\ plans \in [PlanKeys -> Plan]
  /\ held \in [Tickers -> [seeded: Nat, bought: Nat]]
  /\ ledger \in [Kinds -> Int]
  /\ placed \in [Sources -> [PickSets -> Nat]]
  /\ parked \in SUBSET Row
  /\ DOMAIN mirror = Names
  /\ snapshot \in Days \cup {NoDay}
  /\ lock \in {"free", "cycle", "request"}
  /\ cycle \in Cycle
  /\ request \in RequestState
  /\ history \in History
  /\ ops \in 0..MaxOps
  /\ aborts \in 0..MaxAborts

Init ==
  /\ now = 0
  /\ picks \in PickSets \cup {{}}
  /\ priced \in SUBSET Tickers
  /\ account = NoAccount
  /\ plans = NoPlans
  /\ held = NoHoldings
  /\ ledger = NoEvents
  /\ placed = NoEntries
  /\ parked = {}
  /\ mirror = NoMirror
  /\ snapshot = NoDay
  /\ lock = "free"
  /\ cycle = IdleCycle
  /\ request = IdleRequest
  /\ history = NoHistory
  /\ ops = 0
  /\ aborts = 0

-----------------------------------------------------------------------------
(* The mirror book: what the same euros would have bought.                 *)

\* What each of the picks P gets of an amount spread equally over them.
Share(amount, P) == amount \div Cardinality(P)

\* Cost of every mirror position as the entries' breakdowns add up to.
Rebuilt(entries) ==
  [n \in Names |->
     MapThenSumSet(LAMBDA e : Share(entries[e[1]][e[2]], e[2]),
                   Sources \X {P \in PickSets : n \in P})]

\* One transaction: the positions and the entry with its breakdown.
MirrorAllocate(job) ==
  /\ picks # {}
  /\ placed' = [placed EXCEPT ![job.source][picks] = @ + job.amount]
  /\ mirror' = [n \in Names |-> IF n \in picks
                                THEN mirror[n] + Share(job.amount, picks)
                                ELSE mirror[n]]

\* A parked row gets the id SQLite gives it, one above the largest.
MirrorOrDefer(job) ==
  \/ /\ MirrorAllocate(job)
     /\ UNCHANGED parked
  \/ /\ picks = {}
     /\ \E id \in {1} \cup {r.id + 1 : r \in parked} :
          /\ \A r \in parked : r.id < id
          /\ parked' = parked \cup {[id |-> id, source |-> job.source,
                                     amount |-> job.amount]}
     /\ UNCHANGED <<placed, mirror>>

\* Mutant: the parked rows of the source stay.
UnwindPlacedOnly(source) ==
  LET kept == [placed EXCEPT ![source] = [P \in PickSets |-> 0]]
  IN  /\ parked' = parked
      /\ placed' = kept
      /\ mirror' = IF kept = placed THEN mirror ELSE Rebuilt(kept)

\* Mutant: the positions are not rebuilt.
UnwindEntriesOnly(source) ==
  /\ parked' = {r \in parked : r.source # source}
  /\ placed' = [placed EXCEPT ![source] = [P \in PickSets |-> 0]]
  /\ mirror' = mirror

\* Rows of `source` leave; positions are rebuilt only if an entry left.
UnwindMirror(source) ==
  LET kept == [placed EXCEPT ![source] = [P \in PickSets |-> 0]]
  IN  /\ parked' = {r \in parked : r.source # source}
      /\ placed' = kept
      /\ mirror' = IF kept = placed THEN mirror ELSE Rebuilt(kept)

-----------------------------------------------------------------------------
(* The nightly pass (run_savings_cycle), which a click can also start.     *)

Outside == <<env, request, ops, aborts>>

\* A pass that finds the lock held is skipped: no state changes.
CycleStart ==
  /\ lock = "free"
  /\ lock' = "cycle"
  /\ cycle' = [cycle EXCEPT !.stage = "transfer"]
  /\ UNCHANGED <<db, history, Outside>>

GoTo(stage) == cycle' = [cycle EXCEPT !.stage = stage]

\* Mutant: the month's marker is not consulted.
TransferDueAlways == account.open

TransferDue == account.open /\ account.lastTransfer # MonthOf[now]

DepositMonthlyTransfer ==
  /\ cycle.stage = "transfer"
  /\ GoTo("payout")
  /\ IF TransferDue
     THEN /\ account' = [account EXCEPT !.cash = @ + account.transfer,
                                        !.lastTransfer = MonthOf[now]]
          /\ ledger' = [ledger EXCEPT !["TRANSFER"] = @ + account.transfer]
          /\ history' = [history EXCEPT !.transfers = @ + 1]
     ELSE UNCHANGED <<account, ledger, history>>
  /\ UNCHANGED <<plans, held, book, snapshot, lock, Outside>>

PayoutDue == account.open /\ account.lastInterest # MonthOf[now]

PayoutInterest ==
  /\ cycle.stage = "payout"
  /\ GoTo("accrue")
  /\ IF PayoutDue
     THEN LET amount == IF account.accrued > 0 THEN account.accrued ELSE 0
          IN  /\ account' = [account EXCEPT !.cash = @ + amount,
                                            !.accrued = @ - amount,
                                            !.lastInterest = MonthOf[now]]
              /\ ledger' = [ledger EXCEPT !["INTEREST_PAYOUT"] = @ + amount]
              /\ history' = [history EXCEPT !.payouts = @ + 1]
     ELSE UNCHANGED <<account, ledger, history>>
  /\ UNCHANGED <<plans, held, book, snapshot, lock, Outside>>

Interest(cash, rate, days) == (cash * rate * days) \div InterestScale

\* At rate 0 the marker stays behind: a later rate accrues the whole gap.
AccrualDue == account.open /\ account.rate > 0 /\ account.lastAccrual < now

\* Mutant: the first day of the gap counts again.
GapInclusive == now - account.lastAccrual + 1

GapDays == now - account.lastAccrual

AccrueInterest ==
  /\ cycle.stage = "accrue"
  /\ GoTo("plans")
  /\ \/ /\ AccrualDue
        /\ account.lastAccrual = NoDay
        /\ account' = [account EXCEPT !.lastAccrual = now]
        /\ history' = [history EXCEPT !.firstAccrual = now]
     \/ /\ AccrualDue
        /\ account.lastAccrual # NoDay
        /\ account' = [account EXCEPT
               !.accrued = @ + Interest(account.cash, account.rate, GapDays),
               !.lastAccrual = now]
        /\ history' = [history EXCEPT !.booked = @ + GapDays]
     \/ /\ ~AccrualDue
        /\ UNCHANGED <<account, history>>
  /\ UNCHANGED <<plans, held, ledger, book, snapshot, lock, Outside>>

\* Plans for the 29th to the 31st run on the last day of a shorter month.
EffectiveDay(k, d) == IF k[2] <= MonthLength[d] THEN k[2] ELSE MonthLength[d]

\* Mutant: a plan fires retroactively for the month it was created in.
NeverTooLate(k, d) == FALSE

\* Created on a later day of the month d lies in than the plan's due day.
CreatedTooLate(k, d) ==
  \/ MonthOf[plans[k].created] > MonthOf[d]
  \/ /\ MonthOf[plans[k].created] = MonthOf[d]
     /\ DayOfMonth[plans[k].created] > EffectiveDay(k, d)

\* Mutant: the executed month is not consulted.
PlanDueAgain(k, d) ==
  plans[k].exists /\ DayOfMonth[d] >= EffectiveDay(k, d) /\ ~CreatedTooLate(k, d)

PlanDue(k, d) ==
  /\ plans[k].exists
  /\ plans[k].executed # MonthOf[d]
  /\ DayOfMonth[d] >= EffectiveDay(k, d)
  /\ ~CreatedTooLate(k, d)

\* Fixes the day, the due plans and their prices for the whole stage; a
\* plan without a price stays due for a later pass.
RunSparplans ==
  /\ cycle.stage = "plans"
  /\ LET due == {k \in PlanKeys : account.open /\ PlanDue(k, now) /\ k[1] \in priced}
     IN  cycle' = [cycle EXCEPT !.stage = IF due = {} THEN "flush" ELSE "buy",
                                !.today = now, !.due = due]
  /\ UNCHANGED <<db, lock, history, Outside>>

\* Mutant: the cash is not consulted.
CanOverdraw(k) == account.open /\ plans[k].exists

CanExecute(k) == account.open /\ plans[k].exists /\ account.cash >= plans[k].amount

\* Too little cash: a WARN event, and the plan stays due.
SkipSparplan(k) ==
  /\ ~CanExecute(k)
  /\ cycle' = [cycle EXCEPT !.due = @ \ {k},
                            !.stage = IF cycle.due = {k} THEN "flush" ELSE "buy"]
  /\ UNCHANGED db

BuySparplan(k) ==
  LET amount == plans[k].amount
  IN  /\ CanExecute(k)
      /\ account' = [account EXCEPT !.cash = @ - amount]
      /\ held' = [held EXCEPT ![k[1]].bought = @ + amount]
      /\ ledger' = [ledger EXCEPT !["SPARPLAN_BUY"] = @ - amount]
      /\ plans' = [plans EXCEPT ![k].executed = MonthOf[cycle.today],
                                ![k].fired = @ + 1]
      /\ cycle' = [cycle EXCEPT !.due = @ \ {k}, !.stage = "mirror",
                                !.job = [source |-> k[1], amount |-> amount]]
      /\ UNCHANGED <<book, snapshot>>

ExecSparplan(k) ==
  /\ cycle.stage = "buy"
  /\ k \in cycle.due
  /\ SkipSparplan(k) \/ BuySparplan(k)
  /\ UNCHANGED <<lock, history, Outside>>

\* The buy is committed; only now are its euros mirrored.
MirrorSparplan ==
  /\ cycle.stage = "mirror"
  /\ MirrorOrDefer(cycle.job)
  /\ cycle' = [cycle EXCEPT !.job = NoJob,
                            !.stage = IF cycle.due = {} THEN "flush" ELSE "buy"]
  /\ UNCHANGED <<account, plans, held, ledger, snapshot, lock, history, Outside>>

\* Mutant: the oldest row is left out.
FlushPendingFromSecond ==
  /\ cycle.stage = "flush"
  /\ cycle' = [cycle EXCEPT !.stage = "row", !.rows = {r \in parked : r.id > 1}]
  /\ UNCHANGED <<db, lock, history, Outside>>

\* flush_pending_mirror reads the parked rows once ...
FlushPending ==
  /\ cycle.stage = "flush"
  /\ cycle' = [cycle EXCEPT !.stage = "row", !.rows = parked]
  /\ UNCHANGED <<db, lock, history, Outside>>

FirstRow(row) == row \in cycle.rows /\ \A r \in cycle.rows : row.id <= r.id

\* ... and takes them one by one: a row that finds no ranking stays parked,
FlushRow(row) ==
  /\ cycle.stage = "row"
  /\ FirstRow(row)
  /\ \/ /\ MirrorAllocate([source |-> row.source, amount |-> row.amount])
        /\ GoTo("unpark")
     \/ /\ picks = {}
        /\ cycle' = [cycle EXCEPT !.rows = @ \ {row}]
        /\ UNCHANGED <<placed, mirror>>
  /\ UNCHANGED <<account, plans, held, ledger, parked, snapshot, lock, history, Outside>>

\* and one that was allocated is deleted by a transaction of its own.
UnparkRow(row) ==
  /\ cycle.stage = "unpark"
  /\ FirstRow(row)
  /\ parked' = {r \in parked : r.id # row.id}
  /\ cycle' = [cycle EXCEPT !.stage = "row", !.rows = @ \ {row}]
  /\ UNCHANGED <<account, plans, held, ledger, placed, mirror, snapshot, lock,
                 history, Outside>>

FlushDone ==
  /\ cycle.stage = "row"
  /\ cycle.rows = {}
  /\ GoTo("snapshot")
  /\ UNCHANGED <<db, lock, history, Outside>>

TakeSnapshot ==
  /\ cycle.stage = "snapshot"
  /\ snapshot' = IF account.open THEN now ELSE snapshot
  /\ cycle' = IdleCycle
  /\ lock' = "free"
  /\ UNCHANGED <<account, plans, held, ledger, book, history, Outside>>

CycleStep ==
  \/ DepositMonthlyTransfer \/ PayoutInterest \/ AccrueInterest
  \/ RunSparplans \/ (\E k \in PlanKeys : ExecSparplan(k)) \/ MirrorSparplan
  \/ FlushPending \/ (\E row \in cycle.rows : FlushRow(row) \/ UnparkRow(row))
  \/ FlushDone \/ TakeSnapshot

-----------------------------------------------------------------------------
(* The operator's requests.  Each waits for the lock; one that the code    *)
(* refuses changes nothing and is not a step.                              *)

Elsewhere == <<env, cycle, aborts>>

\* Mutant: a request does not wait for the lock.
AdmittedAnytime == ops < MaxOps /\ ops' = ops + 1

Admitted == lock = "free" /\ ops < MaxOps /\ ops' = ops + 1

\* The request is over with its first transaction ...
Done == Admitted /\ UNCHANGED <<lock, request>>

\* ... or holds the lock into a second one.
Continue(stage, source, amount) ==
  /\ Admitted
  /\ lock' = "request"
  /\ request' = [stage |-> stage, job |-> [source |-> source, amount |-> amount]]

\* Mutant: no ledger entry.
CreditSilently(amount, kind) ==
  account' = [account EXCEPT !.cash = @ + amount] /\ ledger' = ledger

Credit(amount, kind) ==
  /\ account' = [account EXCEPT !.cash = @ + amount]
  /\ ledger' = [ledger EXCEPT ![kind] = @ + amount]

Wiped == plans' = NoPlans /\ placed' = NoEntries /\ parked' = {}
         /\ mirror' = NoMirror /\ snapshot' = NoDay

\* The seed month counts as done for the transfer and for the payout.
Initialize(cash, seeds, transfer, rate) ==
  LET invested == SeedCost(seeds)
      month == MonthOf[now]
  IN  /\ IF invested > 0 THEN Continue("mirror", Seed, invested) ELSE Done
      /\ Wiped
      /\ account' = [open |-> TRUE, cash |-> cash, accrued |-> 0, rate |-> rate,
                      transfer |-> transfer, lastTransfer |-> month,
                      lastInterest |-> month, lastAccrual |-> NoDay]
      /\ held' = [t \in Tickers |-> [seeded |-> seeds[t], bought |-> 0]]
      /\ ledger' = [NoEvents EXCEPT !["INIT"] = cash]
      /\ history' = [seed |-> invested, opened |-> month, transfers |-> 0, payouts |-> 0,
                      firstAccrual |-> NoDay, booked |-> 0]
      /\ UNCHANGED Elsewhere

Reset ==
  /\ Done
  /\ Wiped
  /\ account' = NoAccount
  /\ held' = NoHoldings
  /\ ledger' = NoEvents
  /\ history' = NoHistory
  /\ UNCHANGED Elsewhere

\* valuate() reports whole cents; half a cent goes either way.
Rounded(x) == IF x % 2 = 0 THEN {x} ELSE {x - 1, x + 1}

\* Mutant: the unpaid interest is forgotten.
DeltaOfCash(total, cash, accrued) == total - cash

TrueupDelta(total, cash, accrued) == total - (cash + accrued)

Trueup(total) ==
  /\ Done
  /\ account.open
  /\ \E c \in Rounded(account.cash), a \in Rounded(account.accrued) :
       LET delta == TrueupDelta(total, c, a)
       IN  /\ account.cash + delta >= 0
           /\ Credit(delta, "TRUEUP")
  /\ UNCHANGED <<plans, held, book, snapshot, history, Elsewhere>>

AddDeposit(amount) ==
  /\ Done
  /\ account.open
  /\ Credit(amount, "TRANSFER")
  /\ UNCHANGED <<plans, held, book, snapshot, history, Elsewhere>>

\* A bonus: the position comes from nothing.
AddSaveback(amount, t) ==
  /\ account.open
  /\ t \in priced
  /\ Continue("mirror", t, amount)
  /\ held' = [held EXCEPT ![t].bought = @ + amount]
  /\ ledger' = [ledger EXCEPT !["SAVEBACK"] = @ + amount]
  /\ UNCHANGED <<account, plans, book, snapshot, history, Elsewhere>>

\* The guard of the code allows half a cent too much.
ManualBuy(amount, t) ==
  /\ account.open
  /\ t \in priced
  /\ account.cash + 1 >= amount
  /\ Continue("mirror", t, amount)
  /\ account' = [account EXCEPT !.cash = @ - amount]
  /\ held' = [held EXCEPT ![t].bought = @ + amount]
  /\ ledger' = [ledger EXCEPT !["MANUAL_BUY"] = @ - amount]
  /\ UNCHANGED <<plans, book, snapshot, history, Elsewhere>>

SetConfig(transfer, rate) ==
  /\ Done
  /\ account.open
  /\ account' = [account EXCEPT !.transfer = transfer, !.rate = rate]
  /\ UNCHANGED <<plans, held, ledger, book, snapshot, history, Elsewhere>>

\* Mutant: the row is written without its creation date.
NewPlanUndated(amount) ==
  [exists |-> TRUE, amount |-> amount, executed |-> NoMonth, created |-> NoDay,
   fired |-> 0]

NewPlan(amount) ==
  [exists |-> TRUE, amount |-> amount, executed |-> NoMonth, created |-> now,
   fired |-> 0]

\* A plan that exists keeps its markers; a new row starts without them.
AddPlan(k, amount) ==
  /\ Done
  /\ account.open
  /\ plans' = IF plans[k].exists
              THEN [plans EXCEPT ![k].amount = amount]
              ELSE [plans EXCEPT ![k] = NewPlan(amount)]
  /\ UNCHANGED <<account, held, ledger, book, snapshot, history, Elsewhere>>

RemovePlan(k) ==
  /\ Done
  /\ account.open
  /\ plans[k].exists
  /\ plans' = [plans EXCEPT ![k] = NoPlan]
  /\ UNCHANGED <<account, held, ledger, book, snapshot, history, Elsewhere>>

\* The position goes first, its mirror euros in a second transaction.
RemovePosition(t) ==
  /\ account.open
  /\ held[t].seeded + held[t].bought > 0
  /\ Continue("unwind", t, 0)
  /\ held' = [held EXCEPT ![t] = [seeded |-> 0, bought |-> 0]]
  /\ UNCHANGED <<account, plans, ledger, book, snapshot, history, Elsewhere>>

RequestDone ==
  /\ request' = IdleRequest
  /\ lock' = "free"
  /\ UNCHANGED <<account, plans, held, ledger, snapshot, history, ops, Elsewhere>>

MirrorRequest ==
  /\ request.stage = "mirror"
  /\ MirrorOrDefer(request.job)
  /\ RequestDone

UnwindRequest ==
  /\ request.stage = "unwind"
  /\ UnwindMirror(request.job.source)
  /\ RequestDone

Request ==
  \/ \E c \in Cashes, s \in Seeds, m \in Transfers, r \in Rates : Initialize(c, s, m, r)
  \/ Reset
  \/ \E c \in Cashes : Trueup(c)
  \/ \E a \in Amounts : AddDeposit(a)
  \/ \E a \in Amounts, t \in Tickers : AddSaveback(a, t) \/ ManualBuy(a, t)
  \/ \E m \in Transfers, r \in Rates : SetConfig(m, r)
  \/ \E k \in PlanKeys, a \in Amounts : AddPlan(k, a)
  \/ \E k \in PlanKeys : RemovePlan(k)
  \/ \E t \in Tickers : RemovePosition(t)

RequestStep == MirrorRequest \/ UnwindRequest

-----------------------------------------------------------------------------
(* The environment: midnight, the ranking and prices, and failures.        *)

Tick ==
  /\ now < LastDay
  /\ now' = now + 1
  /\ UNCHANGED <<picks, priced, db, lock, cycle, request, history, ops, aborts>>

\* A new ranking is stored, or the stored one is over four days old.
RankingChanges ==
  /\ picks' \in (PickSets \cup {{}}) \ {picks}
  /\ UNCHANGED <<now, priced, db, lock, cycle, request, history, ops, aborts>>

PricesChange ==
  /\ priced' \in (SUBSET Tickers) \ {priced}
  /\ UNCHANGED <<now, picks, db, lock, cycle, request, history, ops, aborts>>

\* The process stops, or an exception leaves the operation, between two of
\* its transactions: what is committed stays, the rest is forgotten.
Abort ==
  /\ lock # "free"
  /\ aborts < MaxAborts
  /\ aborts' = aborts + 1
  /\ lock' = "free"
  /\ cycle' = IdleCycle
  /\ request' = IdleRequest
  /\ UNCHANGED <<env, db, history, ops>>

Next ==
  \/ CycleStart \/ CycleStep \/ Request \/ RequestStep
  \/ Tick \/ RankingChanges \/ PricesChange \/ Abort

Spec == Init /\ [][Next]_vars

\* The loop keeps starting passes, and a coroutine that can go on does.
FairSpec ==
  /\ Spec
  /\ WF_vars(CycleStart) /\ WF_vars(CycleStep) /\ WF_vars(RequestStep)

-----------------------------------------------------------------------------
(* Properties.                                                             *)

\* The signed ledger accounts for every cent of the cash, whatever failed
\* and in whatever order transfers, payouts, buys and true-ups came.
LedgerExplainsCash ==
  account.cash = ledger["INIT"] + ledger["TRANSFER"] + ledger["INTEREST_PAYOUT"]
                 + ledger["TRUEUP"] + ledger["SPARPLAN_BUY"] + ledger["MANUAL_BUY"]

\* No buy overdraws the account: the half-cent tolerance of a manual buy
\* can be used once and never adds up, whatever is bought or trued up after.
CashFloor == account.cash >= -1

\* Transfer and payout happen at most once per calendar month, never in the
\* seed month, and their markers never run ahead of the calendar, however
\* often the pass runs, is cut short or crosses midnight.
MonthlyOnce ==
  account.open =>
    /\ history.transfers <= account.lastTransfer - history.opened
    /\ history.payouts <= account.lastInterest - history.opened
    /\ account.lastTransfer <= MonthOf[now]
    /\ account.lastInterest <= MonthOf[now]

\* Catch-up books every day after the first accrual exactly once.
EachDayAccruedOnce ==
  account.lastAccrual # NoDay =>
    /\ history.booked = account.lastAccrual - history.firstAccrual
    /\ account.lastAccrual <= now

\* A plan row is executed at most once per month of its life, also when a
\* pass stops between its buy and its mirror, or midnight ends the month.
PlanOncePerMonth ==
  \A k \in PlanKeys :
    plans[k].fired <= IF plans[k].executed = NoMonth THEN 0
                      ELSE plans[k].executed - MonthOf[plans[k].created] + 1

\* A plan buys only on or after its due day, clamped to the month's last
\* day, and not in a month whose due day had passed when it was created.
NoRetroactiveBuy ==
  [][\A k \in PlanKeys :
       plans[k].exists /\ plans'[k].fired > plans[k].fired =>
         \E d \in 0..now :
           /\ plans'[k].executed = MonthOf[d]
           /\ DayOfMonth[d] >= k[2] \/ DayOfMonth[d] = MonthLength[d]
           /\ \E due \in plans[k].created..d :
                /\ MonthOf[due] = MonthOf[d]
                /\ \/ DayOfMonth[due] = k[2]
                   \/ DayOfMonth[due] = MonthLength[due] /\ k[2] > MonthLength[due]]_vars

\* A true-up leaves cash plus unpaid interest at the entered total, to a cent.
TrueupReconciles ==
  [][ledger'["TRUEUP"] # ledger["TRUEUP"] /\ account'.open /\ account.open
     /\ ledger'["INIT"] = ledger["INIT"] /\ ledger'["TRUEUP"] # 0 =>
       \E total \in Cashes :
         total - (account'.cash + account'.accrued) \in -2..2]_vars

\* The mirror positions are what the remaining entries bought: allocation,
\* late flush and unwinding keep the two tables in step.
MirrorAddsUp == mirror = Rebuilt(placed)

PlacedFor(p, s) == MapThenSumSet(LAMBDA P : p[s][P], PickSets)
ParkedFor(R, s) == MapThenSumSet(LAMBDA r : r.amount, {r \in R : r.source = s})
Mirrored(s) == PlacedFor(placed, s) + ParkedFor(parked, s)

\* Between operations the mirror holds, placed or parked, exactly the euros
\* every position was bought with, and the seed lump of the tracker.
MirrorTracksPositions ==
  lock = "free" =>
    /\ \A t \in Tickers : Mirrored(t) = held[t].bought
    /\ Mirrored(Seed) = history.seed

\* A tracker that was reset keeps nothing, and nothing lands in it later.
ClosedTrackerIsEmpty ==
  ~account.open => /\ held = NoHoldings /\ plans = NoPlans /\ ledger = NoEvents
                   /\ placed = NoEntries /\ parked = {} /\ snapshot = NoDay

\* Once rankings stay fresh, the passes place every parked euro.
ParkedGetsPlaced == <>[](picks # {}) => <>[](parked = {})

-----------------------------------------------------------------------------
(* Inductive invariants: what makes the properties above hold.             *)

\* The lock separates the pass from the requests; a pass or a request that
\* still owes the mirror something belongs to an open tracker.
LockInv ==
  /\ lock = "cycle" <=> cycle.stage # "idle"
  /\ lock = "request" <=> request.stage # "idle"
  /\ request.stage # "idle" => account.open
  /\ cycle.stage = "mirror" => account.open
  /\ cycle.stage \in {"row", "unpark"} => cycle.rows = {} \/ account.open

ClockInv ==
  /\ MonthlyOnce
  /\ EachDayAccruedOnce
  /\ account.lastAccrual <= now
  /\ account.lastAccrual = NoDay => history.booked = 0

\* Nothing a pass is about to buy was already bought for its month.
PlanInv ==
  /\ PlanOncePerMonth
  /\ \A k \in PlanKeys : /\ plans[k].created <= now
                         /\ plans[k].executed <= MonthOf[now]
  /\ cycle.stage \in {"buy", "mirror"} =>
       /\ cycle.today <= now
       /\ \A k \in cycle.due :
            /\ MonthOf[plans[k].created] <= MonthOf[cycle.today]
            /\ plans[k].executed < MonthOf[cycle.today]

\* ... and the plan is still due on the day the pass fixed.
DueInv ==
  cycle.stage \in {"buy", "mirror"} =>
    \A k \in cycle.due : PlanDue(k, cycle.today) /\ plans[k].created <= cycle.today

\* Parked rows have ids of their own, and a flush works on rows that are there.
RowsInv ==
  /\ IsFiniteSet(parked)
  /\ \A q, r \in parked : q.id = r.id => q = r
  /\ cycle.stage \in {"row", "unpark"} => cycle.rows \subseteq parked

\* Whatever is on its way to the mirror can be split.
SplitInv ==
  /\ Splits(cycle.job.amount) /\ Splits(request.job.amount)
  /\ \A r \in parked : Splits(r.amount)
  /\ \A k \in PlanKeys : Splits(plans[k].amount)

\* What the mirror owes a source, or holds of it twice, while an operation is
\* between two of its transactions.
Bought(s) == IF s = Seed THEN history.seed ELSE held[s].bought
Part(x, s) == IF x.source = s THEN x.amount ELSE 0

EuroInv ==
  aborts = 0 => \A s \in Sources :
    /\ cycle.stage = "mirror" => Mirrored(s) + Part(cycle.job, s) = Bought(s)
    /\ cycle.stage = "unpark" =>
         \A row \in cycle.rows : FirstRow(row) => Mirrored(s) = Bought(s) + Part(row, s)
    /\ request.stage = "mirror" => Mirrored(s) + Part(request.job, s) = Bought(s)
    /\ request.stage = "unwind" =>
         /\ request.job.source # Seed
         /\ IF s = request.job.source THEN Bought(s) = 0 ELSE Mirrored(s) = Bought(s)
    /\ cycle.stage \notin {"mirror", "unpark"} /\ request.stage = "idle" => Mirrored(s) = Bought(s)
=============================================================================
