---------------------------- MODULE SavingsProofs ----------------------------
(* The safety properties of Savings, for every value of its constants.     *)
EXTENDS Savings, FiniteLemmas

LEMMA InitTypeOK == Init => TypeOK
BY CalendarAssumption, InputAssumption DEF Init, TypeOK, Days, Account, NoAccount, NoMonth, NoDay, Plan, NoPlan,
       NoPlans, NoHoldings, NoEvents, NoEntries, NoMirror, NoHistory, Sources,
       IdleCycle, IdleRequest, NoJob, Job, Stages, Cycle, RequestState, History

LEMMA SeedCostType == \A s \in Seeds : SeedCost(s) \in Nat
<1> SUFFICES ASSUME NEW s \in Seeds PROVE SeedCost(s) \in Nat
  OBVIOUS
<1>1. s \in [Tickers -> Nat] /\ IsFiniteSet(Tickers)
  BY InputAssumption
<1>2. Total(s, Tickers) \in Nat
  BY <1>1, TotalType
<1>. QED BY <1>2 DEF SeedCost, Total

LEMMA MonthType == \A d \in Days : MonthOf[d] \in Nat
BY CalendarAssumption

LEMMA InterestType ==
  ASSUME NEW c \in Int, NEW r \in Nat, NEW d \in Int
  PROVE  Interest(c, r, d) \in Int
<1>1. (c * r) * d \in Int
  OBVIOUS
<1>. QED BY <1>1, InputAssumption DEF Interest

LEMMA IdleType == IdleCycle \in Cycle /\ IdleRequest \in RequestState
BY CalendarAssumption DEF IdleCycle, IdleRequest, Cycle, RequestState, Stages, Job, NoJob, Sources, Days

\* Rows of which a transaction writes several columns.
LEMMA TransferType ==
  ASSUME NEW a \in Account, NEW c \in Int, NEW m \in Int
  PROVE  [a EXCEPT !.cash = c, !.lastTransfer = m] \in Account
<1> DEFINE b == [a EXCEPT !.cash = c]
<1>1. b \in Account
  BY DEF Account
<1>2. [b EXCEPT !.lastTransfer = m] \in Account
  BY <1>1 DEF Account
<1>3. [a EXCEPT !.cash = c, !.lastTransfer = m] = [b EXCEPT !.lastTransfer = m]
  OBVIOUS
<1>. QED BY <1>2, <1>3

LEMMA PayoutType ==
  ASSUME NEW a \in Account, NEW c \in Int, NEW i \in Int, NEW m \in Int
  PROVE  [a EXCEPT !.cash = c, !.accrued = i, !.lastInterest = m] \in Account
<1> DEFINE b == [a EXCEPT !.cash = c]
<1> DEFINE d == [b EXCEPT !.accrued = i]
<1>1. b \in Account
  BY DEF Account
<1>2. d \in Account
  BY <1>1 DEF Account
<1>3. [d EXCEPT !.lastInterest = m] \in Account
  BY <1>2 DEF Account
<1>4. [a EXCEPT !.cash = c, !.accrued = i, !.lastInterest = m]
        = [d EXCEPT !.lastInterest = m]
  OBVIOUS
<1>. QED BY <1>3, <1>4

LEMMA AccrualType ==
  ASSUME NEW a \in Account, NEW i \in Int, NEW d \in Int
  PROVE  [a EXCEPT !.accrued = i, !.lastAccrual = d] \in Account
<1> DEFINE b == [a EXCEPT !.accrued = i]
<1>1. b \in Account
  BY DEF Account
<1>2. [b EXCEPT !.lastAccrual = d] \in Account
  BY <1>1 DEF Account
<1>3. [a EXCEPT !.accrued = i, !.lastAccrual = d] = [b EXCEPT !.lastAccrual = d]
  OBVIOUS
<1>. QED BY <1>2, <1>3

LEMMA LedgerType ==
  ASSUME NEW l \in [Kinds -> Int], NEW k \in Kinds, NEW c \in Int
  PROVE  [l EXCEPT ![k] = c] \in [Kinds -> Int]
OBVIOUS

\* The mirror book keeps its type whatever euros reach it.
LEMMA MirrorAllocateType ==
  ASSUME TypeOK, NEW job \in Job, MirrorAllocate(job)
  PROVE  placed' \in [Sources -> [PickSets -> Nat]] /\ DOMAIN mirror' = Names
<1>1. job.source \in Sources /\ job.amount \in Nat /\ picks \in PickSets
  BY DEF Job, TypeOK, MirrorAllocate
<1>2. placed[job.source][picks] + job.amount \in Nat
  BY <1>1 DEF TypeOK
<1>. QED BY <1>1, <1>2 DEF MirrorAllocate, TypeOK

LEMMA MirrorOrDeferType ==
  ASSUME TypeOK, NEW job \in Job, MirrorOrDefer(job)
  PROVE  placed' \in [Sources -> [PickSets -> Nat]] /\ parked' \in SUBSET Row
         /\ DOMAIN mirror' = Names
<1>1. CASE MirrorAllocate(job) /\ UNCHANGED parked
  BY <1>1, MirrorAllocateType DEF TypeOK
<1>2. CASE picks = {} /\ UNCHANGED <<placed, mirror>>
           /\ \E id \in {1} \cup {r.id + 1 : r \in parked} :
                parked' = parked \cup {[id |-> id, source |-> job.source,
                                       amount |-> job.amount]}
  <2>1. \A id \in {1} \cup {r.id + 1 : r \in parked} : id \in Nat
    BY DEF TypeOK, Row
  <2>2. parked' \in SUBSET Row
    BY <1>2, <2>1 DEF TypeOK, Row, Job
  <2>. QED BY <1>2, <2>2 DEF TypeOK
<1>. QED BY <1>1, <1>2 DEF MirrorOrDefer

LEMMA CycleStepType == TypeOK /\ CycleStep => TypeOK'
<1> SUFFICES ASSUME TypeOK, CycleStep PROVE TypeOK'
  OBVIOUS
<1> USE DEF Outside, env, db, book
<1>a. \A stage \in Stages : GoTo(stage) => cycle' \in Cycle
  BY DEF GoTo, TypeOK, Cycle
<1>1. CASE DepositMonthlyTransfer
  <2>1. MonthOf[now] \in Int
    BY MonthType DEF TypeOK
  <2>2. account' \in Account
    <3>1. account \in Account /\ account.cash + account.transfer \in Int
      BY DEF TypeOK, Account
    <3>2. [account EXCEPT !.cash = @ + account.transfer,
                          !.lastTransfer = MonthOf[now]] \in Account
      BY <2>1, <3>1, TransferType
    <3>. QED BY <1>1, <3>1, <3>2 DEF DepositMonthlyTransfer
  <2>3. ledger' \in [Kinds -> Int]
    BY <1>1 DEF DepositMonthlyTransfer, TypeOK, Account
  <2>4. history' \in History
    BY <1>1 DEF DepositMonthlyTransfer, TypeOK, History
  <2>. QED BY <1>1, <1>a, <2>2, <2>3, <2>4 DEF DepositMonthlyTransfer, TypeOK, Stages
<1>2. CASE PayoutInterest
  <2>1. MonthOf[now] \in Int
    BY MonthType DEF TypeOK
  <2>2. account' \in Account
    <3> DEFINE amount == IF account.accrued > 0 THEN account.accrued ELSE 0
    <3>1. account \in Account /\ account.cash + amount \in Int
          /\ account.accrued - amount \in Int
      BY DEF TypeOK, Account
    <3>2. [account EXCEPT !.cash = @ + amount, !.accrued = @ - amount,
                          !.lastInterest = MonthOf[now]] \in Account
      BY <2>1, <3>1, PayoutType
    <3>. QED BY <1>2, <3>1, <3>2 DEF PayoutInterest
  <2>3. ledger' \in [Kinds -> Int]
    BY <1>2 DEF PayoutInterest, TypeOK, Account
  <2>4. history' \in History
    BY <1>2 DEF PayoutInterest, TypeOK, History
  <2>. QED BY <1>2, <1>a, <2>2, <2>3, <2>4 DEF PayoutInterest, TypeOK, Stages
<1>3. CASE AccrueInterest
  <2>1. now \in Int /\ now - account.lastAccrual \in Int /\ account \in Account
    BY CalendarAssumption DEF TypeOK, Account, Days
  <2> DEFINE interest == Interest(account.cash, account.rate, now - account.lastAccrual)
  <2>2. account.accrued + interest \in Int
    <3>1. account.cash \in Int /\ account.rate \in Nat /\ account.accrued \in Int
      BY <2>1 DEF Account
    <3>2. interest \in Int
      BY <2>1, <3>1, InterestType
    <3> HIDE DEF interest
    <3>. QED BY <3>1, <3>2
  <2>3. account' \in Account
    <3>1. CASE account' = [account EXCEPT !.lastAccrual = now]
      BY <2>1, <3>1 DEF Account
    <3>2. [account EXCEPT !.accrued = @ + interest, !.lastAccrual = now] \in Account
      BY <2>1, <2>2, AccrualType
    <3>. QED BY <1>3, <2>1, <3>1, <3>2 DEF AccrueInterest, GapDays
  <2>4. history' \in History
    BY <1>3, <2>1 DEF AccrueInterest, GapDays, TypeOK, History
  <2>. QED BY <1>3, <1>a, <2>3, <2>4 DEF AccrueInterest, TypeOK, Stages
<1>4. CASE RunSparplans
  BY <1>4 DEF RunSparplans, TypeOK, Cycle, Stages
<1>5. ASSUME NEW k \in PlanKeys, ExecSparplan(k) PROVE TypeOK'
  <2>1. CASE SkipSparplan(k)
    BY <1>5, <2>1 DEF ExecSparplan, SkipSparplan, TypeOK, Cycle, Stages
  <2>2. CASE BuySparplan(k)
    <3>1. k[1] \in Tickers /\ k[1] \in Sources
      BY DEF PlanKeys, Sources
    <3>2. plans[k] \in Plan /\ plans[k].amount \in Nat /\ MonthOf[cycle.today] \in Int
      BY MonthType DEF TypeOK, Plan, Cycle
    <3>3. account' \in Account
      BY <2>2, <3>2 DEF BuySparplan, TypeOK, Account
    <3>4. held' \in [Tickers -> [seeded: Nat, bought: Nat]]
      <4>1. held[k[1]] \in [seeded: Nat, bought: Nat]
        BY <3>1 DEF TypeOK
      <4>2. [held[k[1]] EXCEPT !.bought = @ + plans[k].amount] \in [seeded: Nat, bought: Nat]
        BY <3>2, <4>1
      <4>. QED BY <2>2, <3>1, <4>2 DEF BuySparplan, TypeOK
    <3>5. ledger' \in [Kinds -> Int]
      <4>1. ledger["SPARPLAN_BUY"] - plans[k].amount \in Int
        BY <3>2 DEF TypeOK, Kinds
      <4>2. "SPARPLAN_BUY" \in Kinds
        BY DEF Kinds
      <4>. QED BY <2>2, <4>1, <4>2, LedgerType DEF BuySparplan, TypeOK
    <3>6. plans' \in [PlanKeys -> Plan]
      BY <2>2, <3>2 DEF BuySparplan, TypeOK, Plan
    <3>7. cycle' \in Cycle
      BY <2>2, <3>1, <3>2 DEF BuySparplan, TypeOK, Cycle, Job, Stages
    <3>. QED BY <1>5, <2>2, <3>3, <3>4, <3>5, <3>6, <3>7 DEF ExecSparplan, BuySparplan, TypeOK
  <2>. QED BY <1>5, <2>1, <2>2 DEF ExecSparplan
<1>6. CASE MirrorSparplan
  <2>1. cycle.job \in Job
    BY DEF TypeOK, Cycle
  <2>2. placed' \in [Sources -> [PickSets -> Nat]] /\ parked' \in SUBSET Row
        /\ DOMAIN mirror' = Names
    BY <1>6, <2>1, MirrorOrDeferType DEF MirrorSparplan
  <2>3. cycle' \in Cycle
    BY <1>6 DEF MirrorSparplan, TypeOK, Cycle, Stages, Job, NoJob, Sources
  <2>. QED BY <1>6, <2>2, <2>3 DEF MirrorSparplan, TypeOK
<1>7. CASE FlushPending
  BY <1>7 DEF FlushPending, TypeOK, Cycle, Stages
<1>8. ASSUME NEW row \in cycle.rows, FlushRow(row) PROVE TypeOK'
  <2>1. row \in Row
    BY DEF TypeOK, Cycle
  <2>2. [source |-> row.source, amount |-> row.amount] \in Job
    BY <2>1 DEF Row, Job
  <2>3. placed' \in [Sources -> [PickSets -> Nat]] /\ DOMAIN mirror' = Names
    BY <1>8, <2>2, MirrorAllocateType DEF FlushRow, TypeOK
  <2>4. cycle' \in Cycle
    <3>1. CASE GoTo("unpark")
      BY <3>1, <1>a DEF Stages
    <3>2. CASE cycle' = [cycle EXCEPT !.rows = @ \ {row}]
      BY <3>2 DEF TypeOK, Cycle
    <3>. QED BY <1>8, <3>1, <3>2 DEF FlushRow
  <2>. QED BY <1>8, <2>3, <2>4 DEF FlushRow, TypeOK
<1>9. ASSUME NEW row \in cycle.rows, UnparkRow(row) PROVE TypeOK'
  BY <1>9 DEF UnparkRow, TypeOK, Cycle, Stages
<1>10. CASE FlushDone
  BY <1>10, <1>a DEF FlushDone, TypeOK, Stages
<1>11. CASE TakeSnapshot
  <2>1. cycle' \in Cycle
    BY <1>11, IdleType DEF TakeSnapshot
  <2>. QED BY <1>11, <2>1 DEF TakeSnapshot, TypeOK
<1>. QED
  BY <1>1, <1>2, <1>3, <1>4, <1>5, <1>6, <1>7, <1>8, <1>9, <1>10, <1>11 DEF CycleStep

LEMMA RequestType == TypeOK /\ Request => TypeOK'
<1> SUFFICES ASSUME TypeOK, Request PROVE TypeOK'
  OBVIOUS
<1> USE DEF Elsewhere, env, db, book
<1>a. Admitted => ops' \in 0..MaxOps
  BY InputAssumption DEF Admitted, TypeOK
<1>b. Done => ops' \in 0..MaxOps /\ lock' = lock /\ request' = request
  BY <1>a DEF Done
<1>c. ASSUME NEW stage \in {"mirror", "unwind"}, NEW src \in Sources, NEW amount \in Nat,
             Continue(stage, src, amount)
      PROVE  ops' \in 0..MaxOps /\ lock' = "request" /\ request' \in RequestState
  BY <1>a, <1>c DEF Continue, RequestState, Job
<1>d. Wiped => /\ plans' \in [PlanKeys -> Plan] /\ placed' \in [Sources -> [PickSets -> Nat]]
               /\ parked' \in SUBSET Row /\ DOMAIN mirror' = Names
               /\ snapshot' \in Days \cup {NoDay}
  BY CalendarAssumption
     DEF Wiped, NoPlans, NoPlan, NoEntries, NoMirror, Plan, NoDay, NoMonth, Days
<1>e. ASSUME NEW k \in Kinds, NEW amount \in Int, Credit(amount, k)
      PROVE  account' \in Account /\ ledger' \in [Kinds -> Int]
  <2>1. account' \in Account
    BY <1>e DEF Credit, TypeOK, Account
  <2>2. ledger[k] + amount \in Int
    BY <1>e DEF TypeOK
  <2>. QED BY <1>e, <2>1, <2>2, LedgerType DEF Credit, TypeOK
<1>f. ASSUME NEW t \in Tickers, NEW amount \in Nat,
             held' = [held EXCEPT ![t].bought = @ + amount]
      PROVE  held' \in [Tickers -> [seeded: Nat, bought: Nat]]
  <2>1. held[t] \in [seeded: Nat, bought: Nat]
    BY DEF TypeOK
  <2>2. [held[t] EXCEPT !.bought = @ + amount] \in [seeded: Nat, bought: Nat]
    BY <2>1
  <2>. QED BY <1>f, <2>2 DEF TypeOK
<1>1. ASSUME NEW c \in Cashes, NEW s \in Seeds, NEW m \in Transfers, NEW r \in Rates,
             Initialize(c, s, m, r)
      PROVE  TypeOK'
  <2>1. c \in Nat /\ m \in Nat /\ r \in Nat /\ s \in [Tickers -> Nat] /\ SeedCost(s) \in Nat
    BY InputAssumption, SeedCostType
  <2>2. MonthOf[now] \in Nat
    BY MonthType DEF TypeOK
  <2>3. account' \in Account
    BY <1>1, <2>1, <2>2 DEF Initialize, Account, NoDay
  <2>4. held' \in [Tickers -> [seeded: Nat, bought: Nat]]
    BY <1>1, <2>1 DEF Initialize
  <2>5. ledger' \in [Kinds -> Int]
    BY <1>1, <2>1 DEF Initialize, NoEvents, Kinds
  <2>6. history' \in History
    BY <1>1, <2>1, <2>2 DEF Initialize, History, NoDay
  <2>7. ops' \in 0..MaxOps /\ lock' \in {"free", "cycle", "request"} /\ request' \in RequestState
    <3>1. CASE Continue("mirror", Seed, SeedCost(s))
      BY <3>1, <1>c, <2>1 DEF Sources
    <3>2. CASE Done
      BY <3>2, <1>b DEF TypeOK
    <3>. QED BY <1>1, <3>1, <3>2 DEF Initialize
  <2>. QED BY <1>1, <1>d, <2>3, <2>4, <2>5, <2>6, <2>7 DEF Initialize, TypeOK
<1>2. CASE Reset
  <2>1. account' \in Account /\ held' \in [Tickers -> [seeded: Nat, bought: Nat]]
        /\ ledger' \in [Kinds -> Int] /\ history' \in History
    BY <1>2 DEF Reset, NoAccount, Account, NoHoldings, NoEvents, NoHistory, History,
                NoDay, NoMonth
  <2>. QED BY <1>2, <1>b, <1>d, <2>1 DEF Reset, TypeOK
<1>3. ASSUME NEW total \in Cashes, Trueup(total) PROVE TypeOK'
  <2>1. PICK c \in Rounded(account.cash), a \in Rounded(account.accrued) :
               Credit(total - (c + a), "TRUEUP")
    BY <1>3 DEF Trueup, TrueupDelta
  <2>2. c \in Int /\ a \in Int
    BY DEF Rounded, TypeOK, Account
  <2>3. total - (c + a) \in Int /\ "TRUEUP" \in Kinds
    BY <2>2, InputAssumption DEF Kinds
  <2>4. account' \in Account /\ ledger' \in [Kinds -> Int]
    BY <2>1, <2>3, <1>e
  <2>. QED BY <1>3, <1>b, <2>4 DEF Trueup, TypeOK
<1>4. ASSUME NEW amount \in Amounts, AddDeposit(amount) PROVE TypeOK'
  <2>1. amount \in Int /\ "TRANSFER" \in Kinds
    BY InputAssumption DEF Kinds
  <2>2. account' \in Account /\ ledger' \in [Kinds -> Int]
    BY <1>4, <2>1, <1>e DEF AddDeposit
  <2>. QED BY <1>4, <1>b, <2>2 DEF AddDeposit, TypeOK
<1>5. ASSUME NEW amount \in Amounts, NEW t \in Tickers, AddSaveback(amount, t) PROVE TypeOK'
  <2>1. amount \in Nat /\ t \in Sources /\ "SAVEBACK" \in Kinds
    BY InputAssumption DEF Kinds, Sources
  <2>2. ledger["SAVEBACK"] + amount \in Int
    BY <2>1 DEF TypeOK
  <2>3. ledger' \in [Kinds -> Int]
    BY <1>5, <2>1, <2>2, LedgerType DEF AddSaveback, TypeOK
  <2>4. held' \in [Tickers -> [seeded: Nat, bought: Nat]]
    BY <1>5, <1>f, <2>1 DEF AddSaveback
  <2>5. Continue("mirror", t, amount)
    BY <1>5 DEF AddSaveback
  <2>6. ops' \in 0..MaxOps /\ lock' = "request" /\ request' \in RequestState
    BY <2>1, <2>5, <1>c
  <2>. QED BY <1>5, <2>3, <2>4, <2>6 DEF AddSaveback, TypeOK
<1>6. ASSUME NEW amount \in Amounts, NEW t \in Tickers, ManualBuy(amount, t) PROVE TypeOK'
  <2>1. amount \in Nat /\ t \in Sources /\ "MANUAL_BUY" \in Kinds
    BY InputAssumption DEF Kinds, Sources
  <2>2. ledger["MANUAL_BUY"] - amount \in Int
    BY <2>1 DEF TypeOK
  <2>3. ledger' \in [Kinds -> Int]
    BY <1>6, <2>1, <2>2, LedgerType DEF ManualBuy, TypeOK
  <2>4. held' \in [Tickers -> [seeded: Nat, bought: Nat]]
    BY <1>6, <1>f, <2>1 DEF ManualBuy
  <2>5. account' \in Account
    BY <1>6, <2>1 DEF ManualBuy, TypeOK, Account
  <2>6. Continue("mirror", t, amount)
    BY <1>6 DEF ManualBuy
  <2>7. ops' \in 0..MaxOps /\ lock' = "request" /\ request' \in RequestState
    BY <2>1, <2>6, <1>c
  <2>. QED BY <1>6, <2>3, <2>4, <2>5, <2>7 DEF ManualBuy, TypeOK
<1>7. ASSUME NEW m \in Transfers, NEW r \in Rates, SetConfig(m, r) PROVE TypeOK'
  <2> DEFINE b == [account EXCEPT !.transfer = m]
  <2>1. m \in Nat /\ r \in Nat /\ account \in Account
    BY InputAssumption DEF TypeOK
  <2>2. b \in Account
    BY <2>1 DEF Account
  <2>3. [b EXCEPT !.rate = r] \in Account
    BY <2>1, <2>2 DEF Account
  <2>4. [account EXCEPT !.transfer = m, !.rate = r] = [b EXCEPT !.rate = r]
    OBVIOUS
  <2>5. account' \in Account
    BY <1>7, <2>3, <2>4 DEF SetConfig
  <2>. QED BY <1>7, <1>b, <2>5 DEF SetConfig, TypeOK
<1>8. ASSUME NEW k \in PlanKeys, NEW amount \in Amounts, AddPlan(k, amount) PROVE TypeOK'
  <2>1. amount \in Nat /\ now \in Days /\ plans[k] \in Plan
    BY InputAssumption DEF TypeOK
  <2>2. [plans[k] EXCEPT !.amount = amount] \in Plan
    BY <2>1 DEF Plan
  <2>3. [exists |-> TRUE, amount |-> amount, executed |-> NoMonth, created |-> now,
         fired |-> 0] \in Plan
    BY <2>1 DEF Plan, NoMonth
  <2>4. plans' \in [PlanKeys -> Plan]
    BY <1>8, <2>2, <2>3 DEF AddPlan, NewPlan, TypeOK
  <2>. QED BY <1>8, <1>b, <2>4 DEF AddPlan, TypeOK
<1>9. ASSUME NEW k \in PlanKeys, RemovePlan(k) PROVE TypeOK'
  <2>1. NoPlan \in Plan
    BY CalendarAssumption DEF NoPlan, Plan, NoMonth, Days
  <2>2. plans' \in [PlanKeys -> Plan]
    BY <1>9, <2>1 DEF RemovePlan, TypeOK
  <2>. QED BY <1>9, <1>b, <2>2 DEF RemovePlan, TypeOK
<1>10. ASSUME NEW t \in Tickers, RemovePosition(t) PROVE TypeOK'
  <2>1. held' \in [Tickers -> [seeded: Nat, bought: Nat]]
    BY <1>10 DEF RemovePosition, TypeOK
  <2>2. Continue("unwind", t, 0) /\ t \in Sources
    BY <1>10 DEF RemovePosition, Sources
  <2>3. ops' \in 0..MaxOps /\ lock' = "request" /\ request' \in RequestState
    BY <2>2, <1>c
  <2>. QED BY <1>10, <2>1, <2>3 DEF RemovePosition, TypeOK
<1>. QED
  BY <1>1, <1>2, <1>3, <1>4, <1>5, <1>6, <1>7, <1>8, <1>9, <1>10 DEF Request

LEMMA RequestStepType == TypeOK /\ RequestStep => TypeOK'
<1> SUFFICES ASSUME TypeOK, RequestStep PROVE TypeOK'
  OBVIOUS
<1>1. request.job \in Job /\ request.job.source \in Sources
  BY DEF TypeOK, RequestState, Job
<1>2. RequestDone => /\ request' \in RequestState /\ lock' = "free"
                     /\ UNCHANGED <<account, plans, held, ledger, snapshot, history, ops,
                                    now, picks, priced, cycle, aborts>>
  BY IdleType DEF RequestDone, Elsewhere, env
<1>3. CASE MirrorRequest
  <2>1. placed' \in [Sources -> [PickSets -> Nat]] /\ parked' \in SUBSET Row
        /\ DOMAIN mirror' = Names
    BY <1>1, <1>3, MirrorOrDeferType DEF MirrorRequest
  <2>. QED BY <1>2, <1>3, <2>1 DEF MirrorRequest, TypeOK
<1>4. CASE UnwindRequest
  <2>1. placed' \in [Sources -> [PickSets -> Nat]] /\ parked' \in SUBSET Row
        /\ DOMAIN mirror' = Names
    BY <1>1, <1>4 DEF UnwindRequest, UnwindMirror, TypeOK, Rebuilt
  <2>. QED BY <1>2, <1>4, <2>1 DEF UnwindRequest, TypeOK
<1>. QED BY <1>3, <1>4 DEF RequestStep

\* Every variable keeps its type in every behaviour.
THEOREM TypeCorrect == Spec => []TypeOK
<1>1. TypeOK /\ [Next]_vars => TypeOK'
  <2> SUFFICES ASSUME TypeOK, [Next]_vars PROVE TypeOK'
    OBVIOUS
  <2> USE DEF env, db, book, Outside
  <2>1. CASE CycleStart
    BY <2>1 DEF CycleStart, TypeOK, Cycle, Stages
  <2>2. CASE CycleStep
    BY <2>2, CycleStepType
  <2>3. CASE Request
    BY <2>3, RequestType
  <2>4. CASE RequestStep
    BY <2>4, RequestStepType
  <2>5. CASE Tick
    <3>1. now' \in Days
      BY <2>5, CalendarAssumption DEF Tick, TypeOK, Days
    <3>. QED BY <2>5, <3>1 DEF Tick, TypeOK
  <2>6. CASE RankingChanges
    BY <2>6 DEF RankingChanges, TypeOK
  <2>7. CASE PricesChange
    BY <2>7 DEF PricesChange, TypeOK
  <2>8. CASE Abort
    BY <2>8, IdleType, InputAssumption DEF Abort, TypeOK
  <2>9. CASE UNCHANGED vars
    BY <2>9 DEF vars, TypeOK
  <2>. QED BY <2>1, <2>2, <2>3, <2>4, <2>5, <2>6, <2>7, <2>8, <2>9 DEF Next
<1>. QED BY InitTypeOK, <1>1, PTL DEF Spec

-----------------------------------------------------------------------------
(* The steps that touch the account row or the ledger.                     *)

MoneyStep ==
  \/ DepositMonthlyTransfer \/ PayoutInterest \/ AccrueInterest
  \/ \E k \in PlanKeys : BuySparplan(k) /\ UNCHANGED <<now, history>>
  \/ \E c \in Cashes, s \in Seeds, m \in Transfers, r \in Rates : Initialize(c, s, m, r)
  \/ Reset
  \/ \E c \in Cashes : Trueup(c)
  \/ \E a \in Amounts : AddDeposit(a)
  \/ \E a \in Amounts, t \in Tickers : AddSaveback(a, t) \/ ManualBuy(a, t)
  \/ \E m \in Transfers, r \in Rates : SetConfig(m, r)

LEMMA MoneySteps == [Next]_vars => MoneyStep \/ UNCHANGED <<account, ledger, history>>
<1> SUFFICES ASSUME [Next]_vars PROVE MoneyStep \/ UNCHANGED <<account, ledger, history>>
  OBVIOUS
<1> USE DEF env, db, book, Outside, Elsewhere
<1>1. CASE CycleStep
  <2>1. ASSUME NEW k \in PlanKeys, ExecSparplan(k)
        PROVE  MoneyStep \/ UNCHANGED <<account, ledger, history>>
    BY <2>1 DEF ExecSparplan, SkipSparplan, MoneyStep
  <2>2. ASSUME NEW row \in cycle.rows, FlushRow(row) \/ UnparkRow(row)
        PROVE  UNCHANGED <<account, ledger, history>>
    BY <2>2 DEF FlushRow, UnparkRow
  <2>3. CASE RunSparplans \/ MirrorSparplan \/ FlushPending \/ FlushDone \/ TakeSnapshot
    BY <2>3 DEF RunSparplans, MirrorSparplan, FlushPending, FlushDone, TakeSnapshot
  <2>. QED BY <1>1, <2>1, <2>2, <2>3 DEF CycleStep, MoneyStep
<1>2. CASE Request
  <2>1. ASSUME NEW k \in PlanKeys, NEW a \in Amounts, AddPlan(k, a)
        PROVE  UNCHANGED <<account, ledger, history>>
    BY <2>1 DEF AddPlan
  <2>2. ASSUME NEW k \in PlanKeys, RemovePlan(k) PROVE UNCHANGED <<account, ledger, history>>
    BY <2>2 DEF RemovePlan
  <2>3. ASSUME NEW t \in Tickers, RemovePosition(t) PROVE UNCHANGED <<account, ledger, history>>
    BY <2>3 DEF RemovePosition
  <2>. QED BY <1>2, <2>1, <2>2, <2>3 DEF Request, MoneyStep
<1>3. CASE RequestStep
  BY <1>3 DEF RequestStep, MirrorRequest, UnwindRequest, RequestDone
<1>4. CASE CycleStart \/ Tick \/ RankingChanges \/ PricesChange \/ Abort
  BY <1>4 DEF CycleStart, Tick, RankingChanges, PricesChange, Abort
<1>5. CASE UNCHANGED vars
  BY <1>5 DEF vars
<1>. QED BY <1>1, <1>2, <1>3, <1>4, <1>5 DEF Next

Balance(l) == l["INIT"] + l["TRANSFER"] + l["INTEREST_PAYOUT"] + l["TRUEUP"]
              + l["SPARPLAN_BUY"] + l["MANUAL_BUY"]

\* One ledger entry moves the balance by its amount.
LEMMA BalanceOfEntry ==
  ASSUME NEW l \in [Kinds -> Int], NEW c \in Int,
         NEW k \in Kinds \ {"SAVEBACK"}
  PROVE  Balance([l EXCEPT ![k] = @ + c]) = Balance(l) + c
BY DEF Balance, Kinds

LEMMA MoneyStepKeepsCash ==
  TypeOK /\ LedgerExplainsCash /\ CashFloor /\ [Next]_vars
    => LedgerExplainsCash' /\ CashFloor'
<1> SUFFICES ASSUME TypeOK, LedgerExplainsCash, CashFloor, [Next]_vars
             PROVE  LedgerExplainsCash' /\ CashFloor'
  OBVIOUS
<1> USE DEF LedgerExplainsCash, CashFloor
<1>a. account \in Account /\ account.cash \in Int /\ account.accrued \in Int
      /\ account.transfer \in Nat /\ ledger \in [Kinds -> Int]
  BY DEF TypeOK, Account
<1>b. ASSUME NEW k \in Kinds \ {"SAVEBACK"}, NEW c \in Int,
             account'.cash = account.cash + c, ledger' = [ledger EXCEPT ![k] = @ + c],
             account.cash + c >= -1
      PROVE  LedgerExplainsCash' /\ CashFloor'
  <2>1. Balance(ledger') = Balance(ledger) + c
    BY <1>a, <1>b, BalanceOfEntry
  <2>. QED BY <1>a, <1>b, <2>1 DEF Balance
<1>1. CASE DepositMonthlyTransfer
  <2>1. CASE TransferDue
    <3>1. account'.cash = account.cash + account.transfer
          /\ ledger' = [ledger EXCEPT !["TRANSFER"] = @ + account.transfer]
      BY <1>1, <1>a, <2>1 DEF DepositMonthlyTransfer, Account
    <3>. QED BY <1>a, <1>b, <3>1 DEF Kinds
  <2>. QED BY <1>1, <2>1 DEF DepositMonthlyTransfer
<1>2. CASE PayoutInterest
  <2>1. CASE PayoutDue
    <3> DEFINE amount == IF account.accrued > 0 THEN account.accrued ELSE 0
    <3>1. amount \in Nat
      BY <1>a
    <3>2. account'.cash = account.cash + amount
          /\ ledger' = [ledger EXCEPT !["INTEREST_PAYOUT"] = @ + amount]
      BY <1>2, <1>a, <2>1 DEF PayoutInterest, Account
    <3> HIDE DEF amount
    <3>. QED BY <1>a, <1>b, <3>1, <3>2 DEF Kinds
  <2>. QED BY <1>2, <2>1 DEF PayoutInterest
<1>3. CASE AccrueInterest
  BY <1>3, <1>a DEF AccrueInterest, Account
<1>4. ASSUME NEW k \in PlanKeys, BuySparplan(k) PROVE LedgerExplainsCash' /\ CashFloor'
  <2>1. plans[k].amount \in Nat /\ account.cash >= plans[k].amount
    BY <1>4 DEF BuySparplan, CanExecute, TypeOK, Plan
  <2>2. account'.cash = account.cash + (0 - plans[k].amount)
        /\ ledger' = [ledger EXCEPT !["SPARPLAN_BUY"] = @ + (0 - plans[k].amount)]
    <3>1. ledger["SPARPLAN_BUY"] - plans[k].amount
            = ledger["SPARPLAN_BUY"] + (0 - plans[k].amount)
      BY <1>a, <2>1 DEF Kinds
    <3>2. account.cash - plans[k].amount = account.cash + (0 - plans[k].amount)
      BY <1>a, <2>1
    <3>. QED BY <1>4, <1>a, <3>1, <3>2 DEF BuySparplan, Account
  <2>. QED BY <1>a, <1>b, <2>1, <2>2 DEF Kinds
<1>5. ASSUME NEW c \in Cashes, NEW s \in Seeds, NEW m \in Transfers, NEW r \in Rates,
             Initialize(c, s, m, r)
      PROVE  LedgerExplainsCash' /\ CashFloor'
  BY <1>5, InputAssumption DEF Initialize, NoEvents, Kinds
<1>6. CASE Reset
  BY <1>6 DEF Reset, NoAccount, NoEvents, Kinds
<1>7. ASSUME NEW total \in Cashes, Trueup(total) PROVE LedgerExplainsCash' /\ CashFloor'
  <2>1. PICK c \in Rounded(account.cash), a \in Rounded(account.accrued) :
               /\ account.cash + (total - (c + a)) >= 0
               /\ Credit(total - (c + a), "TRUEUP")
    BY <1>7 DEF Trueup, TrueupDelta
  <2>2. total - (c + a) \in Int
    BY <1>a, InputAssumption DEF Rounded
  <2>. QED BY <1>a, <1>b, <2>1, <2>2 DEF Credit, Account, Kinds
<1>8. ASSUME NEW a \in Amounts, AddDeposit(a) PROVE LedgerExplainsCash' /\ CashFloor'
  <2>1. a \in Nat
    BY InputAssumption
  <2>. QED BY <1>8, <1>a, <1>b, <2>1 DEF AddDeposit, Credit, Account, Kinds
<1>9. ASSUME NEW a \in Amounts, NEW t \in Tickers, AddSaveback(a, t)
      PROVE  LedgerExplainsCash' /\ CashFloor'
  BY <1>9, <1>a DEF AddSaveback, Kinds
<1>10. ASSUME NEW a \in Amounts, NEW t \in Tickers, ManualBuy(a, t)
       PROVE  LedgerExplainsCash' /\ CashFloor'
  <2>1. a \in Nat /\ account.cash + 1 >= a
    BY <1>10, InputAssumption DEF ManualBuy
  <2>2. account'.cash = account.cash + (0 - a)
        /\ ledger' = [ledger EXCEPT !["MANUAL_BUY"] = @ + (0 - a)]
    <3>1. ledger["MANUAL_BUY"] - a = ledger["MANUAL_BUY"] + (0 - a)
      BY <1>a, <2>1 DEF Kinds
    <3>2. account.cash - a = account.cash + (0 - a)
      BY <1>a, <2>1
    <3>. QED BY <1>10, <1>a, <3>1, <3>2 DEF ManualBuy, Account
  <2>. QED BY <1>a, <1>b, <2>1, <2>2 DEF Kinds
<1>11. ASSUME NEW m \in Transfers, NEW r \in Rates, SetConfig(m, r)
       PROVE  LedgerExplainsCash' /\ CashFloor'
  BY <1>11, <1>a DEF SetConfig, Account
<1>12. CASE UNCHANGED <<account, ledger, history>>
  BY <1>12
<1>. QED
  BY <1>1, <1>2, <1>3, <1>4, <1>5, <1>6, <1>7, <1>8, <1>9, <1>10, <1>11, <1>12, MoneySteps
     DEF MoneyStep

LEMMA InitCash == Init => LedgerExplainsCash /\ CashFloor
BY DEF Init, LedgerExplainsCash, CashFloor, NoAccount, NoEvents, Kinds

\* Whatever the inputs, the calendar and the failures: cash is the balance
\* of the ledger.
THEOREM CashIsExplained == Spec => []LedgerExplainsCash
<1>1. TypeOK /\ (LedgerExplainsCash /\ CashFloor) /\ [Next]_vars
        => (LedgerExplainsCash /\ CashFloor)'
  BY MoneyStepKeepsCash
<1>. QED BY InitCash, <1>1, TypeCorrect, PTL DEF Spec

\* The half cent of tolerance is the most the account is ever overdrawn.
THEOREM CashNeverOverdrawn == Spec => []CashFloor
<1>1. TypeOK /\ (LedgerExplainsCash /\ CashFloor) /\ [Next]_vars
        => (LedgerExplainsCash /\ CashFloor)'
  BY MoneyStepKeepsCash
<1>. QED BY InitCash, <1>1, TypeCorrect, PTL DEF Spec

-----------------------------------------------------------------------------
(* Once a month, once a day.                                               *)

LEMMA ClockSteps == [Next]_vars => now' = now \/ (Tick /\ now' = now + 1)
<1> SUFFICES ASSUME [Next]_vars, ~Tick PROVE now' = now
  BY DEF Tick
<1> USE DEF env, Outside, Elsewhere
<1>1. CASE CycleStep
  BY <1>1 DEF CycleStep, DepositMonthlyTransfer, PayoutInterest, AccrueInterest, RunSparplans,
     ExecSparplan, MirrorSparplan, FlushPending, FlushRow, UnparkRow, FlushDone, TakeSnapshot
<1>2. CASE Request
  BY <1>2 DEF Request, Initialize, Reset, Trueup, AddDeposit, AddSaveback, ManualBuy,
     SetConfig, AddPlan, RemovePlan, RemovePosition
<1>3. CASE RequestStep
  BY <1>3 DEF RequestStep, MirrorRequest, UnwindRequest, RequestDone
<1>4. CASE CycleStart \/ RankingChanges \/ PricesChange \/ Abort
  BY <1>4 DEF CycleStart, RankingChanges, PricesChange, Abort
<1>5. CASE UNCHANGED vars
  BY <1>5 DEF vars
<1>. QED BY <1>1, <1>2, <1>3, <1>4, <1>5 DEF Next

LEMMA ClockStepKeeps == TypeOK /\ ClockInv /\ [Next]_vars => ClockInv'
<1> SUFFICES ASSUME TypeOK, ClockInv, [Next]_vars PROVE ClockInv'
  OBVIOUS
<1> USE DEF ClockInv, MonthlyOnce, EachDayAccruedOnce
<1>a. /\ account \in Account /\ history \in History /\ now \in Nat /\ MonthOf[now] \in Nat
      /\ account.lastTransfer \in Int /\ account.lastInterest \in Int
      /\ account.lastAccrual \in Int
      /\ history.transfers \in Nat /\ history.payouts \in Nat /\ history.opened \in Nat
      /\ history.booked \in Int /\ history.firstAccrual \in Int
  BY MonthType, CalendarAssumption DEF TypeOK, Account, History, Days
<1>b. NoDay = -1 /\ NoMonth = -1
  BY DEF NoDay, NoMonth
<1>1. CASE DepositMonthlyTransfer
  <2>1. now' = now
    BY <1>1 DEF DepositMonthlyTransfer, Outside, env
  <2>2. CASE TransferDue
    <3>1. /\ account'.open = account.open /\ account'.lastTransfer = MonthOf[now]
          /\ account'.lastInterest = account.lastInterest
          /\ account'.lastAccrual = account.lastAccrual
      BY <1>1, <1>a, <2>2 DEF DepositMonthlyTransfer, Account
    <3>2. /\ history'.transfers = history.transfers + 1
          /\ history'.payouts = history.payouts /\ history'.opened = history.opened
          /\ history'.booked = history.booked
          /\ history'.firstAccrual = history.firstAccrual
      BY <1>1, <1>a, <2>2 DEF DepositMonthlyTransfer, History
    <3>. QED BY <1>a, <1>b, <2>1, <2>2, <3>1, <3>2 DEF TransferDue
  <2>. QED BY <1>1, <2>1, <2>2 DEF DepositMonthlyTransfer
<1>2. CASE PayoutInterest
  <2>1. now' = now
    BY <1>2 DEF PayoutInterest, Outside, env
  <2>2. CASE PayoutDue
    <3>1. /\ account'.open = account.open /\ account'.lastTransfer = account.lastTransfer
          /\ account'.lastInterest = MonthOf[now]
          /\ account'.lastAccrual = account.lastAccrual
      BY <1>2, <1>a, <2>2 DEF PayoutInterest, Account
    <3>2. /\ history'.transfers = history.transfers
          /\ history'.payouts = history.payouts + 1 /\ history'.opened = history.opened
          /\ history'.booked = history.booked
          /\ history'.firstAccrual = history.firstAccrual
      BY <1>2, <1>a, <2>2 DEF PayoutInterest, History
    <3>. QED BY <1>a, <1>b, <2>1, <2>2, <3>1, <3>2 DEF PayoutDue
  <2>. QED BY <1>2, <2>1, <2>2 DEF PayoutInterest
<1>3. CASE AccrueInterest
  <2>1. now' = now
    BY <1>3 DEF AccrueInterest, Outside, env
  <2>2. CASE AccrualDue
    <3>1. /\ account'.open = account.open /\ account'.lastTransfer = account.lastTransfer
          /\ account'.lastInterest = account.lastInterest /\ account'.lastAccrual = now
      BY ZenonT(30), <1>3, <1>a, <2>2 DEF AccrueInterest, Account
    <3>3. /\ history'.transfers = history.transfers
          /\ history'.payouts = history.payouts /\ history'.opened = history.opened
      BY <1>3, <1>a, <2>2 DEF AccrueInterest, History
    <3>2. \/ /\ account.lastAccrual = NoDay
             /\ history'.firstAccrual = now /\ history'.booked = history.booked
          \/ /\ account.lastAccrual # NoDay
             /\ history'.firstAccrual = history.firstAccrual
             /\ history'.booked = history.booked + (now - account.lastAccrual)
      BY <1>3, <1>a, <2>2 DEF AccrueInterest, GapDays, History
    <3>. QED BY <1>a, <1>b, <2>1, <3>1, <3>2, <3>3
  <2>. QED BY <1>3, <2>1, <2>2 DEF AccrueInterest
<1>4. ASSUME NEW c \in Cashes, NEW s \in Seeds, NEW m \in Transfers, NEW r \in Rates,
             Initialize(c, s, m, r)
      PROVE  ClockInv'
  BY <1>4, <1>a, <1>b DEF Initialize, Elsewhere, env
<1>5. CASE Reset
  BY <1>5, <1>a, <1>b DEF Reset, NoAccount, NoHistory, Elsewhere, env
<1>6. ASSUME /\ now' = now /\ history' = history
             /\ account'.open = account.open /\ account'.lastTransfer = account.lastTransfer
             /\ account'.lastInterest = account.lastInterest
             /\ account'.lastAccrual = account.lastAccrual
      PROVE  ClockInv'
  BY <1>6
<1>7. ASSUME NEW k \in PlanKeys, BuySparplan(k), UNCHANGED <<now, history>> PROVE ClockInv'
  BY <1>7, <1>a, <1>6 DEF BuySparplan, Account
<1>8. ASSUME NEW c \in Cashes, Trueup(c) PROVE ClockInv'
  BY <1>8, <1>a, <1>6 DEF Trueup, Credit, Account, Elsewhere, env
<1>9. ASSUME NEW a \in Amounts, AddDeposit(a) PROVE ClockInv'
  BY <1>9, <1>a, <1>6 DEF AddDeposit, Credit, Account, Elsewhere, env
<1>10. ASSUME NEW a \in Amounts, NEW t \in Tickers, AddSaveback(a, t) \/ ManualBuy(a, t)
       PROVE  ClockInv'
  BY <1>10, <1>a, <1>6 DEF AddSaveback, ManualBuy, Account, Elsewhere, env
<1>11. ASSUME NEW m \in Transfers, NEW r \in Rates, SetConfig(m, r) PROVE ClockInv'
  BY <1>11, <1>a, <1>6 DEF SetConfig, Account, Elsewhere, env
<1>12. CASE UNCHANGED <<account, ledger, history>> /\ now' = now
  BY <1>12
<1>13. CASE UNCHANGED <<account, ledger, history>> /\ Tick
  <2>1. now \in Days /\ now + 1 \in Days /\ now' = now + 1
    BY <1>13, CalendarAssumption DEF Tick, TypeOK, Days
  <2>2. MonthOf[now] <= MonthOf[now'] /\ MonthOf[now'] \in Nat
    BY <2>1, <1>a, CalendarAssumption
  <2>. QED BY <1>13, <1>a, <2>1, <2>2
<1>. QED
  BY <1>1, <1>2, <1>3, <1>4, <1>5, <1>7, <1>8, <1>9, <1>10, <1>11, <1>12, <1>13,
     MoneySteps, ClockSteps DEF MoneyStep
LEMMA InitClock == Init => ClockInv
BY DEF Init, ClockInv, MonthlyOnce, EachDayAccruedOnce, NoAccount, NoHistory, NoDay

\* The marker of the tracker's clock: every step keeps ClockInv.
LEMMA ClockCorrect == Spec => []ClockInv
<1>1. Init => TypeOK /\ ClockInv
  BY InitTypeOK, InitClock
<1>2. TypeOK /\ ClockInv /\ [Next]_vars => ClockInv'
  BY ClockStepKeeps
<1>. QED BY <1>1, <1>2, TypeCorrect, PTL DEF Spec

\* At most one transfer and one payout per calendar month, on every calendar.
THEOREM TransfersOncePerMonth == Spec => []MonthlyOnce
<1>1. ClockInv => MonthlyOnce
  BY DEF ClockInv
<1>. QED BY <1>1, ClockCorrect, PTL

\* Catch-up books each day once, however long the passes stood still.
THEOREM DaysAccruedOnce == Spec => []EachDayAccruedOnce
<1>1. ClockInv => EachDayAccruedOnce
  BY DEF ClockInv
<1>. QED BY <1>1, ClockCorrect, PTL

-----------------------------------------------------------------------------
(* The lock, and what a tracker that is not open may hold.                 *)

LEMMA InitLock == Init => LockInv /\ ClosedTrackerIsEmpty
BY DEF Init, LockInv, ClosedTrackerIsEmpty, NoAccount, IdleCycle, IdleRequest

LEMMA LockStepKeeps ==
  TypeOK /\ LockInv /\ ClosedTrackerIsEmpty /\ [Next]_vars
    => LockInv' /\ ClosedTrackerIsEmpty'
<1> SUFFICES ASSUME TypeOK, LockInv, ClosedTrackerIsEmpty, [Next]_vars
             PROVE  LockInv' /\ ClosedTrackerIsEmpty'
  OBVIOUS
<1> USE DEF LockInv, ClosedTrackerIsEmpty, Outside, Elsewhere, env, db, book
<1>a. /\ account \in Account
      /\ cycle \in [stage: Stages, today: Days, due: SUBSET PlanKeys, rows: SUBSET Row, job: Job]
      /\ request \in [stage: {"idle", "mirror", "unwind"}, job: Job]
  BY DEF TypeOK, Cycle, RequestState
<1>b. ASSUME NEW stage \in Stages, GoTo(stage)
      PROVE  cycle'.stage = stage /\ cycle'.rows = cycle.rows
  BY <1>a, <1>b DEF GoTo
<1>1. CASE CycleStart
  BY <1>1, <1>a DEF CycleStart
<1>2. CASE DepositMonthlyTransfer
  <2>1. account'.open = account.open
    BY <1>2, <1>a DEF DepositMonthlyTransfer, Account
  <2>2. cycle'.stage = "payout"
    BY <1>2, <1>b DEF DepositMonthlyTransfer, Stages
  <2>. QED BY <1>2, <2>1, <2>2 DEF DepositMonthlyTransfer, TransferDue
<1>3. CASE PayoutInterest
  <2>1. account'.open = account.open
    BY <1>3, <1>a DEF PayoutInterest, Account
  <2>2. cycle'.stage = "accrue"
    BY <1>3, <1>b DEF PayoutInterest, Stages
  <2>. QED BY <1>3, <2>1, <2>2 DEF PayoutInterest, PayoutDue
<1>4. CASE AccrueInterest
  <2>1. account'.open = account.open
    BY <1>4, <1>a DEF AccrueInterest, Account
  <2>2. cycle'.stage = "plans"
    BY <1>4, <1>b DEF AccrueInterest, Stages
  <2>. QED BY <1>4, <2>1, <2>2 DEF AccrueInterest
<1>5. CASE RunSparplans
  <2>1. cycle'.stage \in {"flush", "buy"}
    BY <1>5, <1>a DEF RunSparplans
  <2>. QED BY <1>5, <2>1 DEF RunSparplans
<1>6. ASSUME NEW k \in PlanKeys, ExecSparplan(k)
      PROVE  LockInv' /\ ClosedTrackerIsEmpty'
  <2>1. CASE SkipSparplan(k)
    <3>1. cycle'.stage \in {"flush", "buy"}
      BY <2>1, <1>a DEF SkipSparplan
    <3>. QED BY <1>6, <2>1, <3>1 DEF ExecSparplan, SkipSparplan
  <2>2. CASE BuySparplan(k)
    <3>1. account.open /\ account'.open
      BY <2>2, <1>a DEF BuySparplan, CanExecute, Account
    <3>2. cycle'.stage = "mirror"
      BY <2>2, <1>a DEF BuySparplan
    <3>. QED BY <1>6, <3>1, <3>2 DEF ExecSparplan
  <2>. QED BY <1>6, <2>1, <2>2 DEF ExecSparplan
<1>7. CASE MirrorSparplan
  <2>1. cycle'.stage \in {"flush", "buy"}
    BY <1>7, <1>a DEF MirrorSparplan
  <2>. QED BY <1>7, <2>1 DEF MirrorSparplan
<1>8. CASE FlushPending
  <2>1. cycle'.stage = "row" /\ cycle'.rows = parked
    BY <1>8, <1>a DEF FlushPending
  <2>. QED BY <1>8, <2>1 DEF FlushPending
<1>9. ASSUME NEW row \in cycle.rows, FlushRow(row)
      PROVE  LockInv' /\ ClosedTrackerIsEmpty'
  <2>1. account.open
    BY <1>9 DEF FlushRow
  <2>2. cycle'.stage \in {"row", "unpark"}
    BY <1>9, <1>a, <1>b DEF FlushRow, Stages
  <2>. QED BY <1>9, <2>1, <2>2 DEF FlushRow
<1>10. ASSUME NEW row \in cycle.rows, UnparkRow(row)
       PROVE  LockInv' /\ ClosedTrackerIsEmpty'
  <2>1. account.open
    BY <1>10 DEF UnparkRow
  <2>2. cycle'.stage = "row"
    BY <1>10, <1>a DEF UnparkRow
  <2>. QED BY <1>10, <2>1, <2>2 DEF UnparkRow
<1>11. CASE FlushDone
  <2>1. cycle'.stage = "snapshot"
    BY <1>11, <1>b DEF FlushDone, Stages
  <2>. QED BY <1>11, <2>1 DEF FlushDone
<1>12. CASE TakeSnapshot
  BY <1>12 DEF TakeSnapshot, IdleCycle
<1>13. CASE Request
  <2>1. cycle.stage = "idle" /\ request.stage = "idle"
    BY <1>13 DEF Request, Initialize, Reset, Trueup, AddDeposit, AddSaveback, ManualBuy,
       SetConfig, AddPlan, RemovePlan, RemovePosition, Done, Continue, Admitted
  <2>2. ASSUME NEW stage \in {"mirror", "unwind"}, NEW src, NEW amount,
               Continue(stage, src, amount), account'.open, UNCHANGED cycle
        PROVE  LockInv' /\ ClosedTrackerIsEmpty'
    BY <2>1, <2>2 DEF Continue
  <2>3. ASSUME NEW c, NEW s, NEW m, NEW r, Initialize(c, s, m, r)
        PROVE  LockInv' /\ ClosedTrackerIsEmpty'
    <3>1. CASE Continue("mirror", Seed, SeedCost(s))
      BY <2>2, <2>3, <3>1 DEF Initialize
    <3>2. CASE Done
      BY <2>1, <2>3, <3>2 DEF Initialize, Done, Admitted
    <3>. QED BY <2>3, <3>1, <3>2 DEF Initialize
  <2>4. CASE Reset
    BY <2>1, <2>4 DEF Reset, Done, Admitted, Wiped, NoAccount
  <2>5. ASSUME NEW c, Trueup(c) PROVE LockInv' /\ ClosedTrackerIsEmpty'
    <3>1. account'.open
      BY <2>5, <1>a DEF Trueup, Credit, Account
    <3>. QED BY <2>1, <2>5, <3>1 DEF Trueup, Done, Admitted
  <2>6. ASSUME NEW a, AddDeposit(a) PROVE LockInv' /\ ClosedTrackerIsEmpty'
    <3>1. account'.open
      BY <2>6, <1>a DEF AddDeposit, Credit, Account
    <3>. QED BY <2>1, <2>6, <3>1 DEF AddDeposit, Done, Admitted
  <2>7. ASSUME NEW a, NEW t, AddSaveback(a, t) PROVE LockInv' /\ ClosedTrackerIsEmpty'
    BY <2>2, <2>7 DEF AddSaveback
  <2>8. ASSUME NEW a, NEW t, ManualBuy(a, t) PROVE LockInv' /\ ClosedTrackerIsEmpty'
    <3>1. account'.open
      BY <2>8, <1>a DEF ManualBuy, Account
    <3>. QED BY <2>2, <2>8, <3>1 DEF ManualBuy
  <2>9. ASSUME NEW m, NEW r, SetConfig(m, r) PROVE LockInv' /\ ClosedTrackerIsEmpty'
    <3>1. account'.open
      BY <2>9, <1>a DEF SetConfig, Account
    <3>. QED BY <2>1, <2>9, <3>1 DEF SetConfig, Done, Admitted
  <2>10. ASSUME NEW k, NEW a, AddPlan(k, a) PROVE LockInv' /\ ClosedTrackerIsEmpty'
    BY <2>1, <2>10 DEF AddPlan, Done, Admitted
  <2>11. ASSUME NEW k, RemovePlan(k) PROVE LockInv' /\ ClosedTrackerIsEmpty'
    BY <2>1, <2>11 DEF RemovePlan, Done, Admitted
  <2>12. ASSUME NEW t, RemovePosition(t) PROVE LockInv' /\ ClosedTrackerIsEmpty'
    BY <2>2, <2>12 DEF RemovePosition
  <2>. QED
    BY <1>13, <2>3, <2>4, <2>5, <2>6, <2>7, <2>8, <2>9, <2>10, <2>11, <2>12 DEF Request
<1>14. CASE RequestStep
  <2>1. account.open /\ lock = "request" /\ request'.stage = "idle"
    BY <1>14 DEF RequestStep, MirrorRequest, UnwindRequest, RequestDone, IdleRequest
  <2>. QED
    BY <1>14, <2>1 DEF RequestStep, MirrorRequest, UnwindRequest, RequestDone
<1>15. CASE Tick \/ RankingChanges \/ PricesChange
  BY <1>15 DEF Tick, RankingChanges, PricesChange
<1>16. CASE Abort
  BY <1>16 DEF Abort, IdleCycle, IdleRequest
<1>17. CASE UNCHANGED vars
  BY <1>17 DEF vars
<1>. QED
  BY <1>1, <1>2, <1>3, <1>4, <1>5, <1>6, <1>7, <1>8, <1>9, <1>10, <1>11, <1>12, <1>13,
     <1>14, <1>15, <1>16, <1>17 DEF Next, CycleStep

LEMMA LockCorrect == Spec => [](LockInv /\ ClosedTrackerIsEmpty)
<1>1. TypeOK /\ (LockInv /\ ClosedTrackerIsEmpty) /\ [Next]_vars
        => (LockInv /\ ClosedTrackerIsEmpty)'
  BY LockStepKeeps
<1>. QED BY InitLock, <1>1, TypeCorrect, PTL DEF Spec

\* No operation that outlives a reset, and no failure, puts a row back.
THEOREM ResetLeavesNothing == Spec => []ClosedTrackerIsEmpty
BY LockCorrect, PTL

-----------------------------------------------------------------------------
(* A plan buys once a month.                                               *)

LEMMA InitPlan == Init => PlanInv
<1>1. MonthOf[0] \in Nat
  BY MonthType, CalendarAssumption DEF Days
<1>. QED BY <1>1 DEF Init, PlanInv, PlanOncePerMonth, NoPlans, NoPlan, NoMonth, IdleCycle

LEMMA PlanStepKeeps == TypeOK /\ LockInv /\ PlanInv /\ [Next]_vars => PlanInv'
<1> SUFFICES ASSUME TypeOK, LockInv, PlanInv, [Next]_vars PROVE PlanInv'
  OBVIOUS
<1> USE DEF PlanInv, PlanOncePerMonth, Outside, Elsewhere, env, db
<1>a. /\ plans \in [PlanKeys -> Plan]
      /\ cycle \in [stage: Stages, today: Days, due: SUBSET PlanKeys, rows: SUBSET Row, job: Job]
      /\ now \in Days
  BY DEF TypeOK, Cycle
<1>b. \A d \in Days : d \in Int /\ MonthOf[d] \in Nat
  BY CalendarAssumption, MonthType DEF Days
<1>c. \A k \in PlanKeys :
        /\ plans[k].executed \in Int /\ plans[k].created \in Days /\ plans[k].fired \in Nat
  BY <1>a DEF Plan
<1>d. NoMonth = -1
  BY DEF NoMonth
\* The plans stay as they are, and the pass prepares no buy.
<1>e. ASSUME UNCHANGED <<now, plans>>, cycle'.stage \notin {"buy", "mirror"} PROVE PlanInv'
  BY <1>e
\* The pass goes on buying from what it fixed when the stage began.
<1>f. ASSUME UNCHANGED <<now, plans>>, cycle.stage \in {"buy", "mirror"},
             cycle'.today = cycle.today, cycle'.due \subseteq cycle.due
      PROVE  PlanInv'
  BY <1>f
\* A request changes the plans while no pass runs.
<1>g. ASSUME UNCHANGED <<now, cycle>>, cycle.stage = "idle",
             \A k \in PlanKeys : \/ plans'[k].fired = 0 /\ plans'[k].executed = NoMonth
                                    /\ plans'[k].created \in Days /\ plans'[k].created <= now
                                 \/ /\ plans'[k].fired = plans[k].fired
                                    /\ plans'[k].executed = plans[k].executed
                                    /\ plans'[k].created = plans[k].created
      PROVE  PlanInv'
  <2>1. ASSUME NEW k \in PlanKeys
        PROVE  /\ plans'[k].fired <= IF plans'[k].executed = NoMonth THEN 0
                      ELSE plans'[k].executed - MonthOf[plans'[k].created] + 1
               /\ plans'[k].created <= now' /\ plans'[k].executed <= MonthOf[now']
    BY <1>a, <1>b, <1>d, <1>g
  <2>. QED BY <1>g, <2>1
<1>1. CASE CycleStart
  <2>1. cycle'.stage = "transfer"
    BY <1>1, <1>a DEF CycleStart
  <2>. QED BY <1>1, <1>e, <2>1 DEF CycleStart
<1>h. ASSUME NEW stage \in Stages \ {"buy", "mirror"}, GoTo(stage), UNCHANGED <<now, plans>>
      PROVE  PlanInv'
  <2>1. cycle'.stage = stage
    BY <1>h, <1>a DEF GoTo
  <2>. QED BY <1>e, <1>h, <2>1
<1>2. CASE DepositMonthlyTransfer \/ PayoutInterest \/ AccrueInterest \/ FlushPending
           \/ FlushDone \/ TakeSnapshot
  <2>1. CASE DepositMonthlyTransfer \/ PayoutInterest
    BY <2>1, <1>h DEF DepositMonthlyTransfer, PayoutInterest, Stages
  <2>2. CASE AccrueInterest \/ FlushDone
    BY <2>2, <1>h DEF AccrueInterest, FlushDone, Stages
  <2>3. CASE FlushPending
    <3>1. cycle'.stage = "row"
      BY <2>3, <1>a DEF FlushPending
    <3>. QED BY <2>3, <1>e, <3>1 DEF FlushPending
  <2>4. CASE TakeSnapshot
    BY <2>4, <1>e DEF TakeSnapshot, IdleCycle
  <2>. QED BY <1>2, <2>1, <2>2, <2>3, <2>4
<1>3. CASE RunSparplans
  <2>1. /\ UNCHANGED <<now, plans>> /\ cycle'.today = now
        /\ cycle'.due = {k \in PlanKeys : account.open /\ PlanDue(k, now) /\ k[1] \in priced}
    BY <1>3, <1>a DEF RunSparplans
  <2>2. ASSUME NEW k \in cycle'.due
        PROVE  /\ MonthOf[plans[k].created] <= MonthOf[now]
               /\ plans[k].executed < MonthOf[now]
    <3>1. k \in PlanKeys /\ PlanDue(k, now)
      BY <2>1, <2>2
    <3>. QED BY <1>a, <1>b, <1>c, <3>1 DEF PlanDue, CreatedTooLate
  <2>. QED BY <1>a, <1>b, <2>1, <2>2
<1>4. ASSUME NEW k \in PlanKeys, ExecSparplan(k) PROVE PlanInv'
  <2>1. cycle.stage = "buy" /\ k \in cycle.due /\ UNCHANGED now
    BY <1>4 DEF ExecSparplan
  <2>2. CASE SkipSparplan(k)
    <3>1. cycle'.today = cycle.today /\ cycle'.due \subseteq cycle.due
      BY <2>2, <1>a DEF SkipSparplan
    <3>. QED BY <1>f, <2>1, <2>2, <3>1 DEF SkipSparplan
  <2>3. CASE BuySparplan(k)
    <3>1. /\ cycle'.stage = "mirror" /\ cycle'.today = cycle.today
          /\ cycle'.due = cycle.due \ {k}
      BY <2>3, <1>a DEF BuySparplan
    <3>2. /\ plans'[k].executed = MonthOf[cycle.today]
          /\ plans'[k].fired = plans[k].fired + 1
          /\ plans'[k].created = plans[k].created
          /\ \A j \in PlanKeys \ {k} : plans'[j] = plans[j]
      BY <2>3, <1>a DEF BuySparplan, Plan
    <3>3. MonthOf[cycle.today] \in Nat /\ MonthOf[cycle.today] <= MonthOf[now]
      BY <1>a, <1>b, <2>1, CalendarAssumption
    <3>4. plans'[k].fired <= plans'[k].executed - MonthOf[plans'[k].created] + 1
          /\ plans'[k].executed # NoMonth /\ plans'[k].executed <= MonthOf[now]
          /\ plans'[k].created <= now
      BY <1>b, <1>c, <1>d, <2>1, <3>2, <3>3
    <3>5. ASSUME NEW j \in PlanKeys
          PROVE  /\ plans'[j].fired <= IF plans'[j].executed = NoMonth THEN 0
                        ELSE plans'[j].executed - MonthOf[plans'[j].created] + 1
                 /\ plans'[j].created <= now' /\ plans'[j].executed <= MonthOf[now']
      <4>1. CASE j = k
        BY <2>1, <3>4, <4>1
      <4>2. CASE j # k
        BY <2>1, <3>2, <4>2
      <4>. QED BY <4>1, <4>2
    <3>6. \A j \in cycle'.due : j \in cycle.due /\ j \in PlanKeys /\ plans'[j] = plans[j]
      BY <1>a, <3>1, <3>2
    <3>. QED BY <2>1, <3>1, <3>5, <3>6
  <2>. QED BY <1>4, <2>2, <2>3 DEF ExecSparplan
<1>5. CASE MirrorSparplan
  <2>1. cycle'.today = cycle.today /\ cycle'.due = cycle.due
    BY <1>5, <1>a DEF MirrorSparplan
  <2>. QED BY <1>5, <1>f, <2>1 DEF MirrorSparplan
<1>6. ASSUME NEW row \in cycle.rows, FlushRow(row) \/ UnparkRow(row) PROVE PlanInv'
  <2>1. cycle'.stage \in {"row", "unpark"}
    BY <1>6, <1>a DEF FlushRow, UnparkRow, GoTo
  <2>. QED BY <1>6, <1>e, <2>1 DEF FlushRow, UnparkRow
<1>7. CASE Request
  <2>1. cycle.stage = "idle" /\ UNCHANGED <<now, cycle>>
    BY <1>7 DEF Request, Initialize, Reset, Trueup, AddDeposit, AddSaveback, ManualBuy,
       SetConfig, AddPlan, RemovePlan, RemovePosition, Done, Continue, Admitted, LockInv
  <2>2. 0 \in Days /\ 0 <= now
    BY <1>a, CalendarAssumption DEF Days
  <2>3. CASE plans' = NoPlans \/ UNCHANGED plans
    BY <1>g, <2>1, <2>2, <2>3 DEF NoPlans, NoPlan
  <2>4. ASSUME NEW k \in PlanKeys, NEW a \in Amounts, AddPlan(k, a) PROVE PlanInv'
    <3>1. \A j \in PlanKeys \ {k} : plans'[j] = plans[j]
      BY <2>4, <1>a DEF AddPlan
    <3>2. CASE plans[k].exists
      <4>1. plans[k] \in [exists: BOOLEAN, amount: Nat, executed: Int, created: Days, fired: Nat]
        BY <1>a DEF Plan
      <4>2. plans'[k] = [plans[k] EXCEPT !.amount = a]
        BY <2>4, <3>2, <1>a DEF AddPlan
      <4>3. /\ plans'[k].fired = plans[k].fired /\ plans'[k].executed = plans[k].executed
            /\ plans'[k].created = plans[k].created
        BY <4>1, <4>2
      <4>. QED BY <1>g, <2>1, <3>1, <4>3
    <3>3. CASE ~plans[k].exists
      <4>1. /\ plans'[k].fired = 0 /\ plans'[k].executed = NoMonth
            /\ plans'[k].created = now
        BY <2>4, <3>3, <1>a DEF AddPlan, NewPlan
      <4>2. now \in Days /\ now <= now
        BY <1>a, <1>b
      <4>. QED BY <1>g, <2>1, <3>1, <4>1, <4>2
    <3>. QED BY <3>2, <3>3
  <2>5. ASSUME NEW k \in PlanKeys, RemovePlan(k) PROVE PlanInv'
    <3>1. plans' = [plans EXCEPT ![k] = NoPlan]
      BY <2>5 DEF RemovePlan
    <3>. QED BY <1>a, <1>g, <2>1, <2>2, <3>1 DEF NoPlan
  <2>6. ASSUME NEW c, NEW s, NEW m, NEW r, Initialize(c, s, m, r) PROVE plans' = NoPlans
    BY <2>6 DEF Initialize, Wiped
  <2>7. Reset => plans' = NoPlans
    BY DEF Reset, Wiped
  <2>8. ASSUME NEW c, Trueup(c) \/ AddDeposit(c) PROVE UNCHANGED plans
    BY <2>8 DEF Trueup, AddDeposit
  <2>9. ASSUME NEW a, NEW t, AddSaveback(a, t) \/ ManualBuy(a, t) PROVE UNCHANGED plans
    BY <2>9 DEF AddSaveback, ManualBuy
  <2>10. ASSUME NEW m, NEW r, SetConfig(m, r) PROVE UNCHANGED plans
    BY <2>10 DEF SetConfig
  <2>11. ASSUME NEW t, RemovePosition(t) PROVE UNCHANGED plans
    BY <2>11 DEF RemovePosition
  <2>. QED
    BY <1>7, <2>3, <2>4, <2>5, <2>6, <2>7, <2>8, <2>9, <2>10, <2>11 DEF Request
<1>8. CASE RequestStep
  <2>1. cycle.stage \notin {"buy", "mirror"}
    BY <1>8 DEF RequestStep, MirrorRequest, UnwindRequest, LockInv
  <2>. QED BY <1>8, <1>e, <2>1 DEF RequestStep, MirrorRequest, UnwindRequest, RequestDone
<1>9. CASE Tick
  <2>1. now' = now + 1 /\ now' \in Days /\ UNCHANGED <<plans, cycle>>
    BY <1>9, <1>a, CalendarAssumption DEF Tick, Days
  <2>2. MonthOf[now] <= MonthOf[now'] /\ MonthOf[now] \in Nat /\ MonthOf[now'] \in Nat
        /\ now \in Int
    BY <1>a, <1>b, <2>1, CalendarAssumption
  <2>3. cycle.today \in Int
    BY <1>a, <1>b
  <2>4. \A k \in PlanKeys : plans[k].created \in Int
    BY <1>b, <1>c
  <2>. QED BY <1>c, <2>1, <2>2, <2>3, <2>4
<1>10. CASE RankingChanges \/ PricesChange
  BY <1>10 DEF RankingChanges, PricesChange
<1>11. CASE Abort
  BY <1>11, <1>e DEF Abort, IdleCycle
<1>12. CASE UNCHANGED vars
  BY <1>12 DEF vars
<1>. QED
  BY <1>1, <1>2, <1>3, <1>4, <1>5, <1>6, <1>7, <1>8, <1>9, <1>10, <1>11, <1>12
     DEF Next, CycleStep

LEMMA PlanCorrect == Spec => []PlanInv
<1>1. TypeOK /\ (LockInv /\ ClosedTrackerIsEmpty) /\ PlanInv /\ [Next]_vars => PlanInv'
  BY PlanStepKeeps
<1>. QED BY InitPlan, <1>1, TypeCorrect, LockCorrect, PTL DEF Spec

\* No plan row buys twice in a month, for any calendar, any due days, any
\* number of requests and wherever passes stop.
THEOREM PlansOncePerMonth == Spec => []PlanOncePerMonth
<1>1. PlanInv => PlanOncePerMonth
  BY DEF PlanInv
<1>. QED BY <1>1, PlanCorrect, PTL

-----------------------------------------------------------------------------
(* What a true-up leaves.                                                  *)

\* Rounding moves an amount by half a cent at most.
LEMMA RoundedNear == ASSUME NEW x \in Int, NEW y \in Rounded(x)
                     PROVE  y \in Int /\ y - x \in -1..1
BY DEF Rounded

LEMMA TrueupStep ==
  ASSUME TypeOK, [Next]_vars, ledger'["TRUEUP"] # ledger["TRUEUP"],
         ledger'["TRUEUP"] # 0
  PROVE  \E total \in Cashes : Trueup(total)
<1>a. ledger \in [Kinds -> Int] /\ "TRUEUP" \in Kinds /\ account.transfer \in Int
  BY DEF TypeOK, Kinds, Account
<1>1. ~DepositMonthlyTransfer
  BY <1>a DEF DepositMonthlyTransfer
<1>2. ~PayoutInterest
  BY <1>a DEF PayoutInterest
<1>3. ~AccrueInterest
  BY DEF AccrueInterest
<1>4. ~\E k \in PlanKeys : BuySparplan(k)
  BY <1>a DEF BuySparplan
<1>5. ~\E c \in Cashes, s \in Seeds, m \in Transfers, r \in Rates : Initialize(c, s, m, r)
  BY <1>a DEF Initialize, NoEvents
<1>6. ~Reset
  BY <1>a DEF Reset, NoEvents
<1>7. ~\E a \in Amounts : AddDeposit(a)
  BY <1>a DEF AddDeposit, Credit
<1>8. ~\E a \in Amounts, t \in Tickers : AddSaveback(a, t) \/ ManualBuy(a, t)
  BY <1>a DEF AddSaveback, ManualBuy
<1>9. ~\E m \in Transfers, r \in Rates : SetConfig(m, r)
  BY DEF SetConfig
<1>. QED
  BY <1>1, <1>2, <1>3, <1>4, <1>5, <1>6, <1>7, <1>8, <1>9, MoneySteps DEF MoneyStep

\* The two roundings of a true-up never cost more than a cent together.
THEOREM TrueupsReconcile == Spec => TrueupReconciles
<1> DEFINE Reconciles ==
      ledger'["TRUEUP"] # ledger["TRUEUP"] /\ account'.open /\ account.open
        /\ ledger'["INIT"] = ledger["INIT"] /\ ledger'["TRUEUP"] # 0 =>
          \E total \in Cashes : total - (account'.cash + account'.accrued) \in -2..2
<1>1. TypeOK /\ [Next]_vars => [Reconciles]_vars
  <2> SUFFICES ASSUME TypeOK, [Next]_vars, ledger'["TRUEUP"] # ledger["TRUEUP"],
                      ledger'["TRUEUP"] # 0
               PROVE  \E total \in Cashes :
                        total - (account'.cash + account'.accrued) \in -2..2
    OBVIOUS
  <2>1. PICK total \in Cashes : Trueup(total)
    BY TrueupStep
  <2>2. PICK c \in Rounded(account.cash), a \in Rounded(account.accrued) :
               Credit(total - (c + a), "TRUEUP")
    BY <2>1 DEF Trueup, TrueupDelta
  <2>3. account.cash \in Int /\ account.accrued \in Int /\ total \in Int
    BY InputAssumption DEF TypeOK, Account
  <2>4. c \in Int /\ a \in Int /\ c - account.cash \in -1..1 /\ a - account.accrued \in -1..1
    BY <2>3, RoundedNear
  <2>5. account'.cash = account.cash + (total - (c + a)) /\ account'.accrued = account.accrued
    BY <2>2 DEF Credit, TypeOK, Account
  <2>6. total - (account'.cash + account'.accrued) \in -2..2
    BY <2>3, <2>4, <2>5
  <2>. QED BY <2>6
<1>. QED BY <1>1, TypeCorrect, PTL DEF Spec, TrueupReconciles

-----------------------------------------------------------------------------
(* The euros of the mirror, source by source.                              *)

LEMMA InputsFinite ==
  /\ IsFiniteSet(Tickers) /\ IsFiniteSet(Sources) /\ IsFiniteSet(PickSets)
  /\ \A P \in PickSets : Cardinality(P) \in Nat \ {0}
  /\ Seed \notin Tickers
<1>1. \A P \in PickSets : Cardinality(P) \in Nat \ {0}
  BY InputAssumption, FS_EmptySet, FS_CardinalityType
<1>2. IsFiniteSet(Sources)
  BY InputAssumption, FS_AddElement DEF Sources
<1>. QED BY <1>1, <1>2, InputAssumption

\* What a set of parked rows adds up to.
AmountOf(R) == Total([r \in R |-> r.amount], R)
OfSource(R, s) == {r \in R : r.source = s}

LEMMA AmountIsSum ==
  ASSUME NEW R
  PROVE  MapThenSumSet(LAMBDA r : r.amount, R) = AmountOf(R)
<1> DEFINE f == [r \in R |-> r.amount]
           Solves(h) == h = [s \in SUBSET R |-> IF s = {} THEN 0 ELSE Picked(s).amount + h[s \ {Picked(s)}]]
<1>1. MapThenSumSet(LAMBDA r : r.amount, R) = (CHOOSE h : Solves(h))[R]
  BY DEF MapThenSumSet, MapThenFoldSet, Picked
<1>2. \A s \in SUBSET R : s # {} => Picked(s) \in R
  BY DEF Picked
<1>3. \A h : Solves(h) <=> Folds(h, f, R)
  <2> SUFFICES ASSUME NEW h PROVE Solves(h) <=> Folds(h, f, R)
    OBVIOUS
  <2>1. \A s \in SUBSET R :
          (IF s = {} THEN 0 ELSE Picked(s).amount + h[s \ {Picked(s)}])
            = IF s = {} THEN 0 ELSE f[Picked(s)] + h[s \ {Picked(s)}]
    BY <1>2
  <2>2. [s \in SUBSET R |-> IF s = {} THEN 0 ELSE Picked(s).amount + h[s \ {Picked(s)}]]
          = [s \in SUBSET R |-> IF s = {} THEN 0 ELSE f[Picked(s)] + h[s \ {Picked(s)}]]
    BY <2>1
  <2>. QED BY <2>2 DEF Folds
<1>4. (CHOOSE h : Solves(h)) = (CHOOSE h : Folds(h, f, R))
  BY <1>3
<1>. HIDE DEF f, Solves
<1>5. MapThenSumSet(LAMBDA r : r.amount, R) = Total(f, R)
  BY <1>1, <1>4, TotalIsFold
<1>. QED BY <1>5 DEF AmountOf, f

LEMMA AmountType ==
  ASSUME NEW R \in SUBSET Row, IsFiniteSet(R)
  PROVE  AmountOf(R) \in Nat /\ (R = {} => AmountOf(R) = 0)
<1>1. [r \in R |-> r.amount] \in [R -> Nat]
  BY DEF Row
<1>2. R = {} => \A r \in R : [q \in R |-> q.amount][r] = 0
  OBVIOUS
<1>. QED BY <1>1, <1>2, TotalType, TotalZero DEF AmountOf

LEMMA AmountWith ==
  ASSUME NEW R \in SUBSET Row, IsFiniteSet(R), NEW row \in R
  PROVE  AmountOf(R) = AmountOf(R \ {row}) + row.amount
<1> DEFINE f == [r \in R |-> r.amount]
           rest == R \ {row}
<1>1. f \in [R -> Nat] /\ f[row] = row.amount /\ row.amount \in Nat /\ rest \in SUBSET R
  BY DEF Row
<1>2. [r \in rest |-> f[r]] = [r \in rest |-> r.amount]
  OBVIOUS
<1>3. Total(f, R) = f[row] + Total(f, rest) /\ Total(f, rest) \in Nat
  <2>. HIDE DEF f
  <2>. QED BY <1>1, TotalWith
<1>4. Total(f, rest) = Total([r \in rest |-> f[r]], rest)
  <2>. HIDE DEF f, rest
  <2>. QED BY <1>1, TotalRestrict
<1>5. AmountOf(R) = Total(f, R) /\ AmountOf(rest) = Total(f, rest)
  BY <1>2, <1>4 DEF AmountOf
<1>. HIDE DEF f, rest
<1>6. AmountOf(R) = AmountOf(rest) + row.amount
  BY <1>1, <1>3, <1>5
<1>. QED BY <1>6 DEF rest

\* The rows of a source when one leaves, or comes.
LEMMA RowsOfSource ==
  ASSUME NEW R \in SUBSET Row, IsFiniteSet(R), NEW row \in R, NEW s
  PROVE  AmountOf(OfSource(R, s)) = AmountOf(OfSource(R \ {row}, s)) + Part(row, s)
<1> DEFINE all == OfSource(R, s)
           rest == OfSource(R \ {row}, s)
<1>1. all \in SUBSET Row /\ IsFiniteSet(all)
  BY FS_Subset DEF OfSource
<1>2. CASE row.source = s
  <2>1. row \in all /\ rest = all \ {row} /\ Part(row, s) = row.amount
    BY <1>2 DEF OfSource, Part
  <2>. HIDE DEF all, rest
  <2>2. AmountOf(all) = AmountOf(rest) + row.amount
    BY <1>1, <2>1, AmountWith
  <2>. QED BY <2>1, <2>2 DEF all, rest
<1>3. CASE row.source # s
  <2>1. rest = all /\ Part(row, s) = 0
    BY <1>3 DEF OfSource, Part
  <2>. HIDE DEF all, rest
  <2>2. AmountOf(all) = AmountOf(rest) + Part(row, s)
    BY <1>1, <2>1, AmountType
  <2>. QED BY <2>2 DEF all, rest
<1>. QED BY <1>2, <1>3

\* The euros of a source in given tables.
Held(p, R, s) == Total(p[s], PickSets) + AmountOf(OfSource(R, s))

LEMMA HeldIs ==
  \A p, R, s : PlacedFor(p, s) + ParkedFor(R, s) = Held(p, R, s)
<1>1. ASSUME NEW p, NEW R, NEW s PROVE PlacedFor(p, s) + ParkedFor(R, s) = Held(p, R, s)
  <2>1. PlacedFor(p, s) = Total(p[s], PickSets)
    BY DEF PlacedFor, Total
  <2>2. ParkedFor(R, s) = MapThenSumSet(LAMBDA r : r.amount, OfSource(R, s))
    BY DEF ParkedFor, OfSource
  <2>3. ParkedFor(R, s) = AmountOf(OfSource(R, s))
    BY <2>2, AmountIsSum
  <2>. QED BY <2>1, <2>3 DEF Held
<1>. QED BY <1>1

LEMMA MirroredIs ==
  /\ \A s : Mirrored(s) = Held(placed, parked, s)
  /\ \A s : Mirrored(s)' = Held(placed', parked', s)
<1>1. \A s : Mirrored(s) = Held(placed, parked, s)
  BY HeldIs DEF Mirrored
<1>2. ASSUME NEW s PROVE Mirrored(s)' = Held(placed', parked', s)
  BY HeldIs DEF Mirrored
<1>. QED BY <1>1, <1>2

LEMMA HeldType ==
  ASSUME NEW p \in [Sources -> [PickSets -> Nat]], NEW R \in SUBSET Row, IsFiniteSet(R), NEW s \in Sources
  PROVE  /\ Held(p, R, s) \in Nat /\ Total(p[s], PickSets) \in Nat /\ AmountOf(OfSource(R, s)) \in Nat
         /\ (R = {} /\ \A P \in PickSets : p[s][P] = 0) => Held(p, R, s) = 0
<1>1. p[s] \in [PickSets -> Nat]
  OBVIOUS
<1>2. OfSource(R, s) \in SUBSET Row /\ IsFiniteSet(OfSource(R, s)) /\ (R = {} => OfSource(R, s) = {})
  BY FS_Subset DEF OfSource
<1>3. Total(p[s], PickSets) \in Nat /\ ((\A P \in PickSets : p[s][P] = 0) => Total(p[s], PickSets) = 0)
  BY <1>1, InputsFinite, TotalType, TotalZero
<1>4. AmountOf(OfSource(R, s)) \in Nat /\ (R = {} => AmountOf(OfSource(R, s)) = 0)
  BY <1>2, AmountType
<1>. QED BY <1>3, <1>4 DEF Held

\* An allocation adds the amount to its source's placed euros.
LEMMA Allocated ==
  ASSUME NEW p \in [Sources -> [PickSets -> Nat]], NEW P \in PickSets, NEW job \in Job,
         NEW q, q = [p EXCEPT ![job.source][P] = @ + job.amount], NEW s \in Sources
  PROVE  Total(q[s], PickSets) = Total(p[s], PickSets) + Part(job, s)
<1>1. job.source \in Sources /\ job.amount \in Nat
  BY DEF Job
<1>2. p[s] \in [PickSets -> Nat] /\ p[s][P] \in Nat /\ Total(p[s], PickSets) \in Nat
  BY InputsFinite, TotalType
<1>3. CASE s = job.source
  <2>1. q[s] = [p[s] EXCEPT ![P] = @ + job.amount] /\ Part(job, s) = job.amount
    BY <1>3 DEF Part
  <2>2. q[s] \in [PickSets -> Nat] /\ q[s][P] = p[s][P] + job.amount
        /\ \A Q \in PickSets \ {P} : q[s][Q] = p[s][Q]
    BY <1>1, <1>2, <2>1
  <2> DEFINE f == p[s]
             g == q[s]
  <2>3. Total(g, PickSets) = (Total(f, PickSets) - f[P]) + g[P]
    <3>1. f \in [PickSets -> Nat] /\ g \in [PickSets -> Nat] /\ \A Q \in PickSets \ {P} : g[Q] = f[Q]
      BY <1>2, <2>2
    <3>. HIDE DEF f, g
    <3>. QED BY <3>1, InputsFinite, TotalChange
  <2>. QED BY <1>1, <1>2, <2>1, <2>2, <2>3
<1>4. CASE s # job.source
  <2>1. q[s] = p[s] /\ Part(job, s) = 0
    BY <1>4 DEF Part
  <2>. QED BY <1>2, <2>1
<1>. QED BY <1>3, <1>4

LEMMA PartType ==
  ASSUME NEW x \in Job \cup Row, NEW s
  PROVE  Part(x, s) \in Nat
BY DEF Part, Job, Row

\* Euros that are mirrored are placed or parked, and nobody else's are
\* touched; a parked row has a new id.
LEMMA DeferEffect ==
  ASSUME TypeOK, RowsInv, NEW job \in Job, MirrorOrDefer(job)
  PROVE  /\ \A s \in Sources : Mirrored(s)' = Mirrored(s) + Part(job, s)
         /\ IsFiniteSet(parked') /\ \A q, r \in parked' : q.id = r.id => q = r
<1>1. placed \in [Sources -> [PickSets -> Nat]] /\ parked \in SUBSET Row /\ IsFiniteSet(parked)
      /\ \A q, r \in parked : q.id = r.id => q = r
  BY DEF TypeOK, RowsInv
<1>2. CASE MirrorAllocate(job) /\ UNCHANGED parked
  <2>1. picks \in PickSets /\ placed' = [placed EXCEPT ![job.source][picks] = @ + job.amount] /\ parked' = parked
    BY <1>2 DEF MirrorAllocate, TypeOK
  <2>2. ASSUME NEW s \in Sources
        PROVE  Held(placed', parked', s) = Held(placed, parked, s) + Part(job, s)
    <3> DEFINE q == placed'
    <3>0. q = [placed EXCEPT ![job.source][picks] = @ + job.amount]
      BY <2>1
    <3>. HIDE DEF q
    <3>1. Total(q[s], PickSets) = Total(placed[s], PickSets) + Part(job, s)
      BY <1>1, <2>1, <3>0, Allocated
    <3>2. Total(placed[s], PickSets) \in Nat /\ AmountOf(OfSource(parked, s)) \in Nat /\ Part(job, s) \in Nat
      BY <1>1, HeldType, PartType
    <3>. QED BY <2>1, <3>1, <3>2 DEF Held, q
  <2>. QED BY <1>1, <2>1, <2>2, MirroredIs
<1>3. CASE ~(MirrorAllocate(job) /\ UNCHANGED parked)
  <2>1. placed' = placed /\ \E id \in {1} \cup {r.id + 1 : r \in parked} :
          /\ \A r \in parked : r.id < id
          /\ parked' = parked \cup {[id |-> id, source |-> job.source, amount |-> job.amount]}
    BY <1>3 DEF MirrorOrDefer
  <2>2. PICK id \in {1} \cup {r.id + 1 : r \in parked} :
          /\ \A r \in parked : r.id < id
          /\ parked' = parked \cup {[id |-> id, source |-> job.source, amount |-> job.amount]}
    BY <2>1
  <2> DEFINE row == [id |-> id, source |-> job.source, amount |-> job.amount]
  <2>3. id \in Nat /\ \A r \in parked : r.id \in Nat
    BY <1>1 DEF Row
  <2>4. row \in Row /\ row.id = id /\ \A s : Part(row, s) = Part(job, s)
    BY <2>3 DEF Row, Job, Part
  <2>5. row \notin parked /\ \A r \in parked : r.id # row.id
    BY <2>2, <2>3, <2>4
  <2>6. parked' = parked \cup {row}
    BY <2>2
  <2>. HIDE DEF row
  <2>7. /\ parked' \in SUBSET Row /\ IsFiniteSet(parked') /\ row \in parked' /\ parked' \ {row} = parked
        /\ \A q, r \in parked' : q.id = r.id => q = r
    BY <1>1, <2>4, <2>5, <2>6, FS_AddElement
  <2>8. ASSUME NEW s \in Sources
        PROVE  Held(placed', parked', s) = Held(placed, parked, s) + Part(job, s)
    <3>1. AmountOf(OfSource(parked', s)) = AmountOf(OfSource(parked, s)) + Part(job, s)
      BY <2>4, <2>7, RowsOfSource
    <3>2. Total(placed[s], PickSets) \in Nat /\ AmountOf(OfSource(parked, s)) \in Nat /\ Part(job, s) \in Nat
      BY <1>1, HeldType, PartType
    <3>. QED BY <2>1, <3>1, <3>2 DEF Held
  <2>. QED BY <2>7, <2>8, MirroredIs
<1>. QED BY <1>2, <1>3

LEMMA MirroredType == TypeOK /\ RowsInv => \A s \in Sources : Mirrored(s) \in Nat
<1> SUFFICES ASSUME TypeOK, RowsInv, NEW s \in Sources PROVE Mirrored(s) \in Nat
  OBVIOUS
<1>1. placed \in [Sources -> [PickSets -> Nat]] /\ parked \in SUBSET Row /\ IsFiniteSet(parked)
  BY DEF TypeOK, RowsInv
<1>. QED BY <1>1, HeldType, MirroredIs

\* What deleting the parked row of an allocation, unwinding a source and
\* wiping the tracker leave of each source.
LEMMA UnparkEffect ==
  ASSUME TypeOK, RowsInv, NEW row \in parked, parked' = {r \in parked : r.id # row.id}, placed' = placed
  PROVE  /\ \A s \in Sources : Mirrored(s) = Mirrored(s)' + Part(row, s) /\ Mirrored(s)' \in Nat
         /\ IsFiniteSet(parked') /\ \A q, r \in parked' : q.id = r.id => q = r
         /\ parked' = parked \ {row}
<1>1. placed \in [Sources -> [PickSets -> Nat]] /\ parked \in SUBSET Row /\ IsFiniteSet(parked)
      /\ \A q, r \in parked : q.id = r.id => q = r
  BY DEF TypeOK, RowsInv
<1>2. parked' = parked \ {row}
  BY <1>1
<1>3. parked' \in SUBSET Row /\ IsFiniteSet(parked') /\ \A q, r \in parked' : q.id = r.id => q = r
  BY <1>1, <1>2, FS_Subset
<1>4. ASSUME NEW s \in Sources
      PROVE  Mirrored(s) = Mirrored(s)' + Part(row, s) /\ Mirrored(s)' \in Nat
  <2>1. AmountOf(OfSource(parked, s)) = AmountOf(OfSource(parked', s)) + Part(row, s)
    BY <1>1, <1>2, RowsOfSource
  <2>2. /\ Total(placed[s], PickSets) \in Nat /\ AmountOf(OfSource(parked', s)) \in Nat
        /\ Held(placed, parked', s) \in Nat /\ Part(row, s) \in Nat
    BY <1>1, <1>3, HeldType, PartType
  <2>3. Held(placed, parked, s) = Held(placed, parked', s) + Part(row, s)
    BY <2>1, <2>2 DEF Held
  <2>. QED BY <2>2, <2>3, MirroredIs
<1>. QED BY <1>2, <1>3, <1>4

LEMMA UnwindEffect ==
  ASSUME TypeOK, RowsInv, NEW source \in Sources, UnwindMirror(source)
  PROVE  /\ \A s \in Sources : Mirrored(s)' = IF s = source THEN 0 ELSE Mirrored(s)
         /\ IsFiniteSet(parked') /\ \A q, r \in parked' : q.id = r.id => q = r
         /\ parked' \subseteq parked
<1>1. placed \in [Sources -> [PickSets -> Nat]] /\ parked \in SUBSET Row /\ IsFiniteSet(parked)
      /\ \A q, r \in parked : q.id = r.id => q = r
  BY DEF TypeOK, RowsInv
<1> DEFINE p == placed'
           R == parked'
<1>2. p = [placed EXCEPT ![source] = [P \in PickSets |-> 0]] /\ R = {r \in parked : r.source # source}
  BY DEF UnwindMirror
<1>. HIDE DEF p, R
<1>3. R \in SUBSET Row /\ R \subseteq parked /\ IsFiniteSet(R) /\ \A q, r \in R : q.id = r.id => q = r
  BY <1>1, <1>2, FS_Subset
<1>4. ASSUME NEW s \in Sources PROVE Held(p, R, s) = IF s = source THEN 0 ELSE Held(placed, parked, s)
  <2>1. CASE s = source
    <3>1. p \in [Sources -> [PickSets -> Nat]] /\ \A P \in PickSets : p[s][P] = 0
      BY <1>1, <1>2, <2>1
    <3>2. OfSource(R, s) = OfSource({}, s)
      BY <1>2, <2>1 DEF OfSource
    <3>3. Held(p, {}, s) = 0
      BY <3>1, HeldType, FS_EmptySet
    <3>. QED BY <2>1, <3>2, <3>3 DEF Held
  <2>2. CASE s # source
    <3>1. p[s] = placed[s]
      BY <1>1, <1>2, <2>2
    <3>2. OfSource(R, s) = OfSource(parked, s)
      BY <1>2, <2>2 DEF OfSource
    <3>. QED BY <2>2, <3>1, <3>2 DEF Held
  <2>. QED BY <2>1, <2>2
<1>. QED BY <1>3, <1>4, MirroredIs DEF p, R

LEMMA WipedEffect ==
  ASSUME Wiped
  PROVE  /\ \A s \in Sources : Mirrored(s)' = 0
         /\ parked' = {} /\ IsFiniteSet(parked')
<1>1. placed' = NoEntries /\ parked' = {}
  BY DEF Wiped
<1>2. ASSUME NEW s \in Sources PROVE Held(NoEntries, {}, s) = 0
  <2>1. NoEntries \in [Sources -> [PickSets -> Nat]] /\ \A P \in PickSets : NoEntries[s][P] = 0
    BY DEF NoEntries
  <2>. QED BY <2>1, HeldType, FS_EmptySet
<1>. QED BY <1>1, <1>2, MirroredIs, FS_EmptySet

-----------------------------------------------------------------------------
(* The parked rows and the amounts on their way.                           *)

LEMMA NothingSplits == Splits(0) /\ Splits(NoJob.amount) /\ Splits(NoPlan.amount)
<1>1. ASSUME NEW n \in Nat \ {0} PROVE 0 % n = 0
  BY <1>1
<1>. QED BY <1>1, InputsFinite DEF Splits, NoJob, NoPlan

LEMMA InitRows == Init => RowsInv /\ SplitInv
<1> SUFFICES ASSUME Init PROVE RowsInv /\ SplitInv
  OBVIOUS
<1>1. RowsInv
  BY FS_EmptySet DEF Init, RowsInv, IdleCycle
<1>2. SplitInv
  BY NothingSplits DEF Init, SplitInv, IdleCycle, IdleRequest, NoPlans
<1>. QED BY <1>1, <1>2

LEMMA RowsStepKeeps == TypeOK /\ LockInv /\ RowsInv /\ [Next]_vars => RowsInv'
<1> SUFFICES ASSUME TypeOK, LockInv, RowsInv, [Next]_vars PROVE RowsInv'
  OBVIOUS
<1>a. /\ cycle \in [stage: Stages, today: Days, due: SUBSET PlanKeys, rows: SUBSET Row, job: Job]
      /\ request \in [stage: {"idle", "mirror", "unwind"}, job: Job]
  BY DEF TypeOK, Cycle, RequestState
<1>b. ASSUME NEW stage \in Stages, GoTo(stage)
      PROVE  cycle'.stage = stage /\ cycle'.rows = cycle.rows
  BY <1>a, <1>b DEF GoTo
<1>c. IsFiniteSet(parked) /\ \A q, r \in parked : q.id = r.id => q = r
  BY DEF RowsInv
<1>d. ASSUME UNCHANGED parked, cycle'.stage \notin {"row", "unpark"} PROVE RowsInv'
  BY <1>c, <1>d DEF RowsInv
<1> USE DEF Outside, Elsewhere, env, db, book
<1>1. CASE CycleStart
  BY <1>1, <1>a, <1>d DEF CycleStart
<1>2. CASE DepositMonthlyTransfer
  BY <1>2, <1>b, <1>d DEF DepositMonthlyTransfer, Stages
<1>3. CASE PayoutInterest
  BY <1>3, <1>b, <1>d DEF PayoutInterest, Stages
<1>4. CASE AccrueInterest
  BY <1>4, <1>b, <1>d DEF AccrueInterest, Stages
<1>5. CASE RunSparplans
  <2>1. cycle'.stage \in {"flush", "buy"}
    BY <1>5, <1>a DEF RunSparplans
  <2>. QED BY <1>5, <2>1, <1>d DEF RunSparplans
<1>6. ASSUME NEW k \in PlanKeys, ExecSparplan(k) PROVE RowsInv'
  <2>1. UNCHANGED parked /\ cycle'.stage \in {"flush", "buy", "mirror"}
    BY <1>6, <1>a DEF ExecSparplan, SkipSparplan, BuySparplan
  <2>. QED BY <2>1, <1>d
<1>7. CASE MirrorSparplan
  <2>1. cycle'.stage \in {"flush", "buy"}
    BY <1>7, <1>a DEF MirrorSparplan
  <2>2. IsFiniteSet(parked') /\ \A q, r \in parked' : q.id = r.id => q = r
    BY <1>7, <1>a, DeferEffect DEF MirrorSparplan
  <2>. QED BY <2>1, <2>2 DEF RowsInv
<1>8. CASE FlushPending
  <2>1. cycle'.stage = "row" /\ cycle'.rows = parked
    BY <1>8, <1>a DEF FlushPending
  <2>. QED BY <1>8, <1>c, <2>1 DEF FlushPending, RowsInv
<1>9. ASSUME NEW row \in cycle.rows, FlushRow(row) PROVE RowsInv'
  <2>1. cycle'.rows \subseteq cycle.rows /\ cycle.rows \subseteq parked /\ UNCHANGED parked
    BY <1>9, <1>a, <1>b DEF FlushRow, RowsInv, Stages
  <2>. QED BY <1>c, <2>1 DEF RowsInv
<1>10. ASSUME NEW row \in cycle.rows, UnparkRow(row) PROVE RowsInv'
  <2>1. cycle'.rows = cycle.rows \ {row} /\ cycle.rows \subseteq parked
    BY <1>10, <1>a DEF UnparkRow, RowsInv
  <2>2. /\ IsFiniteSet(parked') /\ \A q, r \in parked' : q.id = r.id => q = r
        /\ parked' = parked \ {row}
    BY <1>10, <2>1, UnparkEffect DEF UnparkRow
  <2>. QED BY <2>1, <2>2 DEF RowsInv
<1>11. CASE FlushDone
  BY <1>11, <1>b, <1>d DEF FlushDone, Stages
<1>12. CASE TakeSnapshot
  BY <1>12, <1>d DEF TakeSnapshot, IdleCycle
<1>13. CASE Request
  <2>1. cycle.stage = "idle" /\ UNCHANGED cycle
    BY <1>13 DEF Request, Initialize, Reset, Trueup, AddDeposit, AddSaveback, ManualBuy, LockInv,
       SetConfig, AddPlan, RemovePlan, RemovePosition, Done, Continue, Admitted
  <2>2. Wiped \/ UNCHANGED parked
    BY <1>13 DEF Request, Initialize, Reset, Trueup, AddDeposit, AddSaveback, ManualBuy,
       SetConfig, AddPlan, RemovePlan, RemovePosition
  <2>3. CASE Wiped
    BY <2>1, <2>3, WipedEffect DEF RowsInv
  <2>. QED BY <2>1, <2>2, <2>3, <1>d
<1>14. CASE MirrorRequest
  <2>1. cycle'.stage = "idle"
    BY <1>14 DEF MirrorRequest, RequestDone, LockInv
  <2>2. IsFiniteSet(parked') /\ \A q, r \in parked' : q.id = r.id => q = r
    BY <1>14, <1>a, DeferEffect DEF MirrorRequest
  <2>. QED BY <2>1, <2>2 DEF RowsInv
<1>15. CASE UnwindRequest
  <2>1. cycle'.stage = "idle"
    BY <1>15 DEF UnwindRequest, RequestDone, LockInv
  <2>2. IsFiniteSet(parked') /\ \A q, r \in parked' : q.id = r.id => q = r
    BY <1>15, <1>a, UnwindEffect DEF UnwindRequest, Job
  <2>. QED BY <2>1, <2>2 DEF RowsInv
<1>16. CASE Tick \/ RankingChanges \/ PricesChange
  BY <1>16 DEF Tick, RankingChanges, PricesChange, RowsInv
<1>17. CASE Abort
  BY <1>17, <1>d DEF Abort, IdleCycle
<1>18. CASE UNCHANGED vars
  BY <1>18 DEF vars, RowsInv
<1>. QED
  BY <1>1, <1>2, <1>3, <1>4, <1>5, <1>6, <1>7, <1>8, <1>9, <1>10, <1>11, <1>12, <1>13,
     <1>14, <1>15, <1>16, <1>17, <1>18 DEF Next, CycleStep, RequestStep

LEMMA DeferSplits ==
  ASSUME NEW job \in Job, Splits(job.amount), MirrorOrDefer(job), \A r \in parked : Splits(r.amount)
  PROVE  \A r \in parked' : Splits(r.amount)
BY DEF MirrorOrDefer

LEMMA SplitStepKeeps == TypeOK /\ LockInv /\ SplitInv /\ [Next]_vars => SplitInv'
<1> SUFFICES ASSUME TypeOK, LockInv, SplitInv, [Next]_vars PROVE SplitInv'
  OBVIOUS
<1>a. /\ cycle \in [stage: Stages, today: Days, due: SUBSET PlanKeys, rows: SUBSET Row, job: Job]
      /\ request \in [stage: {"idle", "mirror", "unwind"}, job: Job]
      /\ plans \in [PlanKeys -> Plan]
  BY DEF TypeOK, Cycle, RequestState
<1>b. /\ Splits(cycle.job.amount) /\ Splits(request.job.amount)
      /\ \A r \in parked : Splits(r.amount)
      /\ \A k \in PlanKeys : Splits(plans[k].amount)
  BY DEF SplitInv
<1>c. ASSUME UNCHANGED <<parked, request>>, cycle'.job = cycle.job,
             \A k \in PlanKeys : plans'[k].amount = plans[k].amount
      PROVE  SplitInv'
  BY <1>b, <1>c DEF SplitInv
<1>d. \A stage : GoTo(stage) => cycle'.job = cycle.job
  BY <1>a DEF GoTo
<1> USE DEF Outside, Elsewhere, env, db, book
<1>1. CASE CycleStart
  BY <1>1, <1>a, <1>c DEF CycleStart
<1>2. CASE DepositMonthlyTransfer \/ PayoutInterest \/ AccrueInterest
  BY <1>2, <1>c, <1>d DEF DepositMonthlyTransfer, PayoutInterest, AccrueInterest
<1>3. CASE RunSparplans
  BY <1>3, <1>a, <1>c DEF RunSparplans
<1>4. ASSUME NEW k \in PlanKeys, ExecSparplan(k) PROVE SplitInv'
  <2>1. CASE SkipSparplan(k)
    BY <1>4, <2>1, <1>a, <1>c DEF SkipSparplan, ExecSparplan
  <2>2. CASE BuySparplan(k)
    <3>1. \A j \in PlanKeys : plans'[j].amount = plans[j].amount
      BY <2>2, <1>a DEF BuySparplan, Plan
    <3>2. cycle'.job.amount = plans[k].amount
      BY <2>2, <1>a DEF BuySparplan
    <3>. QED BY <1>4, <1>b, <2>2, <3>1, <3>2 DEF BuySparplan, ExecSparplan, SplitInv
  <2>. QED BY <1>4, <2>1, <2>2 DEF ExecSparplan
<1>5. CASE MirrorSparplan
  <2>1. \A r \in parked' : Splits(r.amount)
    BY <1>5, <1>a, <1>b, DeferSplits DEF MirrorSparplan
  <2>2. cycle'.job = NoJob
    BY <1>5, <1>a DEF MirrorSparplan
  <2>. QED BY <1>5, <1>b, <2>1, <2>2, NothingSplits DEF MirrorSparplan, SplitInv
<1>6. CASE FlushPending
  BY <1>6, <1>a, <1>c DEF FlushPending
<1>7. ASSUME NEW row \in cycle.rows, FlushRow(row) PROVE SplitInv'
  BY <1>7, <1>a, <1>c, <1>d DEF FlushRow
<1>8. ASSUME NEW row \in cycle.rows, UnparkRow(row) PROVE SplitInv'
  <2>1. cycle'.job = cycle.job /\ \A r \in parked' : r \in parked
    BY <1>8, <1>a DEF UnparkRow
  <2>. QED BY <1>8, <1>b, <2>1 DEF UnparkRow, SplitInv
<1>9. CASE FlushDone
  BY <1>9, <1>c, <1>d DEF FlushDone
<1>10. CASE TakeSnapshot
  BY <1>10, <1>b, NothingSplits DEF TakeSnapshot, IdleCycle, SplitInv
<1>11. CASE Request
  <2>1. UNCHANGED cycle
    BY <1>11 DEF Request, Initialize, Reset, Trueup, AddDeposit, AddSaveback, ManualBuy,
       SetConfig, AddPlan, RemovePlan, RemovePosition
  <2>2. ASSUME NEW c \in Cashes, NEW s \in Seeds, NEW m \in Transfers, NEW r \in Rates,
               Initialize(c, s, m, r)
        PROVE  SplitInv'
    <3>1. Splits(SeedCost(s))
      BY ShareAssumption
    <3>2. request' = request \/ request'.job.amount = SeedCost(s)
      BY <2>2 DEF Initialize, Done, Continue
    <3>3. plans' = NoPlans /\ parked' = {}
      BY <2>2 DEF Initialize, Wiped
    <3>. QED BY <1>b, <2>1, <3>1, <3>2, <3>3, NothingSplits DEF SplitInv, NoPlans
  <2>3. CASE Reset
    BY <2>1, <2>3, <1>b, NothingSplits DEF Reset, Wiped, Done, SplitInv, NoPlans
  <2>4. ASSUME NEW c, Trueup(c) PROVE SplitInv'
    BY <2>4, <1>c DEF Trueup, Done
  <2>5. ASSUME NEW a, AddDeposit(a) PROVE SplitInv'
    BY <2>5, <1>c DEF AddDeposit, Done
  <2>6. ASSUME NEW a \in Amounts, NEW t \in Tickers, AddSaveback(a, t) \/ ManualBuy(a, t) PROVE SplitInv'
    <3>1. request'.job.amount = a /\ Splits(a)
      BY <2>6, ShareAssumption DEF AddSaveback, ManualBuy, Continue
    <3>. QED BY <2>1, <2>6, <1>b, <3>1 DEF AddSaveback, ManualBuy, SplitInv
  <2>7. ASSUME NEW m, NEW r, SetConfig(m, r) PROVE SplitInv'
    BY <2>7, <1>c DEF SetConfig, Done
  <2>8. ASSUME NEW k \in PlanKeys, NEW a \in Amounts, AddPlan(k, a) PROVE SplitInv'
    <3>1. \A j \in PlanKeys : plans'[j].amount \in {a, plans[j].amount}
      BY <2>8, <1>a DEF AddPlan, NewPlan, Plan
    <3>2. \A j \in PlanKeys : Splits(plans'[j].amount)
      BY <1>b, <3>1, ShareAssumption
    <3>. QED BY <2>1, <2>8, <1>b, <3>2 DEF AddPlan, Done, SplitInv
  <2>9. ASSUME NEW k \in PlanKeys, RemovePlan(k) PROVE SplitInv'
    <3>1. \A j \in PlanKeys : plans'[j] \in {NoPlan, plans[j]}
      BY <2>9, <1>a DEF RemovePlan
    <3>2. \A j \in PlanKeys : Splits(plans'[j].amount)
      BY <1>b, <3>1, NothingSplits
    <3>. QED BY <2>1, <2>9, <1>b, <3>2 DEF RemovePlan, Done, SplitInv
  <2>10. ASSUME NEW t, RemovePosition(t) PROVE SplitInv'
    <3>1. request'.job.amount = 0
      BY <2>10 DEF RemovePosition, Continue
    <3>. QED BY <2>1, <2>10, <1>b, <3>1, NothingSplits DEF RemovePosition, SplitInv
  <2>. QED BY <1>11, <2>2, <2>3, <2>4, <2>5, <2>6, <2>7, <2>8, <2>9, <2>10 DEF Request
<1>12. CASE MirrorRequest
  <2>1. \A r \in parked' : Splits(r.amount)
    BY <1>12, <1>a, <1>b, DeferSplits DEF MirrorRequest
  <2>. QED
    BY <1>12, <1>b, <2>1, NothingSplits DEF MirrorRequest, RequestDone, IdleRequest, SplitInv
<1>13. CASE UnwindRequest
  <2>1. \A r \in parked' : r \in parked
    BY <1>13 DEF UnwindRequest, UnwindMirror
  <2>. QED
    BY <1>13, <1>b, <2>1, NothingSplits DEF UnwindRequest, RequestDone, IdleRequest, SplitInv
<1>14. CASE Tick \/ RankingChanges \/ PricesChange
  BY <1>14, <1>c DEF Tick, RankingChanges, PricesChange
<1>15. CASE Abort
  BY <1>15, <1>b, NothingSplits DEF Abort, IdleCycle, IdleRequest, SplitInv
<1>16. CASE UNCHANGED vars
  BY <1>16, <1>c DEF vars
<1>. QED
  BY <1>1, <1>2, <1>3, <1>4, <1>5, <1>6, <1>7, <1>8, <1>9, <1>10, <1>11, <1>12, <1>13,
     <1>14, <1>15, <1>16 DEF Next, CycleStep, RequestStep

-----------------------------------------------------------------------------
(* Every euro a position was bought with is mirrored once.                 *)

\* No operation is between its two transactions.
Even == /\ cycle.stage \notin {"mirror", "unpark"} /\ request.stage = "idle"
        /\ \A s \in Sources : Mirrored(s) = Bought(s)

LEMMA EvenIsEnough == Even => EuroInv
BY DEF Even, EuroInv

LEMMA BoughtType == TypeOK => \A s \in Sources : Bought(s) \in Nat
BY DEF TypeOK, Bought, History, Sources

LEMMA InitEuro == Init => EuroInv
<1> SUFFICES ASSUME Init PROVE EuroInv
  OBVIOUS
<1>1. ASSUME NEW s \in Sources PROVE Mirrored(s) = Bought(s)
  <2>1. placed = NoEntries /\ parked = {} /\ NoEntries \in [Sources -> [PickSets -> Nat]]
        /\ \A P \in PickSets : NoEntries[s][P] = 0
    BY DEF Init, NoEntries
  <2>2. Mirrored(s) = 0
    BY <2>1, HeldType, FS_EmptySet, MirroredIs
  <2>3. Bought(s) = 0
    BY DEF Init, Bought, NoHoldings, NoHistory, Sources
  <2>. QED BY <2>2, <2>3
<1>2. cycle.stage = "idle" /\ request.stage = "idle"
  BY DEF Init, IdleCycle, IdleRequest
<1>. QED BY <1>1, <1>2, EvenIsEnough DEF Even

\* What no step but a few touches.
Still == /\ UNCHANGED <<held, placed, parked>>
         /\ history'.seed = history.seed

LEMMA StillKeeps ==
  Still => \A s : Mirrored(s)' = Mirrored(s) /\ Bought(s)' = Bought(s)
BY MirroredIs DEF Still, Bought

LEMMA EuroStepKeeps ==
  TypeOK /\ LockInv /\ ClosedTrackerIsEmpty /\ RowsInv /\ EuroInv /\ [Next]_vars => EuroInv'
<1> SUFFICES ASSUME TypeOK, LockInv, ClosedTrackerIsEmpty, RowsInv, EuroInv, [Next]_vars, aborts' = 0
             PROVE  EuroInv'
  BY DEF EuroInv
<1>a. /\ cycle \in [stage: Stages, today: Days, due: SUBSET PlanKeys, rows: SUBSET Row, job: Job]
      /\ request \in [stage: {"idle", "mirror", "unwind"}, job: Job]
      /\ held \in [Tickers -> [seeded: Nat, bought: Nat]]
      /\ history \in [seed: Nat, opened: Nat, transfers: Nat, payouts: Nat, firstAccrual: Int, booked: Int]
  BY DEF TypeOK, Cycle, RequestState, History
<1>b. ASSUME NEW stage \in Stages, GoTo(stage)
      PROVE  cycle'.stage = stage /\ cycle'.rows = cycle.rows
  BY <1>a, <1>b DEF GoTo
<1>c. \A s \in Sources : Mirrored(s) \in Nat /\ Bought(s) \in Nat
  BY MirroredType, BoughtType
<1>d. ASSUME Even, Still, UNCHANGED request, cycle'.stage \notin {"mirror", "unpark"} PROVE EuroInv'
  <2>1. Even'
    BY <1>d, StillKeeps DEF Even
  <2>. QED BY <2>1, EvenIsEnough, PTL
<1>e. aborts = 0 => /\ cycle.stage \notin {"idle", "mirror", "unpark"} => Even
                    /\ lock = "free" => Even
  BY DEF EuroInv, LockInv, Even
<1> USE DEF Outside, Elsewhere, env, db, book
<1>1. CASE CycleStart
  <2>1. cycle'.stage = "transfer" /\ Even
    BY <1>1, <1>a, <1>e DEF CycleStart
  <2>. QED BY <1>1, <1>d, <2>1 DEF CycleStart, Still
<1>2. CASE DepositMonthlyTransfer
  <2>1. cycle'.stage = "payout" /\ Even
    BY <1>2, <1>b, <1>e DEF DepositMonthlyTransfer, Stages
  <2>2. history'.seed = history.seed
    BY <1>2, <1>a DEF DepositMonthlyTransfer
  <2>. QED BY <1>2, <1>d, <2>1, <2>2 DEF DepositMonthlyTransfer, Still
<1>3. CASE PayoutInterest
  <2>1. cycle'.stage = "accrue" /\ Even
    BY <1>3, <1>b, <1>e DEF PayoutInterest, Stages
  <2>2. history'.seed = history.seed
    BY <1>3, <1>a DEF PayoutInterest
  <2>. QED BY <1>3, <1>d, <2>1, <2>2 DEF PayoutInterest, Still
<1>4. CASE AccrueInterest
  <2>1. cycle'.stage = "plans" /\ Even
    BY <1>4, <1>b, <1>e DEF AccrueInterest, Stages
  <2>2. history'.seed = history.seed
    BY <1>4, <1>a DEF AccrueInterest
  <2>. QED BY <1>4, <1>d, <2>1, <2>2 DEF AccrueInterest, Still
<1>5. CASE RunSparplans
  <2>1. cycle'.stage \in {"flush", "buy"} /\ Even
    BY <1>5, <1>a, <1>e DEF RunSparplans
  <2>. QED BY <1>5, <1>d, <2>1 DEF RunSparplans, Still
<1>6. ASSUME NEW k \in PlanKeys, ExecSparplan(k) PROVE EuroInv'
  <2>1. Even
    BY <1>6, <1>e DEF ExecSparplan
  <2>2. CASE SkipSparplan(k)
    <3>1. cycle'.stage \in {"flush", "buy"}
      BY <2>2, <1>a DEF SkipSparplan
    <3>. QED BY <1>6, <1>d, <2>1, <2>2, <3>1 DEF ExecSparplan, SkipSparplan, Still
  <2>3. CASE BuySparplan(k)
    <3>1. cycle'.stage = "mirror" /\ cycle'.job = [source |-> k[1], amount |-> plans[k].amount]
      BY <2>3, <1>a DEF BuySparplan
    <3>2. k[1] \in Tickers /\ plans[k].amount \in Nat
      BY DEF PlanKeys, TypeOK, Plan
    <3>3. ASSUME NEW s \in Sources
          PROVE  Mirrored(s)' = Bought(s) /\ Bought(s)' = Bought(s) + Part(cycle'.job, s)
      <4>1. Mirrored(s)' = Mirrored(s)
        BY <2>3, MirroredIs DEF BuySparplan
      <4>2. Bought(s)' = Bought(s) + Part(cycle'.job, s)
        BY <1>6, <2>3, <1>a, <1>c, <3>1, <3>2, InputsFinite DEF BuySparplan, ExecSparplan, Bought, Part, Sources
      <4>. QED BY <2>1, <4>1, <4>2 DEF Even
    <3>4. request'.stage = "idle"
      BY <1>6, <2>1 DEF ExecSparplan, Even
    <3>. QED BY <3>1, <3>3, <3>4 DEF EuroInv
  <2>. QED BY <1>6, <2>2, <2>3 DEF ExecSparplan
<1>7. CASE MirrorSparplan
  <2>1. cycle'.stage \in {"flush", "buy"} /\ request.stage = "idle" /\ UNCHANGED request
    BY <1>7, <1>a DEF MirrorSparplan, LockInv
  <2>2. \A s \in Sources : Mirrored(s)' = Mirrored(s) + Part(cycle.job, s)
    BY <1>7, <1>a, DeferEffect DEF MirrorSparplan
  <2>3. \A s \in Sources : Bought(s)' = Bought(s)
    BY <1>7 DEF MirrorSparplan, Bought
  <2>4. Even'
    BY <1>7, <2>1, <2>2, <2>3 DEF MirrorSparplan, EuroInv, Even
  <2>. QED BY <2>4, EvenIsEnough, PTL
<1>8. CASE FlushPending
  <2>1. cycle'.stage = "row" /\ Even
    BY <1>8, <1>a, <1>e DEF FlushPending
  <2>. QED BY <1>8, <1>d, <2>1 DEF FlushPending, Still
<1>9. ASSUME NEW row \in cycle.rows, FlushRow(row) PROVE EuroInv'
  <2>1. Even /\ UNCHANGED request
    BY <1>9, <1>e DEF FlushRow
  <2> DEFINE job == [source |-> row.source, amount |-> row.amount]
  <2>2. CASE MirrorAllocate(job) /\ GoTo("unpark")
    <3>1. cycle'.stage = "unpark" /\ cycle'.rows = cycle.rows /\ FirstRow(row)
      BY <1>9, <1>b, <2>2 DEF FlushRow, Stages
    <3>2. job \in Job /\ \A s : Part(job, s) = Part(row, s)
      BY <1>9, <1>a DEF Job, Row, Part
    <3>3. MirrorOrDefer(job)
      BY <1>9, <2>2 DEF FlushRow, MirrorOrDefer
    <3>. HIDE DEF job
    <3>4. \A s \in Sources : Mirrored(s)' = Mirrored(s) + Part(row, s)
      BY <3>2, <3>3, DeferEffect
    <3>5. \A s \in Sources : Bought(s)' = Bought(s)
      BY <1>9 DEF FlushRow, Bought
    <3>6. \A r \in cycle'.rows : FirstRow(r)' => r = row
      <4>1. \A r \in cycle.rows : r.id \in Nat /\ r \in parked
        BY <1>9, <1>a DEF Row, RowsInv, FlushRow
      <4>. QED BY <3>1, <4>1 DEF FirstRow, RowsInv
    <3>7. \A s \in Sources : Mirrored(s)' = Bought(s)' + Part(row, s)
      BY <2>1, <3>4, <3>5 DEF Even
    <3>. QED BY <2>1, <3>1, <3>6, <3>7 DEF EuroInv, Even
  <2>3. CASE picks = {} /\ UNCHANGED <<placed, mirror>> /\ cycle' = [cycle EXCEPT !.rows = @ \ {row}]
    <3>1. cycle'.stage = "row"
      BY <1>9, <1>a, <2>3 DEF FlushRow
    <3>. QED BY <1>9, <1>d, <2>1, <2>3, <3>1 DEF FlushRow, Still
  <2>. QED BY <1>9, <2>2, <2>3 DEF FlushRow
<1>10. ASSUME NEW row \in cycle.rows, UnparkRow(row) PROVE EuroInv'
  <2>1. cycle'.stage = "row" /\ request.stage = "idle" /\ UNCHANGED request /\ aborts = 0
    BY <1>10, <1>a DEF UnparkRow, LockInv
  <2>2. \A s \in Sources : Mirrored(s) = Bought(s) + Part(row, s)
    BY <1>10, <2>1 DEF UnparkRow, EuroInv
  <2>3. row \in parked /\ row \in Row
    BY <1>10, <1>a DEF UnparkRow, RowsInv
  <2>4. \A s \in Sources : Mirrored(s) = Mirrored(s)' + Part(row, s) /\ Mirrored(s)' \in Nat
    BY <1>10, <2>3, UnparkEffect DEF UnparkRow
  <2>5. \A s \in Sources : Bought(s)' = Bought(s)
    BY <1>10 DEF UnparkRow, Bought
  <2>6. \A s \in Sources : Part(row, s) \in Nat
    BY <2>3, PartType
  <2>7. Even'
    BY <1>c, <2>1, <2>2, <2>4, <2>5, <2>6 DEF Even
  <2>. QED BY <2>7, EvenIsEnough, PTL
<1>11. CASE FlushDone
  <2>1. cycle'.stage = "snapshot" /\ Even
    BY <1>11, <1>b, <1>e DEF FlushDone, Stages
  <2>. QED BY <1>11, <1>d, <2>1 DEF FlushDone, Still
<1>12. CASE TakeSnapshot
  <2>1. cycle'.stage = "idle" /\ Even
    BY <1>12, <1>e DEF TakeSnapshot, IdleCycle
  <2>. QED BY <1>12, <1>d, <2>1 DEF TakeSnapshot, Still
<1>13. CASE Request
  <2>1. cycle.stage = "idle" /\ UNCHANGED cycle /\ Even
    BY <1>13, <1>e DEF Request, Initialize, Reset, Trueup, AddDeposit, AddSaveback, ManualBuy, LockInv,
       SetConfig, AddPlan, RemovePlan, RemovePosition, Done, Continue, Admitted
  <2>2. ASSUME Done, Still PROVE EuroInv'
    BY <1>d, <2>1, <2>2 DEF Done
  <2>3. ASSUME NEW c \in Cashes, NEW s \in Seeds, NEW m \in Transfers, NEW r \in Rates,
               Initialize(c, s, m, r)
        PROVE  EuroInv'
    <3>1. \A source \in Sources : Mirrored(source)' = 0
      BY <2>3, WipedEffect DEF Initialize
    <3>2. history'.seed = SeedCost(s) /\ SeedCost(s) \in Nat /\ \A t \in Tickers : held'[t].bought = 0
      BY <2>3, SeedCostType DEF Initialize
    <3>3. \A source \in Sources : Bought(source)' = IF source = Seed THEN SeedCost(s) ELSE 0
      BY <3>2 DEF Bought, Sources
    <3>4. CASE SeedCost(s) > 0 /\ Continue("mirror", Seed, SeedCost(s))
      <4>1. request'.stage = "mirror" /\ request'.job.source = Seed /\ request'.job.amount = SeedCost(s)
        BY <3>4 DEF Continue
      <4>2. \A source \in Sources : Mirrored(source)' + Part(request'.job, source) = Bought(source)'
        BY <3>1, <3>2, <3>3, <4>1 DEF Part
      <4>. QED BY <2>1, <4>1, <4>2 DEF EuroInv
    <3>5. CASE ~(SeedCost(s) > 0) /\ Done
      <4>1. SeedCost(s) = 0
        BY <3>2, <3>5
      <4>2. Even'
        BY <2>1, <3>1, <3>3, <3>5, <4>1 DEF Even, Done
      <4>. QED BY <4>2, EvenIsEnough, PTL
    <3>. QED BY <2>3, <3>4, <3>5 DEF Initialize
  <2>4. CASE Reset
    <3>1. \A s \in Sources : Mirrored(s)' = 0
      BY <2>4, WipedEffect DEF Reset
    <3>2. \A s \in Sources : Bought(s)' = 0
      BY <2>4 DEF Reset, NoHoldings, NoHistory, Bought, Sources
    <3>3. Even'
      BY <2>1, <2>4, <3>1, <3>2 DEF Even, Reset, Done
    <3>. QED BY <3>3, EvenIsEnough, PTL
  <2>5. ASSUME NEW c, Trueup(c) PROVE EuroInv'
    BY <2>2, <2>5 DEF Trueup, Still
  <2>6. ASSUME NEW a, AddDeposit(a) PROVE EuroInv'
    BY <2>2, <2>6 DEF AddDeposit, Still
  <2>7. ASSUME NEW a \in Amounts, NEW t \in Tickers, AddSaveback(a, t) \/ ManualBuy(a, t) PROVE EuroInv'
    <3>1. request'.stage = "mirror" /\ request'.job = [source |-> t, amount |-> a] /\ a \in Nat
      BY <2>7, InputAssumption DEF AddSaveback, ManualBuy, Continue
    <3>2. \A s \in Sources : Mirrored(s)' = Mirrored(s)
      BY <2>7, MirroredIs DEF AddSaveback, ManualBuy
    <3>3. held' = [held EXCEPT ![t].bought = @ + a] /\ history' = history
      BY <2>7 DEF AddSaveback, ManualBuy
    <3>4. \A s \in Sources : Bought(s)' = Bought(s) + Part(request'.job, s)
      BY <1>a, <1>c, <3>1, <3>3, InputsFinite DEF Bought, Part, Sources
    <3>. QED BY <2>1, <3>1, <3>2, <3>4 DEF EuroInv, Even
  <2>8. ASSUME NEW m, NEW r, SetConfig(m, r) PROVE EuroInv'
    BY <2>2, <2>8 DEF SetConfig, Still
  <2>9. ASSUME NEW k, NEW a, AddPlan(k, a) PROVE EuroInv'
    BY <2>2, <2>9 DEF AddPlan, Still
  <2>10. ASSUME NEW k, RemovePlan(k) PROVE EuroInv'
    BY <2>2, <2>10 DEF RemovePlan, Still
  <2>11. ASSUME NEW t \in Tickers, RemovePosition(t) PROVE EuroInv'
    <3>1. request'.stage = "unwind" /\ request'.job.source = t /\ t # Seed
      BY <2>11, InputsFinite DEF RemovePosition, Continue
    <3>2. \A s \in Sources : Mirrored(s)' = Mirrored(s)
      BY <2>11, MirroredIs DEF RemovePosition
    <3>3. held' = [held EXCEPT ![t] = [seeded |-> 0, bought |-> 0]] /\ history' = history
      BY <2>11 DEF RemovePosition
    <3>4. \A s \in Sources : Bought(s)' = IF s = t THEN 0 ELSE Bought(s)
      BY <1>a, <3>1, <3>3 DEF Bought, Sources
    <3>. QED BY <2>1, <3>1, <3>2, <3>4 DEF EuroInv, Even
  <2>. QED BY <1>13, <2>3, <2>4, <2>5, <2>6, <2>7, <2>8, <2>9, <2>10, <2>11 DEF Request
<1>14. CASE MirrorRequest
  <2>1. cycle.stage = "idle" /\ UNCHANGED cycle /\ request'.stage = "idle" /\ aborts = 0
    BY <1>14 DEF MirrorRequest, RequestDone, LockInv, IdleRequest
  <2>2. \A s \in Sources : Mirrored(s)' = Mirrored(s) + Part(request.job, s)
    BY <1>14, <1>a, DeferEffect DEF MirrorRequest
  <2>3. \A s \in Sources : Bought(s)' = Bought(s)
    BY <1>14 DEF MirrorRequest, RequestDone, Bought
  <2>4. Even'
    BY <1>14, <2>1, <2>2, <2>3 DEF MirrorRequest, EuroInv, Even
  <2>. QED BY <2>4, EvenIsEnough, PTL
<1>15. CASE UnwindRequest
  <2>1. cycle.stage = "idle" /\ UNCHANGED cycle /\ request'.stage = "idle" /\ aborts = 0
    BY <1>15 DEF UnwindRequest, RequestDone, LockInv, IdleRequest
  <2>2. \A s \in Sources : Mirrored(s)' = IF s = request.job.source THEN 0 ELSE Mirrored(s)
    BY <1>15, <1>a, UnwindEffect DEF UnwindRequest, Job
  <2>3. \A s \in Sources : Bought(s)' = Bought(s)
    BY <1>15 DEF UnwindRequest, RequestDone, Bought
  <2>4. Even'
    BY <1>15, <2>1, <2>2, <2>3 DEF UnwindRequest, EuroInv, Even
  <2>. QED BY <2>4, EvenIsEnough, PTL
<1>16. CASE Tick \/ RankingChanges \/ PricesChange \/ UNCHANGED vars
  <2>1. Still /\ UNCHANGED <<cycle, request, aborts>>
    BY <1>16 DEF Tick, RankingChanges, PricesChange, vars, Still
  <2>. QED BY <2>1, StillKeeps DEF EuroInv, FirstRow
<1>17. CASE Abort
  <2>1. aborts \in Nat /\ aborts' = aborts + 1
    BY <1>17, InputAssumption DEF Abort, TypeOK
  <2>. QED BY <2>1
<1>. QED
  BY <1>1, <1>2, <1>3, <1>4, <1>5, <1>6, <1>7, <1>8, <1>9, <1>10, <1>11, <1>12, <1>13,
     <1>14, <1>15, <1>16, <1>17 DEF Next, CycleStep, RequestStep

LEMMA MirrorCorrect == Spec => [](RowsInv /\ SplitInv /\ EuroInv)
<1>1. Init => RowsInv /\ SplitInv /\ EuroInv
  BY InitRows, InitEuro
<1>2. TypeOK /\ (LockInv /\ ClosedTrackerIsEmpty) /\ (RowsInv /\ SplitInv /\ EuroInv) /\ [Next]_vars
        => (RowsInv /\ SplitInv /\ EuroInv)'
  BY RowsStepKeeps, SplitStepKeeps, EuroStepKeeps
<1>. QED BY <1>1, <1>2, LockCorrect, TypeCorrect, PTL DEF Spec

\* As long as no operation was cut short, every euro a position was bought
\* with lies in the mirror once, placed or parked, whenever the lock is free.
THEOREM EurosTracked == Spec => [](aborts = 0 => MirrorTracksPositions)
<1>1. LockInv /\ EuroInv => (aborts = 0 => MirrorTracksPositions)
  <2> SUFFICES ASSUME LockInv, EuroInv, aborts = 0, lock = "free"
               PROVE  /\ \A t \in Tickers : Mirrored(t) = held[t].bought
                      /\ Mirrored(Seed) = history.seed
    BY DEF MirrorTracksPositions
  <2>1. \A s \in Sources : Mirrored(s) = Bought(s)
    BY DEF LockInv, EuroInv
  <2>. QED BY <2>1, InputsFinite DEF Bought, Sources
<1>. QED BY <1>1, LockCorrect, MirrorCorrect, PTL

-----------------------------------------------------------------------------
(* The mirror positions are what the entries bought.                       *)

\* What the entries that a name shares in gave it.
Cross(n) == Sources \X {P \in PickSets : n \in P}
Shares(p, n) == [e \in Cross(n) |-> Share(p[e[1]][e[2]], e[2])]

LEMMA RebuiltIs ==
  ASSUME NEW p, NEW n \in Names
  PROVE  Rebuilt(p)[n] = Total(Shares(p, n), Cross(n))
<1> DEFINE R == Cross(n)
           f == Shares(p, n)
           Value(e) == Share(p[e[1]][e[2]], e[2])
           Solves(h) == h = [s \in SUBSET R |-> IF s = {} THEN 0 ELSE Value(Picked(s)) + h[s \ {Picked(s)}]]
<1>0. Rebuilt(p)[n] = MapThenSumSet(LAMBDA e : Value(e), R)
  BY DEF Rebuilt, Cross
<1>1. MapThenSumSet(LAMBDA e : Value(e), R) = (CHOOSE h : Solves(h))[R]
  <2>. HIDE DEF Value, R
  <2>. QED BY DEF MapThenSumSet, MapThenFoldSet, Picked
<1>2. \A s \in SUBSET R : s # {} => Picked(s) \in R
  BY DEF Picked
<1>3. \A e \in R : f[e] = Value(e)
  BY DEF Shares
<1>. HIDE DEF f, R, Value
<1>4. \A h : Solves(h) <=> Folds(h, f, R)
  <2> SUFFICES ASSUME NEW h PROVE Solves(h) <=> Folds(h, f, R)
    OBVIOUS
  <2>1. \A s \in SUBSET R :
          (IF s = {} THEN 0 ELSE Value(Picked(s)) + h[s \ {Picked(s)}])
            = IF s = {} THEN 0 ELSE f[Picked(s)] + h[s \ {Picked(s)}]
    BY <1>2, <1>3
  <2>2. [s \in SUBSET R |-> IF s = {} THEN 0 ELSE Value(Picked(s)) + h[s \ {Picked(s)}]]
          = [s \in SUBSET R |-> IF s = {} THEN 0 ELSE f[Picked(s)] + h[s \ {Picked(s)}]]
    BY <2>1
  <2>. QED BY <2>2 DEF Folds
<1>5. (CHOOSE h : Solves(h)) = (CHOOSE h : Folds(h, f, R))
  BY <1>4
<1>. HIDE DEF Solves
<1>. QED BY <1>0, <1>1, <1>5, TotalIsFold DEF f, R

LEMMA ShareType ==
  ASSUME NEW amount \in Nat, NEW P, Cardinality(P) \in Nat \ {0}
  PROVE  Share(amount, P) \in Nat
<1>1. ASSUME NEW v \in Nat, NEW k \in Nat \ {0} PROVE v \div k \in Nat
  BY <1>1
<1>. QED BY <1>1 DEF Share

LEMMA SharesType ==
  ASSUME NEW p \in [Sources -> [PickSets -> Nat]], NEW n
  PROVE  /\ IsFiniteSet(Cross(n)) /\ Shares(p, n) \in [Cross(n) -> Nat]
         /\ \A e \in Cross(n) : e[1] \in Sources /\ e[2] \in PickSets /\ n \in e[2]
<1>1. IsFiniteSet({P \in PickSets : n \in P})
  BY InputsFinite, FS_Subset
<1>2. IsFiniteSet(Cross(n))
  BY <1>1, InputsFinite, FS_Product DEF Cross
<1>3. \A e \in Cross(n) : e[1] \in Sources /\ e[2] \in PickSets /\ n \in e[2]
  BY DEF Cross
<1>4. ASSUME NEW e \in Cross(n) PROVE Share(p[e[1]][e[2]], e[2]) \in Nat
  <2>1. p[e[1]][e[2]] \in Nat /\ Cardinality(e[2]) \in Nat \ {0}
    BY <1>3, InputsFinite
  <2>. QED BY <2>1, ShareType
<1>5. Shares(p, n) \in [Cross(n) -> Nat]
  BY <1>4 DEF Shares
<1>. QED BY <1>2, <1>3, <1>5

LEMMA RebuiltNothing == Rebuilt(NoEntries) = NoMirror
<1>1. ASSUME NEW k \in Nat \ {0} PROVE 0 \div k = 0
  BY <1>1
<1>2. ASSUME NEW n \in Names PROVE Rebuilt(NoEntries)[n] = 0
  <2>1. NoEntries \in [Sources -> [PickSets -> Nat]]
    BY DEF NoEntries
  <2>2. \A e \in Cross(n) : Shares(NoEntries, n)[e] = 0
    <3>1. \A e \in Cross(n) : NoEntries[e[1]][e[2]] = 0 /\ Cardinality(e[2]) \in Nat \ {0}
      BY <2>1, SharesType, InputsFinite DEF NoEntries
    <3>. QED BY <3>1, <1>1 DEF Shares, Share
  <2>. QED BY <2>1, <2>2, SharesType, TotalZero, RebuiltIs
<1>. QED BY <1>2 DEF Rebuilt, NoMirror

\* The entries q are p with an allocation of the job's euros to the picks P.
Allocates(p, q, job, P) == q = [p EXCEPT ![job.source][P] = @ + job.amount]

\* An amount that splits evenly gives each of the picks its share.
LEMMA RebuiltAllocated ==
  ASSUME NEW p \in [Sources -> [PickSets -> Nat]], NEW P \in PickSets, NEW job \in Job,
         Splits(job.amount), NEW q, Allocates(p, q, job, P), NEW n \in Names
  PROVE  /\ Rebuilt(q)[n] = IF n \in P THEN Rebuilt(p)[n] + Share(job.amount, P) ELSE Rebuilt(p)[n]
         /\ Rebuilt(p)[n] \in Nat
<1>0. q = [p EXCEPT ![job.source][P] = @ + job.amount]
  BY DEF Allocates
<1>1. job.source \in Sources /\ job.amount \in Nat /\ q \in [Sources -> [PickSets -> Nat]]
  BY <1>0 DEF Job
<1> DEFINE f == Shares(p, n)
           g == Shares(q, n)
           x == <<job.source, P>>
<1>2. /\ IsFiniteSet(Cross(n)) /\ f \in [Cross(n) -> Nat] /\ g \in [Cross(n) -> Nat]
      /\ \A e \in Cross(n) : e[1] \in Sources /\ e[2] \in PickSets /\ n \in e[2]
  BY <1>1, SharesType
<1>3. Rebuilt(p)[n] = Total(f, Cross(n)) /\ Rebuilt(q)[n] = Total(g, Cross(n)) /\ Total(f, Cross(n)) \in Nat
  <2>1. Rebuilt(p)[n] = Total(f, Cross(n)) /\ Rebuilt(q)[n] = Total(g, Cross(n))
    BY RebuiltIs
  <2>. HIDE DEF f
  <2>. QED BY <1>2, <2>1, TotalType
<1>4. ASSUME NEW e \in Cross(n), e # x PROVE g[e] = f[e]
  <2>1. e[1] # job.source \/ e[2] # P
    BY <1>4 DEF Cross
  <2>2. q[e[1]][e[2]] = p[e[1]][e[2]]
    BY <1>0, <1>1, <1>2, <1>4, <2>1
  <2>. QED BY <1>4, <2>2 DEF Shares
<1>5. CASE n \in P
  <2>1. x \in Cross(n)
    BY <1>1, <1>5 DEF Cross
  <2>2. g[x] = f[x] + Share(job.amount, P)
    <3>1. p[job.source][P] \in Nat /\ q[job.source][P] = p[job.source][P] + job.amount
      BY <1>0, <1>1
    <3>2. Cardinality(P) \in Nat \ {0} /\ job.amount % Cardinality(P) = 0
      BY InputsFinite DEF Splits
    <3>3. Share(p[job.source][P] + job.amount, P) = Share(p[job.source][P], P) + Share(job.amount, P)
      BY <1>1, <3>1, <3>2, DivOfSum DEF Share
    <3>. QED BY <2>1, <3>1, <3>3 DEF Shares
  <2>3. f[x] \in Nat /\ g[x] \in Nat /\ Share(job.amount, P) \in Nat
    <3>1. Cardinality(P) \in Nat \ {0}
      BY InputsFinite
    <3>. QED BY <1>1, <1>2, <2>1, <3>1, ShareType
  <2>. HIDE DEF f, g, x
  <2>4. Total(g, Cross(n)) = (Total(f, Cross(n)) - f[x]) + g[x]
    BY <1>2, <1>4, <2>1, TotalChange
  <2>. QED BY <1>3, <1>5, <2>2, <2>3, <2>4
<1>6. CASE n \notin P
  <2>1. x \notin Cross(n)
    BY <1>6 DEF Cross
  <2>2. g = f
    <3>1. \A e \in Cross(n) : g[e] = f[e]
      BY <1>4, <2>1
    <3>. HIDE DEF f, g
    <3>. QED BY <1>2, <3>1
  <2>. QED BY <1>3, <1>6, <2>2
<1>. QED BY <1>5, <1>6

LEMMA AllocateAddsUp ==
  ASSUME TypeOK, MirrorAddsUp, NEW job \in Job, Splits(job.amount), MirrorAllocate(job)
  PROVE  MirrorAddsUp'
<1>1. /\ picks \in PickSets /\ placed \in [Sources -> [PickSets -> Nat]]
      /\ Allocates(placed, placed', job, picks)
      /\ mirror' = [n \in Names |-> IF n \in picks THEN mirror[n] + Share(job.amount, picks) ELSE mirror[n]]
      /\ mirror = Rebuilt(placed)
  BY DEF TypeOK, MirrorAllocate, MirrorAddsUp, Allocates
<1> DEFINE q == placed'
<1>2. Allocates(placed, q, job, picks)
  BY <1>1
<1>. HIDE DEF q
<1>3. ASSUME NEW n \in Names PROVE mirror'[n] = Rebuilt(q)[n]
  <2>1. Rebuilt(q)[n] = IF n \in picks THEN Rebuilt(placed)[n] + Share(job.amount, picks)
                        ELSE Rebuilt(placed)[n]
    BY <1>1, <1>2, RebuiltAllocated
  <2>2. mirror'[n] = IF n \in picks THEN mirror[n] + Share(job.amount, picks) ELSE mirror[n]
    BY <1>1
  <2>. QED BY <1>1, <2>1, <2>2
<1>4. mirror' = Rebuilt(q)
  BY <1>1, <1>3 DEF Rebuilt
<1>. QED BY <1>4 DEF q, MirrorAddsUp

LEMMA AddsUpStepKeeps ==
  TypeOK /\ RowsInv /\ SplitInv /\ MirrorAddsUp /\ [Next]_vars => MirrorAddsUp'
<1> SUFFICES ASSUME TypeOK, RowsInv, SplitInv, MirrorAddsUp, [Next]_vars PROVE MirrorAddsUp'
  OBVIOUS
<1>a. ASSUME UNCHANGED <<placed, mirror>> PROVE MirrorAddsUp'
  BY <1>a DEF MirrorAddsUp
<1>b. cycle.job \in Job /\ request.job \in Job /\ cycle.rows \subseteq Row
  BY DEF TypeOK, Cycle, RequestState
<1> USE DEF Outside, Elsewhere, env, db, book
<1>1. CASE CycleStart \/ DepositMonthlyTransfer \/ PayoutInterest \/ AccrueInterest \/ RunSparplans
           \/ FlushPending \/ FlushDone \/ TakeSnapshot
  BY <1>1, <1>a DEF CycleStart, DepositMonthlyTransfer, PayoutInterest, AccrueInterest, RunSparplans,
     FlushPending, FlushDone, TakeSnapshot
<1>2. ASSUME NEW k \in PlanKeys, ExecSparplan(k) PROVE MirrorAddsUp'
  BY <1>2, <1>a DEF ExecSparplan, SkipSparplan, BuySparplan
<1>3. CASE MirrorSparplan
  BY <1>3, <1>a, <1>b, AllocateAddsUp DEF MirrorSparplan, MirrorOrDefer, SplitInv
<1>4. ASSUME NEW row \in cycle.rows, FlushRow(row) PROVE MirrorAddsUp'
  <2> DEFINE job == [source |-> row.source, amount |-> row.amount]
  <2>1. row \in parked /\ job \in Job /\ Splits(job.amount)
    BY <1>4, <1>b DEF FlushRow, RowsInv, SplitInv, Job, Row
  <2>2. MirrorAllocate(job) \/ UNCHANGED <<placed, mirror>>
    BY <1>4 DEF FlushRow
  <2>. HIDE DEF job
  <2>. QED BY <1>a, <2>1, <2>2, AllocateAddsUp
<1>5. ASSUME NEW row \in cycle.rows, UnparkRow(row) PROVE MirrorAddsUp'
  BY <1>5, <1>a DEF UnparkRow
<1>6. CASE Request
  <2>1. Wiped \/ UNCHANGED <<placed, mirror>>
    BY <1>6 DEF Request, Initialize, Reset, Trueup, AddDeposit, AddSaveback, ManualBuy,
       SetConfig, AddPlan, RemovePlan, RemovePosition
  <2>2. CASE Wiped
    BY <2>2, RebuiltNothing DEF Wiped, MirrorAddsUp
  <2>. QED BY <1>a, <2>1, <2>2
<1>7. CASE MirrorRequest
  BY <1>7, <1>a, <1>b, AllocateAddsUp DEF MirrorRequest, MirrorOrDefer, SplitInv
<1>8. CASE UnwindRequest
  BY <1>8 DEF UnwindRequest, UnwindMirror, MirrorAddsUp
<1>9. CASE Tick \/ RankingChanges \/ PricesChange \/ Abort \/ UNCHANGED vars
  BY <1>9, <1>a DEF Tick, RankingChanges, PricesChange, Abort, vars
<1>. QED
  BY <1>1, <1>2, <1>3, <1>4, <1>5, <1>6, <1>7, <1>8, <1>9 DEF Next, CycleStep, RequestStep

\* The positions of the mirror always add up to the breakdowns of its
\* entries, whatever was allocated, flushed late, unwound or wiped.
THEOREM MirrorIsRebuilt == Spec => []MirrorAddsUp
<1>1. Init => MirrorAddsUp
  BY RebuiltNothing DEF Init, MirrorAddsUp
<1>2. TypeOK /\ (RowsInv /\ SplitInv /\ EuroInv) /\ MirrorAddsUp /\ [Next]_vars => MirrorAddsUp'
  BY AddsUpStepKeeps
<1>. QED BY <1>1, <1>2, MirrorCorrect, TypeCorrect, PTL DEF Spec

-----------------------------------------------------------------------------
(* A plan never buys for a due day that had passed when it was created.    *)

LEMMA DueStepKeeps == TypeOK /\ LockInv /\ PlanInv /\ DueInv /\ [Next]_vars => DueInv'
<1> SUFFICES ASSUME TypeOK, LockInv, PlanInv, DueInv, [Next]_vars PROVE DueInv'
  OBVIOUS
<1>a. /\ plans \in [PlanKeys -> Plan]
      /\ cycle \in [stage: Stages, today: Days, due: SUBSET PlanKeys, rows: SUBSET Row, job: Job]
  BY DEF TypeOK, Cycle
<1>b. ASSUME cycle'.stage \notin {"buy", "mirror"} PROVE DueInv'
  BY <1>b DEF DueInv
<1>c. ASSUME cycle.stage \in {"buy", "mirror"}, cycle'.today = cycle.today, cycle'.due \subseteq cycle.due,
             \A k \in cycle'.due : plans'[k] = plans[k]
      PROVE  DueInv'
  BY <1>c DEF DueInv, PlanDue, CreatedTooLate, EffectiveDay
<1>d. ASSUME NEW stage \in Stages \ {"buy", "mirror"}, GoTo(stage) PROVE DueInv'
  BY <1>a, <1>b, <1>d DEF GoTo
<1> USE DEF Outside, Elsewhere, env, db
<1>1. CASE CycleStart
  <2>1. cycle'.stage = "transfer"
    BY <1>1, <1>a DEF CycleStart
  <2>. QED BY <1>b, <2>1
<1>2. CASE DepositMonthlyTransfer \/ PayoutInterest \/ AccrueInterest \/ FlushDone
  BY <1>2, <1>d DEF DepositMonthlyTransfer, PayoutInterest, AccrueInterest, FlushDone, Stages
<1>3. CASE FlushPending \/ TakeSnapshot
  <2>1. FlushPending => cycle'.stage = "row"
    BY <1>a DEF FlushPending
  <2>2. TakeSnapshot => cycle'.stage = "idle"
    BY DEF TakeSnapshot, IdleCycle
  <2>. QED BY <1>3, <1>b, <2>1, <2>2
<1>4. CASE RunSparplans
  <2>1. /\ UNCHANGED plans /\ cycle'.today = now
        /\ cycle'.due = {k \in PlanKeys : account.open /\ PlanDue(k, now) /\ k[1] \in priced}
    BY <1>4, <1>a DEF RunSparplans
  <2>2. ASSUME NEW k \in cycle'.due PROVE PlanDue(k, now)' /\ plans'[k].created <= cycle'.today
    BY <1>4, <2>1, <2>2 DEF PlanInv, PlanDue, CreatedTooLate, EffectiveDay, RunSparplans
  <2>. QED BY <1>4, <2>1, <2>2 DEF DueInv, PlanDue, CreatedTooLate, EffectiveDay, RunSparplans
<1>5. ASSUME NEW k \in PlanKeys, ExecSparplan(k) PROVE DueInv'
  <2>1. cycle'.today = cycle.today /\ cycle'.due = cycle.due \ {k}
        /\ \A j \in PlanKeys \ {k} : plans'[j] = plans[j]
    BY <1>5, <1>a DEF ExecSparplan, SkipSparplan, BuySparplan
  <2>. QED BY <1>5, <1>a, <1>c, <2>1 DEF ExecSparplan
<1>6. CASE MirrorSparplan
  <2>1. cycle'.today = cycle.today /\ cycle'.due = cycle.due /\ UNCHANGED plans
    BY <1>6, <1>a DEF MirrorSparplan
  <2>. QED BY <1>6, <1>c, <2>1 DEF MirrorSparplan
<1>7. ASSUME NEW row \in cycle.rows, FlushRow(row) \/ UnparkRow(row) PROVE DueInv'
  <2>1. cycle'.stage \in {"row", "unpark"}
    BY <1>7, <1>a DEF FlushRow, UnparkRow, GoTo
  <2>. QED BY <1>b, <2>1
<1>8. CASE Request
  <2>1. cycle'.stage = "idle"
    BY <1>8 DEF Request, Initialize, Reset, Trueup, AddDeposit, AddSaveback, ManualBuy, LockInv,
       SetConfig, AddPlan, RemovePlan, RemovePosition, Done, Continue, Admitted
  <2>. QED BY <1>b, <2>1
<1>9. CASE RequestStep
  <2>1. cycle'.stage = "idle"
    BY <1>9 DEF RequestStep, MirrorRequest, UnwindRequest, RequestDone, LockInv
  <2>. QED BY <1>b, <2>1
<1>10. CASE Tick \/ RankingChanges \/ PricesChange \/ UNCHANGED vars
  BY <1>10 DEF Tick, RankingChanges, PricesChange, vars, DueInv, PlanDue, CreatedTooLate, EffectiveDay
<1>11. CASE Abort
  BY <1>11, <1>b DEF Abort, IdleCycle
<1>. QED
  BY <1>1, <1>2, <1>3, <1>4, <1>5, <1>6, <1>7, <1>8, <1>9, <1>10, <1>11 DEF Next, CycleStep

LEMMA DueCorrect == Spec => []DueInv
<1>1. Init => DueInv
  BY DEF Init, DueInv, IdleCycle
<1>2. TypeOK /\ (LockInv /\ ClosedTrackerIsEmpty) /\ PlanInv /\ DueInv /\ [Next]_vars => DueInv'
  BY DueStepKeeps
<1>. QED BY <1>1, <1>2, TypeCorrect, LockCorrect, PlanCorrect, PTL DEF Spec

\* Between the day it was created and a day it is due on, the calendar shows
\* the plan's due day in the month of the latter.
LEMMA DueDayPassed ==
  ASSUME NEW k \in PlanKeys, NEW d \in Days, PlanDue(k, d),
         NEW made \in Days, made = plans[k].created, made <= d
  PROVE  /\ DayOfMonth[d] >= k[2] \/ DayOfMonth[d] = MonthLength[d]
         /\ \E due \in made..d :
              /\ MonthOf[due] = MonthOf[d]
              /\ \/ DayOfMonth[due] = k[2]
                 \/ DayOfMonth[due] = MonthLength[due] /\ k[2] > MonthLength[due]
<1>a. /\ k[2] \in PlanDays /\ k[2] \in 1..31
      /\ \A x \in Days : DayOfMonth[x] \in 1..31 /\ MonthLength[x] \in 1..31 /\ MonthOf[x] \in Nat /\ x \in Nat
  <2>1. \A x \in Days : DayOfMonth[x] \in 1..31 /\ MonthLength[x] \in 1..31 /\ MonthOf[x] \in Nat
    BY CalendarAssumption
  <2>2. \A x \in Days : x \in Nat
    BY CalendarAssumption DEF Days
  <2>3. k[2] \in PlanDays /\ PlanDays \subseteq 1..31
    BY InputAssumption DEF PlanKeys
  <2>. QED BY <2>1, <2>2, <2>3
<1>b. \A x \in Days : EffectiveDay(k, x) \in 1..31
  BY <1>a DEF EffectiveDay
<1> DEFINE Passed == {x \in made..d :
                        MonthOf[x] = MonthOf[d] /\ DayOfMonth[x] >= EffectiveDay(k, x)}
<1>1. \A x \in made..d : x \in Days
  BY CalendarAssumption DEF Days
<1>2. Passed \in SUBSET Nat /\ IsFiniteSet(Passed) /\ d \in Passed
  <2>1. IsFiniteSet(made..d)
    <3>1. made \in Int /\ d \in Int
      BY <1>a
    <3>. QED BY <3>1, FS_Interval
  <2>2. d \in made..d
    BY CalendarAssumption DEF Days
  <2>. QED BY <1>1, <1>a, <2>1, <2>2, FS_Subset DEF PlanDue
<1> DEFINE due == Min(Passed)
<1>3. due \in Passed /\ \A x \in Passed : due <= x
  <2>. HIDE DEF Passed
  <2>. QED BY <1>2, MinOfNat
<1>. HIDE DEF due
<1>4. /\ due \in made..d /\ due \in Days /\ MonthOf[due] = MonthOf[d]
      /\ DayOfMonth[due] >= EffectiveDay(k, due)
  BY <1>1, <1>3
<1>5. DayOfMonth[due] <= EffectiveDay(k, due)
  <2>1. CASE due = made
    <3>1. EffectiveDay(k, due) = EffectiveDay(k, d)
      BY <1>4, DueDayAssumption DEF EffectiveDay
    <3>2. ~(MonthOf[made] = MonthOf[d] /\ DayOfMonth[made] > EffectiveDay(k, d))
      BY DEF PlanDue, CreatedTooLate
    <3>. QED BY <1>a, <1>b, <1>4, <2>1, <3>1, <3>2
  <2>2. CASE due # made
    <3>1. due - 1 \in made..d /\ due \in Days \ {0} /\ due - 1 \in Days
      BY <1>1, <1>4, <1>a, <2>2 DEF Days
    <3>2. due - 1 \notin Passed
      BY <1>3, <1>4, <1>a
    <3>3. CASE MonthOf[due - 1] = MonthOf[due]
      <4>1. DayOfMonth[due] = DayOfMonth[due - 1] + 1 /\ MonthLength[due - 1] = MonthLength[due]
        BY <3>1, <3>3, DueDayAssumption
      <4>2. ~(DayOfMonth[due - 1] >= EffectiveDay(k, due - 1))
        BY <1>4, <3>1, <3>2, <3>3
      <4>3. EffectiveDay(k, due - 1) = EffectiveDay(k, due)
        BY <4>1 DEF EffectiveDay
      <4>. QED BY <1>a, <1>b, <1>4, <3>1, <4>1, <4>2, <4>3
    <3>4. CASE MonthOf[due - 1] # MonthOf[due]
      <4>1. DayOfMonth[due] <= k[2] /\ DayOfMonth[due] <= MonthLength[due]
        BY <1>a, <1>4, <3>1, <3>4, DueDayAssumption
      <4>. QED BY <4>1 DEF EffectiveDay
    <3>. QED BY <3>3, <3>4
  <2>. QED BY <2>1, <2>2
<1>6. DayOfMonth[due] = EffectiveDay(k, due)
  BY <1>a, <1>b, <1>4, <1>5
<1>7. DayOfMonth[due] = k[2] \/ (DayOfMonth[due] = MonthLength[due] /\ k[2] > MonthLength[due])
  BY <1>a, <1>4, <1>6 DEF EffectiveDay
<1>8. DayOfMonth[d] >= k[2] \/ DayOfMonth[d] = MonthLength[d]
  <2>1. DayOfMonth[d] >= EffectiveDay(k, d) /\ DayOfMonth[d] <= MonthLength[d]
    BY DueDayAssumption DEF PlanDue
  <2>. QED BY <1>a, <2>1 DEF EffectiveDay
<1>. QED BY <1>4, <1>7, <1>8

\* Only a buy raises the number of times a plan fired.
LEMMA FiringStep ==
  ASSUME TypeOK, [Next]_vars, NEW k \in PlanKeys, plans[k].exists, plans'[k].fired > plans[k].fired
  PROVE  ExecSparplan(k) /\ BuySparplan(k)
<1>a. plans \in [PlanKeys -> Plan] /\ plans[k].fired \in Nat
  BY DEF TypeOK, Plan
<1>0. plans'[k].fired # plans[k].fired /\ plans'[k].fired # 0
  BY <1>a
<1>1. ~Wiped
  <2>1. plans' = NoPlans => plans'[k].fired = 0
    BY DEF NoPlans, NoPlan
  <2>. QED BY <1>a, <1>0, <2>1 DEF Wiped
<1>2. ASSUME NEW j \in PlanKeys, NEW a, AddPlan(j, a) PROVE FALSE
  BY <1>a, <1>0, <1>2 DEF AddPlan, NewPlan, Plan
<1>3. ASSUME NEW j \in PlanKeys, RemovePlan(j) PROVE FALSE
  BY <1>a, <1>0, <1>3 DEF RemovePlan, NoPlan
<1>4. ~Request
  BY <1>0, <1>1, <1>2, <1>3 DEF Request, Initialize, Reset, Trueup, AddDeposit, AddSaveback, ManualBuy,
     SetConfig, RemovePosition
<1>5. ~(CycleStart \/ RequestStep \/ Tick \/ RankingChanges \/ PricesChange \/ Abort \/ UNCHANGED vars)
  BY <1>0 DEF CycleStart, RequestStep, MirrorRequest, UnwindRequest, RequestDone, Tick, RankingChanges,
     PricesChange, Abort, vars, db
<1>6. ~(DepositMonthlyTransfer \/ PayoutInterest \/ AccrueInterest \/ RunSparplans \/ MirrorSparplan
        \/ FlushPending \/ FlushDone \/ TakeSnapshot \/ \E row \in cycle.rows : FlushRow(row) \/ UnparkRow(row))
  BY <1>0 DEF DepositMonthlyTransfer, PayoutInterest, AccrueInterest, RunSparplans, MirrorSparplan,
     FlushPending, FlushDone, TakeSnapshot, FlushRow, UnparkRow, db
<1>7. PICK j \in PlanKeys : ExecSparplan(j)
  BY <1>4, <1>5, <1>6 DEF Next, CycleStep
<1>8. BuySparplan(j)
  BY <1>0, <1>7 DEF ExecSparplan, SkipSparplan, db
<1>9. j = k
  BY <1>a, <1>0, <1>8 DEF BuySparplan
<1>. QED BY <1>7, <1>8, <1>9

\* A plan never buys retroactively, in any calendar, whatever passes are cut
\* short and wherever midnight falls.
THEOREM NeverRetroactive == Spec => NoRetroactiveBuy
<1> DEFINE Timely ==
      \A k \in PlanKeys :
        plans[k].exists /\ plans'[k].fired > plans[k].fired =>
          \E d \in 0..now :
            /\ plans'[k].executed = MonthOf[d]
            /\ DayOfMonth[d] >= k[2] \/ DayOfMonth[d] = MonthLength[d]
            /\ \E due \in plans[k].created..d :
                 /\ MonthOf[due] = MonthOf[d]
                 /\ \/ DayOfMonth[due] = k[2]
                    \/ DayOfMonth[due] = MonthLength[due] /\ k[2] > MonthLength[due]
<1>1. TypeOK /\ PlanInv /\ DueInv /\ [Next]_vars => [Timely]_vars
  <2> SUFFICES ASSUME TypeOK, PlanInv, DueInv, [Next]_vars, NEW k \in PlanKeys,
                      plans[k].exists, plans'[k].fired > plans[k].fired
               PROVE  \E d \in 0..now :
                        /\ plans'[k].executed = MonthOf[d]
                        /\ DayOfMonth[d] >= k[2] \/ DayOfMonth[d] = MonthLength[d]
                        /\ \E due \in plans[k].created..d :
                             /\ MonthOf[due] = MonthOf[d]
                             /\ \/ DayOfMonth[due] = k[2]
                                \/ DayOfMonth[due] = MonthLength[due] /\ k[2] > MonthLength[due]
    BY Zenon
  <2>1. ExecSparplan(k) /\ BuySparplan(k)
    BY FiringStep
  <2>2. cycle.stage = "buy" /\ k \in cycle.due /\ plans'[k].executed = MonthOf[cycle.today]
    BY <2>1 DEF ExecSparplan, BuySparplan, TypeOK, Plan
  <2>3. /\ PlanDue(k, cycle.today) /\ plans[k].created <= cycle.today /\ cycle.today <= now
        /\ cycle.today \in Days /\ plans[k].created \in Days /\ now \in Days
    BY <2>2 DEF DueInv, PlanInv, TypeOK, Cycle, Plan
  <2> DEFINE d == cycle.today
  <2>4. d \in 0..now
    BY <2>3 DEF Days
  <2>5. /\ DayOfMonth[d] >= k[2] \/ DayOfMonth[d] = MonthLength[d]
        /\ \E due \in plans[k].created..d :
             /\ MonthOf[due] = MonthOf[d]
             /\ \/ DayOfMonth[due] = k[2]
                \/ DayOfMonth[due] = MonthLength[due] /\ k[2] > MonthLength[due]
    BY <2>3, DueDayPassed
  <2>. HIDE DEF d
  <2>6. plans'[k].executed = MonthOf[d]
    BY <2>2 DEF d
  <2>. QED BY <2>4, <2>5, <2>6
<1>. QED BY <1>1, TypeCorrect, PlanCorrect, DueCorrect, PTL DEF Spec, NoRetroactiveBuy
=============================================================================
