---------------------------- MODULE MonthlyProofs ----------------------------
(* The monthly portfolio, for every value of its constants: one rebalance  *)
(* per month first, from four invariants on marker, lock and stages; then  *)
(* the types, what reads under the lock find again, and the money.         *)
EXTENDS Monthly, FiniteLemmas, TLAPS

LEMMA InitInv == Init => Shape /\ LockInv /\ DecisionInv
BY ConstantAssumption DEF Init, Shape, LockInv, DecisionInv, EngineFields, Idle, Stages, NoAccount,
  FreshAccount, NoHistory, Months, Callers

-----------------------------------------------------------------------------
(* What a step does to the fields the proof looks at.                      *)

\* A deposit touches neither marker nor decisions; the rebalance's own one
\* takes it on to its decision, or ends it.
LEMMA DepositReadKeeps ==
  ASSUME Shape, LockInv, DecisionInv, NEW c \in Callers, DepositRead(c)
  PROVE  Shape' /\ LockInv' /\ DecisionInv'
<1> USE DEF Callers, calendar, db, holdings, bounds
<1>1. UNCHANGED <<utc, account, lock, history>>
  BY DEF DepositRead
<1>2. /\ DOMAIN engine' = DOMAIN engine
      /\ \/ engine' = engine
         \/ /\ engine.stage = "deposit" /\ engine'.stage = "decide" /\ c = Engine
            /\ engine'.month = engine.month /\ account.exists
            /\ deposit' = deposit /\ deposit[Engine] = NoDeposit
  BY DEF DepositRead, Shape, EngineFields
<1>3. DOMAIN deposit' = Callers /\ (deposit'[Engine] # NoDeposit => engine'.stage = "deposit")
  BY <1>2, ConstantAssumption DEF DepositRead, Shape, LockInv
<1>4. Shape'
  BY <1>1, <1>2, <1>3 DEF Shape, Stages
<1>5. LockInv'
  BY <1>1, <1>2, <1>3 DEF LockInv
<1>6. DecisionInv'
  BY <1>1, <1>2 DEF DecisionInv
<1>. QED BY <1>4, <1>5, <1>6

LEMMA DepositCommitKeeps ==
  ASSUME Shape, LockInv, DecisionInv, NEW c \in Callers, DepositCommit(c)
  PROVE  Shape' /\ LockInv' /\ DecisionInv'
<1> USE DEF Callers, calendar, db, holdings, bounds
<1>1. UNCHANGED utc /\ DOMAIN deposit' = Callers
      /\ DOMAIN history' = DOMAIN history /\ history'.decisions = history.decisions
  BY DEF DepositCommit, Shape
<1>2. /\ DOMAIN account' = DOMAIN account
      /\ account'.rebalanceMonth = account.rebalanceMonth
      /\ account' = account \/ account'.exists
  BY DEF DepositCommit, Credited, Shape
<1>3. \/ UNCHANGED <<engine, lock>> /\ c # Engine /\ deposit'[Engine] = deposit[Engine]
      \/ Release /\ deposit'[Engine] = NoDeposit
      \/ /\ engine.stage = "deposit" /\ lock' = lock /\ deposit'[Engine] = NoDeposit
         /\ engine' = [engine EXCEPT !.stage = "decide"] /\ account'.exists
  BY ConstantAssumption DEF DepositCommit, Credited, LockInv, Shape
<1>4. CASE UNCHANGED <<engine, lock>> /\ c # Engine /\ deposit'[Engine] = deposit[Engine]
  BY <1>1, <1>2, <1>4 DEF Shape, LockInv, DecisionInv
<1>5. CASE Release /\ deposit'[Engine] = NoDeposit
  <2>1. engine' = Idle /\ lock' = "free"
    BY <1>5 DEF Release
  <2>. QED BY <1>1, <1>2, <1>5, <2>1 DEF Shape, LockInv, DecisionInv, Idle, EngineFields, Stages
<1>6. CASE /\ engine.stage = "deposit" /\ lock' = lock /\ deposit'[Engine] = NoDeposit
           /\ engine' = [engine EXCEPT !.stage = "decide"] /\ account'.exists
  <2>1. /\ DOMAIN engine' = EngineFields /\ engine'.stage = "decide"
        /\ engine'.month = engine.month
    BY <1>6 DEF Shape, EngineFields
  <2>. QED BY <1>1, <1>2, <1>6, <2>1 DEF Shape, LockInv, DecisionInv, Stages
<1>. QED BY <1>3, <1>4, <1>5, <1>6

\* A step of the rebalance that trades, or a step of the backfill, that only
\* moves between stages, keeps marker and decisions.
Trades(from, to) ==
  /\ engine.stage \in from
  /\ engine'.stage \in to
  /\ DOMAIN engine' = EngineFields
  /\ DOMAIN account' = DOMAIN account
  /\ account'.rebalanceMonth = account.rebalanceMonth
  /\ account'.exists = account.exists
  /\ UNCHANGED <<utc, lock, history, deposit>>

Trading == {"sell", "selling", "buy", "buying", "mark"}

LEMMA TradesKeeps ==
  ASSUME Shape, LockInv, DecisionInv, Trades(Trading, Trading)
  PROVE  Shape' /\ LockInv' /\ DecisionInv'
BY DEF Trades, Trading, Shape, LockInv, DecisionInv, Stages

LEMMA ReleaseKeeps ==
  ASSUME Shape, LockInv, DecisionInv, Release, lock = "engine",
         DOMAIN account' = DOMAIN account,
         account'.rebalanceMonth = account.rebalanceMonth,
         account'.exists = account.exists,
         UNCHANGED <<utc, history>>,
         DOMAIN deposit' = Callers, deposit'[Engine] = NoDeposit
  PROVE  Shape' /\ LockInv' /\ DecisionInv'
<1>1. engine' = Idle /\ lock' = "free"
  BY DEF Release
<1>. QED BY <1>1 DEF Shape, LockInv, DecisionInv, Idle, EngineFields, Stages

-----------------------------------------------------------------------------
(* The rebalance.                                                          *)

LEMMA RebalanceStartKeeps ==
  ASSUME Shape, LockInv, DecisionInv, RebalanceStart
  PROVE  Shape' /\ LockInv' /\ DecisionInv'
<1> USE DEF calendar, db, holdings
<1>1. UNCHANGED <<utc, account, history, deposit>> /\ lock = "free" /\ lock' = "engine"
  BY DEF RebalanceStart, Acquire, Admitted
<1>2. /\ DOMAIN engine' = EngineFields /\ engine'.stage = "deposit" /\ engine'.month = utc
  BY DEF RebalanceStart, Acquire, Idle, EngineFields
<1>3. account.rebalanceMonth < utc
  <2>1. account.rebalanceMonth = 0 \/ account.rebalanceMonth # utc
    BY DEF RebalanceStart, RebalanceDue, DecisionInv
  <2>. QED BY <2>1, ConstantAssumption DEF Shape, DecisionInv, Months
<1>. QED BY <1>1, <1>2, <1>3, ConstantAssumption DEF Shape, LockInv, DecisionInv, Stages, Months

\* The one step that decides: the month was ahead of the marker, so it has
\* no decision yet.
LEMMA DecideKeeps ==
  ASSUME Shape, LockInv, DecisionInv, Decide
  PROVE  Shape' /\ LockInv' /\ DecisionInv'
<1> USE DEF Elsewhere, calendar, bounds
<1>1. /\ UNCHANGED <<utc, deposit>>
      /\ engine.stage = "decide" /\ lock = "engine" /\ deposit[Engine] = NoDeposit
  BY DEF Decide, LockInv
<1>2. CASE Release /\ UNCHANGED <<account, decided, history>>
  BY <1>1, <1>2, ReleaseKeeps DEF Shape
<1>3. CASE \E picks \in PickSets :
             /\ engine' = [engine EXCEPT !.stage = "sell", !.picks = picks,
                                          !.todo = Held \ picks]
             /\ account' = [account EXCEPT !.rebalanceMonth = engine.month]
             /\ history' = [history EXCEPT !.decisions[engine.month] = @ + 1]
             /\ lock' = lock
  <2>1. DOMAIN engine' = EngineFields /\ engine'.stage = "sell"
    BY <1>3 DEF Shape, EngineFields
  <2>2. /\ DOMAIN account' = DOMAIN account /\ account'.rebalanceMonth = engine.month
        /\ account'.exists = account.exists
    BY <1>3 DEF Shape
  <2>3. /\ engine.month \in Months
        /\ engine.month > account.rebalanceMonth /\ engine.month <= utc
    BY <1>1, ConstantAssumption DEF Shape, DecisionInv, Months
  <2>4. history.decisions[engine.month] = 0
    <3>1. history.decisions[engine.month] \in Nat /\ account.rebalanceMonth \in Nat
      BY <2>3 DEF Shape
    <3>2. history.decisions[engine.month] <=
            IF engine.month <= account.rebalanceMonth THEN 1 ELSE 0
      BY <2>3 DEF DecisionInv
    <3>3. ~(engine.month <= account.rebalanceMonth)
      BY <2>3, <3>1 DEF Months
    <3>. QED BY <3>1, <3>2, <3>3
  <2>5. DOMAIN history' = DOMAIN history
        /\ history'.decisions = [history.decisions EXCEPT ![engine.month] = @ + 1]
    BY <1>3 DEF Shape
  <2>6. history'.decisions \in [Months -> Nat] /\ history'.decisions[engine.month] = 1
    BY <2>3, <2>4, <2>5 DEF Shape
  <2>7. \A m \in Months :
          history'.decisions[m] <= IF m <= account'.rebalanceMonth THEN 1 ELSE 0
    <3>1. SUFFICES ASSUME NEW m \in Months
                   PROVE  history'.decisions[m] <= IF m <= engine.month THEN 1 ELSE 0
      BY <2>2
    <3>2. CASE m = engine.month
      BY <2>6, <3>2, <2>3 DEF Months
    <3>3. CASE m # engine.month
      <4>1. history'.decisions[m] = history.decisions[m]
        BY <2>5, <3>3 DEF Shape
      <4>2. history.decisions[m] <= IF m <= account.rebalanceMonth THEN 1 ELSE 0
        BY DEF DecisionInv
      <4>3. history.decisions[m] \in Nat /\ account.rebalanceMonth \in Nat
        BY DEF Shape
      <4>. QED BY <2>3, <4>1, <4>2, <4>3 DEF Months
    <3>. QED BY <3>2, <3>3
  <2>8. Shape'
    BY <1>1, <2>1, <2>2, <2>3, <2>5, <2>6 DEF Shape, Stages, Months
  <2>9. LockInv'
    BY <1>1, <1>3, <2>1 DEF LockInv
  <2>10. DecisionInv'
    BY <1>1, <2>1, <2>2, <2>3, <2>7 DEF DecisionInv
  <2>. QED BY <2>8, <2>9, <2>10
<1>. QED BY <1>2, <1>3 DEF Decide

LEMMA TradingSteps ==
  ASSUME Shape, LockInv,
         \/ \E t \in Tickers : SellRead(t) \/ SellCommit(t) \/ BuyRead(t) \/ BuyCommit(t)
         \/ Weigh \/ Value
  PROVE  Trades(Trading, Trading)
<1> USE DEF Elsewhere, calendar, db, holdings, bounds, Trades, Trading, Shape, EngineFields
<1>1. ASSUME NEW t \in Tickers, SellRead(t) PROVE Trades(Trading, Trading)
  BY <1>1 DEF SellRead
<1>2. ASSUME NEW t \in Tickers, SellCommit(t) PROVE Trades(Trading, Trading)
  BY <1>2 DEF SellCommit, SetCash
<1>3. ASSUME NEW t \in Tickers, BuyRead(t) PROVE Trades(Trading, Trading)
  <2>1. CASE Covered(t)
    BY <1>3, <2>1 DEF BuyRead
  <2>2. CASE ~Covered(t)
    BY <1>3, <2>2 DEF BuyRead
  <2>. QED BY <2>1, <2>2
<1>4. ASSUME NEW t \in Tickers, BuyCommit(t) PROVE Trades(Trading, Trading)
  BY <1>4 DEF BuyCommit, SetCash
<1>5. CASE Weigh
  BY <1>5 DEF Weigh
<1>6. CASE Value
  BY <1>6 DEF Value
<1>. QED BY <1>1, <1>2, <1>3, <1>4, <1>5, <1>6

LEMMA MarkRebalanceKeeps ==
  ASSUME Shape, LockInv, DecisionInv, MarkRebalance
  PROVE  Shape' /\ LockInv' /\ DecisionInv'
<1>1. lock = "engine" /\ deposit[Engine] = NoDeposit
  BY DEF MarkRebalance, LockInv
<1>. QED BY <1>1, ReleaseKeeps DEF MarkRebalance, Elsewhere, calendar, bounds, Shape

LEMMA RebalanceKeeps ==
  ASSUME Shape, LockInv, DecisionInv, Rebalance
  PROVE  Shape' /\ LockInv' /\ DecisionInv'
BY RebalanceStartKeeps, DecideKeeps, TradingSteps, TradesKeeps, MarkRebalanceKeeps DEF Rebalance

-----------------------------------------------------------------------------
(* The backfill carries the marker from the wipe to the persisted row.     *)

LEMMA BackfillStartKeeps ==
  ASSUME Shape, LockInv, DecisionInv, BackfillStart
  PROVE  Shape' /\ LockInv' /\ DecisionInv'
<1> USE DEF calendar, db, holdings
<1>1. UNCHANGED <<utc, account, history, deposit>> /\ lock = "free" /\ lock' = "engine"
  BY DEF BackfillStart, Admitted
<1>2. DOMAIN engine' = EngineFields /\ engine'.stage = "wipe"
  BY DEF BackfillStart, Idle, EngineFields
<1>. QED BY <1>1, <1>2 DEF Shape, LockInv, DecisionInv, Stages

\* A step of the backfill from one stage to the next.
Replaying == {"wipe", "wiping", "replay", "persist", "persisting"}

Carried ==
  /\ engine'.stage \in {"wiping", "persisting"} =>
       engine'.row.rebalanceMonth = account'.rebalanceMonth
  /\ engine'.stage \in {"replay", "persist", "persisting"} =>
       engine'.live.rebalanceMonth = account'.rebalanceMonth

LEMMA ReplayingKeeps ==
  ASSUME Shape, LockInv, DecisionInv, engine.stage \in Replaying, engine'.stage \in Replaying,
         DOMAIN engine' = EngineFields, DOMAIN account' = DOMAIN account,
         account'.rebalanceMonth = account.rebalanceMonth,
         account'.exists \/ account'.exists = account.exists,
         UNCHANGED <<utc, lock, deposit>>, DOMAIN history' = DOMAIN history,
         history'.decisions = history.decisions, Carried
  PROVE  Shape' /\ LockInv' /\ DecisionInv'
BY DEF Replaying, Shape, LockInv, DecisionInv, Stages, Carried

LEMMA BackfillStepKeeps ==
  ASSUME Shape, LockInv, DecisionInv, WipeRead \/ WipeCommit \/ Replay \/ PersistRead
  PROVE  Shape' /\ LockInv' /\ DecisionInv'
<1> USE DEF Elsewhere, calendar, db, holdings, bounds, Replaying, Shape, EngineFields
<1>1. CASE WipeRead
  BY <1>1, ReplayingKeeps DEF WipeRead, Carried
<1>2. CASE WipeCommit
  <2>1. /\ DOMAIN account' = DOMAIN account /\ account'.exists
        /\ account'.rebalanceMonth = account.rebalanceMonth
    BY <1>2 DEF WipeCommit, Cleared
  <2>2. /\ engine.stage = "wiping" /\ engine'.stage = "replay" /\ DOMAIN engine' = EngineFields
        /\ engine'.live = engine.row /\ UNCHANGED <<utc, lock, deposit>>
        /\ DOMAIN history' = DOMAIN history /\ history'.decisions = history.decisions
    BY <1>2 DEF WipeCommit
  <2>3. Carried
    BY <2>1, <2>2 DEF Carried, DecisionInv
  <2>. QED BY <2>1, <2>2, <2>3, ReplayingKeeps
<1>3. CASE Replay
  <2>1. /\ engine.stage = "replay" /\ engine'.stage = "persist" /\ DOMAIN engine' = EngineFields
        /\ engine'.live = engine.live /\ UNCHANGED <<utc, lock, deposit, account, history>>
    BY <1>3 DEF Replay
  <2>2. Carried
    BY <2>1 DEF Carried, DecisionInv
  <2>. QED BY <2>1, <2>2, ReplayingKeeps
<1>4. CASE PersistRead
  <2>1. /\ engine.stage = "persist" /\ engine'.stage = "persisting" /\ DOMAIN engine' = EngineFields
        /\ engine'.live = engine.live /\ engine'.row = account
        /\ UNCHANGED <<utc, lock, deposit, account, history>>
    BY <1>4 DEF PersistRead
  <2>2. Carried
    BY <2>1 DEF Carried, DecisionInv
  <2>. QED BY <2>1, <2>2, ReplayingKeeps
<1>. QED BY <1>1, <1>2, <1>3, <1>4

LEMMA PersistCommitKeeps ==
  ASSUME Shape, LockInv, DecisionInv, PersistCommit
  PROVE  Shape' /\ LockInv' /\ DecisionInv'
<1> USE DEF Elsewhere, calendar, db, holdings, bounds
<1>1. /\ lock = "engine" /\ deposit[Engine] = NoDeposit /\ engine.stage = "persisting"
      /\ Release /\ UNCHANGED <<utc, history, deposit>>
  BY DEF PersistCommit, LockInv
<1>2. /\ DOMAIN account' = DOMAIN account /\ account'.exists = account.exists
      /\ account'.rebalanceMonth = account.rebalanceMonth
  <2>1. CASE engine.funded \cap allowances # {}
    BY <2>1 DEF PersistCommit
  <2>2. CASE engine.funded \cap allowances = {}
    <3>1. Column(engine.row.rebalanceMonth, engine.live.rebalanceMonth, account.rebalanceMonth)
            = account.rebalanceMonth
      BY <1>1 DEF Column, DecisionInv
    <3>. QED BY <2>2, <3>1 DEF PersistCommit, Shape
  <2>. QED BY <2>1, <2>2
<1>. QED BY <1>1, <1>2, ReleaseKeeps DEF Shape

LEMMA BackfillKeeps ==
  ASSUME Shape, LockInv, DecisionInv, Backfill
  PROVE  Shape' /\ LockInv' /\ DecisionInv'
BY BackfillStartKeeps, BackfillStepKeeps, PersistCommitKeeps DEF Backfill

-----------------------------------------------------------------------------
(* Everything else, and the theorem.                                       *)

LEMMA OthersKeep ==
  ASSUME Shape, LockInv, DecisionInv, SnapInv,
         SnapshotRead \/ SnapshotCommit \/ Reset \/ TickLocal \/ TickUtc \/ Crash \/ Fail
  PROVE  Shape' /\ LockInv' /\ DecisionInv'
<1> USE DEF Elsewhere, calendar, db, holdings, bounds
<1>1. CASE SnapshotRead
  <2>1. /\ UNCHANGED <<utc, engine, deposit, history>> /\ lock = "free" /\ lock' = "snap"
        /\ DOMAIN account' = DOMAIN account /\ account'.exists
        /\ account'.rebalanceMonth = account.rebalanceMonth
    BY <1>1 DEF SnapshotRead, MarkAdmitted, Shape
  <2>. QED BY <2>1 DEF Shape, LockInv, DecisionInv
<1>2. CASE SnapshotCommit
  <2>1. UNCHANGED <<utc, account, engine, deposit, history>> /\ lock' = "free" /\ lock = "snap"
    BY <1>2 DEF SnapshotCommit, SnapInv
  <2>. QED BY <2>1 DEF Shape, LockInv, DecisionInv
<1>3. CASE Reset
  <2>1. /\ UNCHANGED <<utc, lock, engine, deposit>> /\ lock = "free"
        /\ account' = FreshAccount /\ history' = NoHistory
    BY <1>3 DEF Reset, ResetAccount, Admitted
  <2>2. engine'.stage = "idle"
    BY <2>1 DEF LockInv
  <2>. QED BY <2>1, <2>2, ConstantAssumption
        DEF Shape, LockInv, DecisionInv, FreshAccount, NoHistory, Months
<1>4. CASE TickLocal
  BY <1>4 DEF TickLocal, Shape, LockInv, DecisionInv
<1>5. CASE TickUtc
  <2>1. UNCHANGED <<account, lock, engine, deposit, history>> /\ utc' = utc + 1 /\ utc' \in Months
    BY <1>5, ConstantAssumption DEF TickUtc, Shape, Months
  <2>2. Shape' /\ LockInv'
    BY <2>1 DEF Shape, LockInv
  <2>3. DecisionInv'
    BY <2>1, ConstantAssumption DEF Shape, DecisionInv, Months
  <2>. QED BY <2>2, <2>3
<1>6. CASE Crash \/ Fail
  <2>1. /\ UNCHANGED <<utc, account, history>> /\ engine' = Idle /\ lock' = "free"
        /\ DOMAIN deposit' = Callers /\ deposit'[Engine] = NoDeposit
    BY <1>6 DEF Crash, Fail, Release, Shape, Callers
  <2>. QED BY <2>1 DEF Shape, LockInv, DecisionInv, Idle, EngineFields, Stages
<1>. QED BY <1>1, <1>2, <1>3, <1>4, <1>5, <1>6

LEMMA SnapKeeps ==
  ASSUME LockInv, SnapInv, Next
  PROVE  SnapInv'
<1> USE DEF Elsewhere, SnapInv, LockInv
<1>1. ASSUME NEW c \in Callers, DepositRead(c) \/ DepositCommit(c) PROVE SnapInv'
  BY <1>1 DEF DepositRead, DepositCommit
<1>2. CASE RebalanceStart \/ BackfillStart \/ Reset
  BY <1>2 DEF RebalanceStart, BackfillStart, Reset, Acquire, Admitted
<1>3. CASE Decide \/ MarkRebalance \/ PersistCommit
  BY <1>3 DEF Decide, MarkRebalance, PersistCommit
<1>4. ASSUME NEW t \in Tickers, SellRead(t) \/ SellCommit(t) \/ BuyRead(t) \/ BuyCommit(t)
      PROVE  SnapInv'
  BY <1>4 DEF SellRead, SellCommit, BuyRead, BuyCommit
<1>5. CASE Weigh \/ Value \/ WipeRead \/ WipeCommit \/ Replay \/ PersistRead
  BY <1>5 DEF Weigh, Value, WipeRead, WipeCommit, Replay, PersistRead
<1>6. CASE SnapshotRead \/ SnapshotCommit \/ Crash \/ Fail
  BY <1>6 DEF SnapshotRead, SnapshotCommit, Crash, Fail
<1>7. CASE TickLocal \/ TickUtc
  BY <1>7 DEF TickLocal, TickUtc
<1>. QED BY <1>1, <1>2, <1>3, <1>4, <1>5, <1>6, <1>7 DEF Next, Rebalance, Backfill

Inv == Shape /\ LockInv /\ DecisionInv /\ SnapInv

LEMMA NextKeeps == Inv /\ [Next]_vars => Inv'
<1> SUFFICES ASSUME Shape, LockInv, DecisionInv, SnapInv, [Next]_vars
             PROVE  Shape' /\ LockInv' /\ DecisionInv' /\ SnapInv'
  BY DEF Inv
<1>1. CASE UNCHANGED vars
  BY <1>1 DEF vars, calendar, db, holdings, bounds, Shape, LockInv, DecisionInv, SnapInv
<1>2. CASE Next
  <2>1. CASE \E c \in Callers : DepositRead(c) \/ DepositCommit(c)
    BY <2>1, DepositReadKeeps, DepositCommitKeeps, SnapKeeps, <1>2
  <2>2. CASE Rebalance
    BY <2>2, RebalanceKeeps, SnapKeeps, <1>2
  <2>3. CASE Backfill
    BY <2>3, BackfillKeeps, SnapKeeps, <1>2
  <2>4. CASE SnapshotRead \/ SnapshotCommit \/ Reset \/ TickLocal \/ TickUtc \/ Crash \/ Fail
    BY <2>4, OthersKeep, SnapKeeps, <1>2
  <2>. QED BY <1>2, <2>1, <2>2, <2>3, <2>4 DEF Next
<1>. QED BY <1>1, <1>2

LEMMA InvCorrect == Spec => []Inv
<1>1. Init => Inv
  BY InitInv DEF Inv, Init, SnapInv
<1>. QED BY <1>1, NextKeeps, PTL DEF Spec

\* A month is decided at most once between resets: whatever unlocked
\* deposits, backfills, failures and restarts come between the steps.
THEOREM OneDecisionPerMonth == Spec => []RebalanceOncePerMonth
<1>1. Inv => RebalanceOncePerMonth
  <2> SUFFICES ASSUME Shape, DecisionInv, NEW m \in Months PROVE history.decisions[m] <= 1
    BY DEF Inv, RebalanceOncePerMonth
  <2>1. history.decisions[m] <= IF m <= account.rebalanceMonth THEN 1 ELSE 0
    BY DEF DecisionInv
  <2>2. history.decisions[m] \in Nat
    BY DEF Shape
  <2>. QED BY <2>1, <2>2
<1>. QED BY <1>1, InvCorrect, PTL

-----------------------------------------------------------------------------
(* Types.                                                                  *)

LEMMA WorthTotal == \A shares : Worth(shares) = Total(shares, Tickers)
BY DEF Worth, Total

LEMMA InvestedNat == TypeOK => Invested \in Nat
BY WorthTotal, TotalType, ConstantAssumption DEF TypeOK, Invested

LEMMA MonthsFinite ==
  IsFiniteSet(Months) /\ \A S \in SUBSET Months : IsFiniteSet(S) /\ Cardinality(S) \in Nat
<1>1. 1 \in Int /\ LastMonth \in Int
  BY ConstantAssumption
<1>2. IsFiniteSet(Months)
  BY <1>1, FS_Interval DEF Months
<1>. QED BY <1>2, FS_Subset, FS_CardinalityType

LEMMA PicksCounted ==
  \A P \in SUBSET Tickers :
    IsFiniteSet(P) /\ Cardinality(P) \in Nat /\ (P # {} => Cardinality(P) > 0)
<1> SUFFICES ASSUME NEW P \in SUBSET Tickers
             PROVE  IsFiniteSet(P) /\ Cardinality(P) \in Nat /\ (P # {} => Cardinality(P) > 0)
  OBVIOUS
<1>1. IsFiniteSet(P)
  BY FS_Subset, ConstantAssumption
<1>2. Cardinality(P) \in Nat /\ (Cardinality(P) = 0 <=> P = {})
  BY <1>1, FS_CardinalityType, FS_EmptySet
<1>. QED BY <1>1, <1>2

LEMMA IdleTyped == Idle \in EngineState /\ NoAccount \in Account /\ FreshAccount \in Account
                   /\ Nothing \in [Tickers -> Nat] /\ NoDeposit \in Deposit /\ NoHistory \in History
<1>1. NoAccount \in Account /\ FreshAccount \in Account /\ Nothing \in [Tickers -> Nat]
  BY ConstantAssumption DEF NoAccount, FreshAccount, Account, Nothing
<1>2. NoDeposit \in Deposit
  BY <1>1 DEF NoDeposit, Deposit
<1>3. NoHistory \in History
  BY ConstantAssumption DEF NoHistory, History
<1>4. Idle \in EngineState
  BY <1>1 DEF Idle, EngineState, Stages
<1>. QED BY <1>1, <1>2, <1>3, <1>4

LEMMA InitTypeOK == Init => TypeOK
<1> SUFFICES ASSUME Init PROVE TypeOK
  OBVIOUS
<1>1. 1 \in Months
  BY ConstantAssumption DEF Months
<1>. QED BY <1>1, IdleTyped, ConstantAssumption DEF Init, TypeOK

LEMMA ColumnNat ==
  ASSUME NEW old \in Nat, NEW new \in Nat, NEW present \in Nat
  PROVE  Column(old, new, present) \in Nat
BY DEF Column

LEMMA SetCashTyped ==
  ASSUME account \in Account, NEW row \in Account, NEW cash \in Nat
  PROVE  SetCash(row, cash) \in Account
BY ColumnNat DEF SetCash, Account

LEMMA DepositTypes ==
  ASSUME TypeOK, ReadInv, NEW c \in Callers, DepositRead(c) \/ DepositCommit(c)
  PROVE  TypeOK'
<1> USE DEF calendar, db, holdings, bounds
<1>1. CASE DepositRead(c)
  <2>1. [month |-> local, row |-> account] \in Deposit
    BY DEF TypeOK, Deposit, Months
  <2>2. deposit' \in [Callers -> Deposit]
    BY <1>1, <2>1 DEF DepositRead, TypeOK
  <2>3. engine' \in EngineState
    BY <1>1 DEF DepositRead, TypeOK, EngineState, Stages
  <2>. QED BY <1>1, <2>2, <2>3 DEF DepositRead, TypeOK
<1>2. CASE DepositCommit(c)
  <2>1. deposit[c] \in Deposit /\ deposit[c].month \in Months /\ deposit[c].row \in Account
    BY <1>2 DEF DepositCommit, TypeOK, ReadInv, Deposit
  <2>2. deposit' \in [Callers -> Deposit]
    BY <1>2, IdleTyped DEF DepositCommit, TypeOK
  <2>3. Credited(deposit[c]) \in Account
    <3>1. deposit[c].row.cash + Contribution \in Nat /\ deposit[c].month \in Nat
      BY <2>1, ConstantAssumption DEF Account, Months
    <3>2. account \in Account
      BY DEF TypeOK
    <3>. QED BY <3>1, <3>2 DEF Credited, Account
  <2>4. account' \in Account /\ allowances' \in SUBSET Months
    BY <1>2, <2>1, <2>3 DEF DepositCommit, TypeOK
  <2>5. history' \in History
    <3>1. [history EXCEPT !.raced = @ \/ Overlaps(c)] \in History
      BY DEF TypeOK, History
    <3>. QED BY <1>2, <3>1 DEF DepositCommit, TypeOK
  <2>6. engine' \in EngineState /\ lock' \in {"free", "engine", "snap"}
    <3>1. [engine EXCEPT !.stage = "decide"] \in EngineState
      BY DEF TypeOK, EngineState, Stages
    <3>. QED BY <1>2, <3>1, IdleTyped DEF DepositCommit, TypeOK, Release
  <2>. QED BY <1>2, <2>2, <2>4, <2>5, <2>6 DEF DepositCommit, TypeOK
<1>. QED BY <1>1, <1>2

LEMMA StartTypes ==
  ASSUME TypeOK, RebalanceStart \/ BackfillStart
  PROVE  TypeOK'
<1> USE DEF calendar, db, holdings
<1>1. runs' \in 0..MaxRuns
  <2>1. runs < MaxRuns /\ runs' = runs + 1
    BY DEF RebalanceStart, BackfillStart, Acquire, Admitted
  <2>. QED BY <2>1, ConstantAssumption DEF TypeOK
<1>2. engine' \in EngineState
  <2>1. CASE RebalanceStart
    <3>1. [Idle EXCEPT !.stage = "deposit", !.month = utc] \in EngineState
      <4>1. utc \in Nat
        BY ConstantAssumption DEF TypeOK, Months
      <4>. QED BY <4>1, IdleTyped DEF EngineState, Stages
    <3>. QED BY <2>1, <3>1 DEF RebalanceStart, Acquire
  <2>2. CASE BackfillStart
    <3>1. PICK first \in Months, last \in {local - 1, local} :
            first <= last /\ engine' = [Idle EXCEPT !.stage = "wipe", !.window = first..last]
      BY <2>2 DEF BackfillStart
    <3>2. first..last \in SUBSET Months
      <4>1. first \in Int /\ local \in 1..LastMonth /\ LastMonth \in Nat /\ first >= 1
        BY ConstantAssumption DEF Months, TypeOK
      <4>2. last \in Int /\ last <= LastMonth
        BY <4>1
      <4>. QED BY <4>1, <4>2 DEF Months
    <3>3. [Idle EXCEPT !.stage = "wipe", !.window = first..last] \in EngineState
      BY <3>2, IdleTyped DEF EngineState, Stages
    <3>. QED BY <3>1, <3>3
  <2>. QED BY <2>1, <2>2
<1>. QED BY <1>1, <1>2 DEF RebalanceStart, BackfillStart, Acquire, TypeOK

LEMMA DecideTypes ==
  ASSUME TypeOK, DecisionInv, Decide
  PROVE  TypeOK'
<1> USE DEF Elsewhere, calendar, bounds
<1>1. CASE Release /\ UNCHANGED <<account, decided, history>>
  BY <1>1, IdleTyped DEF Decide, Release, TypeOK
<1>2. CASE ~(Release /\ UNCHANGED <<account, decided, history>>)
  <2>1. PICK picks \in PickSets :
          /\ engine' = [engine EXCEPT !.stage = "sell", !.picks = picks,
                                       !.todo = Held \ picks]
          /\ account' = [account EXCEPT !.rebalanceMonth = engine.month]
          /\ decided' = decided \cup {engine.month}
          /\ history' = [history EXCEPT !.decisions[engine.month] = @ + 1]
          /\ lock' = lock
    BY <1>2 DEF Decide
  <2>2. engine.month \in Months
    <3>1. engine.month \in (account.rebalanceMonth + 1)..utc
      BY DEF Decide, DecisionInv
    <3>2. account.rebalanceMonth \in Nat /\ utc \in Months /\ LastMonth \in Nat
      BY ConstantAssumption DEF TypeOK, Account
    <3>. QED BY <3>1, <3>2 DEF Months
  <2>3. picks \in SUBSET Tickers /\ Held \ picks \in SUBSET Tickers
    BY ConstantAssumption DEF Held
  <2>4. engine' \in EngineState
    BY <2>1, <2>3 DEF TypeOK, EngineState, Stages
  <2>5. account' \in Account
    BY <2>1, <2>2 DEF TypeOK, Account, Months
  <2>6. history' \in History
    BY <2>1, <2>2 DEF TypeOK, History
  <2>. QED BY <2>1, <2>2, <2>4, <2>5, <2>6 DEF Decide, TypeOK
<1>. QED BY <1>1, <1>2

LEMMA SellTypes ==
  ASSUME TypeOK, NEW t \in Tickers, SellRead(t) \/ SellCommit(t)
  PROVE  TypeOK'
<1> USE DEF Elsewhere, calendar, db, holdings, bounds
<1>1. CASE SellRead(t)
  <2>1. engine' \in EngineState
    BY <1>1 DEF SellRead, TypeOK, EngineState, Stages
  <2>. QED BY <1>1, <2>1 DEF SellRead, TypeOK
<1>2. CASE SellCommit(t)
  <2>1. engine' \in EngineState
    BY <1>2 DEF SellCommit, TypeOK, EngineState, Stages
  <2>2. engine.row \in Account /\ engine.row.cash + positions[t] \in Nat
    BY DEF TypeOK, EngineState, Account
  <2>3. account' \in Account
    BY <1>2, <2>2, SetCashTyped DEF SellCommit, TypeOK
  <2>4. positions' \in [Tickers -> Nat]
    BY <1>2 DEF SellCommit, TypeOK
  <2>. QED BY <1>2, <2>1, <2>3, <2>4 DEF SellCommit, TypeOK
<1>. QED BY <1>1, <1>2

LEMMA BuyTypes ==
  ASSUME TypeOK, TradeInv, NEW t \in Tickers, BuyRead(t) \/ BuyCommit(t)
  PROVE  TypeOK'
<1> USE DEF Elsewhere, calendar, db, holdings, bounds
<1>1. CASE BuyRead(t)
  <2>1. CASE Covered(t)
    <3>1. engine' \in EngineState
      BY <1>1, <2>1 DEF BuyRead, TypeOK, EngineState, Stages
    <3>. QED BY <1>1, <3>1 DEF BuyRead, TypeOK
  <2>2. CASE ~Covered(t)
    <3>1. engine' \in EngineState
      BY <1>1, <2>2 DEF BuyRead, TypeOK, EngineState
    <3>. QED BY <1>1, <3>1 DEF BuyRead, TypeOK
  <2>. QED BY <2>1, <2>2
<1>2. CASE BuyCommit(t)
  <2>1. engine' \in EngineState
    BY <1>2 DEF BuyCommit, TypeOK, EngineState, Stages
  <2>2. engine.row \in Account /\ engine.row.cash - Cost(t) \in Nat
    <3>1. engine.row.cash >= Cost(t)
      BY <1>2 DEF BuyCommit, TradeInv
    <3>2. engine.row \in Account /\ engine.row.cash \in Nat /\ Cost(t) \in Int
      BY DEF TypeOK, EngineState, Account, Cost
    <3>. QED BY <3>1, <3>2
  <2>3. account' \in Account
    BY <1>2, <2>2, SetCashTyped DEF BuyCommit, TypeOK
  <2>4. positions' \in [Tickers -> Nat]
    BY <1>2 DEF BuyCommit, TypeOK, EngineState
  <2>. QED BY <1>2, <2>1, <2>3, <2>4 DEF BuyCommit, TypeOK
<1>. QED BY <1>1, <1>2

LEMMA WeighValueTypes ==
  ASSUME TypeOK, TradeInv, Weigh \/ Value \/ MarkRebalance
  PROVE  TypeOK'
<1> USE DEF Elsewhere, calendar, db, holdings, bounds
<1>1. account.cash \in Nat /\ Invested \in Nat
  BY InvestedNat DEF TypeOK, Account
<1>2. CASE Weigh
  <2> DEFINE weight == (account.cash + Invested) \div Cardinality(engine.picks)
  <2>1. weight \in Nat
    <3>1. engine.picks \in SUBSET Tickers /\ engine.picks # {}
      BY <1>2 DEF Weigh, TradeInv, TypeOK, EngineState
    <3>2. Cardinality(engine.picks) \in Nat /\ Cardinality(engine.picks) > 0
      BY <3>1, PicksCounted
    <3>. QED BY <1>1, <3>2
  <2>2. PICK priced \in SUBSET engine.picks :
          engine' = [engine EXCEPT !.stage = "buy", !.weight = weight,
                                   !.todo = {u \in priced : positions[u] < weight}]
    BY <1>2 DEF Weigh
  <2>3. {u \in priced : positions[u] < weight} \in SUBSET Tickers
    BY DEF TypeOK, EngineState
  <2>4. engine' \in EngineState
    <3> HIDE DEF weight
    <3>. QED BY <2>1, <2>2, <2>3 DEF TypeOK, EngineState, Stages
  <2>. QED BY <1>2, <2>4 DEF Weigh, TypeOK
<1>3. CASE Value
  <2>1. engine' \in EngineState
    BY <1>1, <1>3 DEF Value, TypeOK, EngineState, Stages
  <2>. QED BY <1>3, <2>1 DEF Value, TypeOK
<1>4. CASE MarkRebalance
  <2>1. mark' \in Mark
    <3>1. Cardinality(allowances) \in Nat /\ engine.cash \in Nat
      BY MonthsFinite DEF TypeOK, EngineState
    <3>2. engine.cash + Invested \in Nat
      BY <1>1, <3>1
    <3>. QED BY <1>4, <3>1, <3>2 DEF MarkRebalance, MarkOf, Mark
  <2>. QED BY <1>4, <2>1, IdleTyped DEF MarkRebalance, Release, TypeOK
<1>. QED BY <1>2, <1>3, <1>4

LEMMA SnapshotTypes ==
  ASSUME TypeOK, SnapshotRead \/ SnapshotCommit
  PROVE  TypeOK'
<1> USE DEF calendar, db, holdings, bounds
<1>1. CASE SnapshotRead
  <2>1. account' \in Account /\ account.cash \in Nat
    BY <1>1 DEF SnapshotRead, TypeOK, Account
  <2>. QED BY <1>1, <2>1 DEF SnapshotRead, TypeOK
<1>2. CASE SnapshotCommit
  <2>1. snap \in Nat /\ Invested \in Nat /\ Cardinality(allowances) \in Nat
    BY <1>2, InvestedNat, MonthsFinite DEF SnapshotCommit, TypeOK
  <2>2. mark' \in Mark
    BY <1>2, <2>1 DEF SnapshotCommit, MarkOf, Mark
  <2>. QED BY <1>2, <2>2 DEF SnapshotCommit, TypeOK
<1>. QED BY <1>1, <1>2

\* The wipe takes every row.
LEMMA WipeTypes ==
  ASSUME TypeOK, WipeRead \/ WipeCommit \/ PersistRead
  PROVE  TypeOK'
<1> USE DEF Elsewhere, calendar, db, holdings, bounds
<1>1. CASE WipeRead \/ PersistRead
  <2>1. account \in Account /\ engine \in EngineState
    BY DEF TypeOK
  <2>2. engine' \in EngineState
    BY <1>1, <2>1 DEF WipeRead, PersistRead, EngineState, Stages
  <2>. QED BY <1>1, <2>2 DEF WipeRead, PersistRead, TypeOK
<1>2. CASE WipeCommit
  <2>1. engine.row \in Account /\ account \in Account
    BY DEF TypeOK, EngineState
  <2>2. ASSUME NEW row \in Account PROVE Cleared(row) \in Account
    BY <2>1, ColumnNat DEF Cleared, Account
  <2>3. account' \in Account
    BY <1>2, <2>1, <2>2 DEF WipeCommit
  <2>4. engine' \in EngineState
    BY <1>2, <2>1 DEF WipeCommit, TypeOK, EngineState, Stages
  <2>5. history' \in History
    BY <1>2 DEF WipeCommit, TypeOK, History
  <2>. QED BY <1>2, <2>3, <2>4, <2>5, IdleTyped DEF WipeCommit, NoRows, TypeOK
<1>. QED BY <1>1, <1>2

LEMMA DivAtMost ==
  ASSUME NEW a \in Nat, NEW b \in Nat, b > 0
  PROVE  a \div b \in Nat /\ (a \div b) * b \in Nat /\ (a \div b) * b <= a
OBVIOUS

\* What a replay leaves: the funded months' money, in cash and equal shares.
LEMMA ReplayResult ==
  ASSUME TypeOK, Replay
  PROVE  /\ engine'.funded \in SUBSET Months
         /\ engine'.cash \in Nat
         /\ engine'.shares \in [Tickers -> Nat]
         /\ engine'.cash + Worth(engine'.shares)
              = Contribution * Cardinality(engine'.funded)
         /\ engine' = [engine EXCEPT !.stage = "persist", !.funded = engine'.funded,
                                     !.cash = engine'.cash, !.shares = engine'.shares]
<1>1. PICK picks \in PickSets, invested \in 1..Cardinality(engine.window) :
        LET again == {local} \cap {engine.live.allowanceMonth}
            funded == engine.window \cup again
            each == (invested * Contribution) \div Cardinality(picks)
        IN  engine' = [engine EXCEPT
              !.stage = "persist",
              !.funded = funded,
              !.cash = Cardinality(funded) * Contribution - each * Cardinality(picks),
              !.shares = [t \in Tickers |-> IF t \in picks THEN each ELSE 0]]
  BY DEF Replay
<1> DEFINE again == {local} \cap {engine.live.allowanceMonth}
           funded == engine.window \cup again
           each == (invested * Contribution) \div Cardinality(picks)
           shares == [t \in Tickers |-> IF t \in picks THEN each ELSE 0]
           cash == Cardinality(funded) * Contribution - each * Cardinality(picks)
<1>2. engine' = [engine EXCEPT !.stage = "persist", !.funded = funded, !.cash = cash,
                               !.shares = shares]
  BY <1>1
<1>3. engine.window \in SUBSET Months /\ funded \in SUBSET Months
  BY DEF TypeOK, EngineState
<1>4. picks \in SUBSET Tickers /\ Cardinality(picks) \in Nat /\ Cardinality(picks) > 0
  BY PicksCounted, ConstantAssumption
<1>5. /\ Cardinality(engine.window) \in Nat /\ Cardinality(funded) \in Nat
      /\ Cardinality(engine.window) <= Cardinality(funded)
  BY <1>3, MonthsFinite, FS_Subset
<1>6. /\ invested \in Nat /\ invested <= Cardinality(funded) /\ Contribution \in Nat
      /\ invested * Contribution \in Nat
  BY <1>5, ConstantAssumption
<1>7. each \in Nat /\ each * Cardinality(picks) \in Nat
      /\ each * Cardinality(picks) <= invested * Contribution
  BY <1>4, <1>6, DivAtMost
<1>8. shares \in [Tickers -> Nat] /\ Total(shares, Tickers) = each * Cardinality(picks)
  <2>1. shares \in [Tickers -> Nat]
    BY <1>7
  <2>2. \A t \in Tickers : shares[t] = IF t \in picks THEN each ELSE 0
    OBVIOUS
  <2>. HIDE DEF shares, each
  <2>. QED BY <1>4, <1>7, <2>1, <2>2, ConstantAssumption, TotalUniform
<1>9. cash \in Nat
  <2>1. invested * Contribution <= Cardinality(funded) * Contribution
    <3> HIDE DEF funded
    <3>. QED BY <1>5, <1>6
  <2>2. Cardinality(funded) * Contribution \in Nat
    BY <1>5, <1>6
  <2>. HIDE DEF funded, each
  <2>. QED BY <1>4, <1>6, <1>7, <2>1, <2>2
<1>10. cash + Total(shares, Tickers) = Contribution * Cardinality(funded)
  <2>1. Cardinality(funded) * Contribution \in Nat
        /\ Cardinality(funded) * Contribution = Contribution * Cardinality(funded)
    BY <1>5, <1>6
  <2>. HIDE DEF funded, each, shares
  <2>. QED BY <1>7, <1>8, <2>1
<1>11. engine'.funded = funded /\ engine'.cash = cash /\ engine'.shares = shares
  <2> HIDE DEF funded, cash, shares
  <2>. QED BY <1>2 DEF TypeOK, EngineState
<1>. HIDE DEF funded, cash, shares
<1>. QED BY <1>2, <1>3, <1>8, <1>9, <1>10, <1>11, WorthTotal

LEMMA ReplayTypes ==
  ASSUME TypeOK, Replay
  PROVE  TypeOK'
<1>1. engine' \in EngineState
  BY ReplayResult DEF TypeOK, EngineState, Stages
<1>. QED BY <1>1 DEF Replay, Elsewhere, calendar, db, holdings, bounds, TypeOK

LEMMA PersistTypes ==
  ASSUME TypeOK, PersistCommit
  PROVE  TypeOK'
<1> USE DEF Elsewhere, calendar, db, holdings, bounds
<1>1. CASE engine.funded \cap allowances # {}
  BY <1>1, IdleTyped DEF PersistCommit, Release, TypeOK
<1>2. CASE engine.funded \cap allowances = {}
  <2>1. /\ engine.row \in Account /\ engine.live \in Account /\ account \in Account
        /\ engine.cash \in Nat /\ engine.shares \in [Tickers -> Nat]
        /\ engine.window \in SUBSET Months /\ engine.funded \in SUBSET Months
    BY DEF TypeOK, EngineState
  <2>2. MarkerAfter(engine.funded, engine.live.allowanceMonth) \in Nat
    <3> DEFINE S == engine.funded \cup {engine.live.allowanceMonth}
    <3>1. S \in SUBSET Nat /\ S # {}
      BY <2>1, ConstantAssumption DEF Account, Months
    <3>2. IsFiniteSet(S)
      BY <2>1, MonthsFinite, FS_AddElement
    <3>3. Max(S) \in S
      <4> HIDE DEF S
      <4>. QED BY <3>1, <3>2, MaxOfFinite
    <3>. QED BY <3>1, <3>3 DEF MarkerAfter
  <2>3. account' = [account EXCEPT
               !.cash = Column(engine.row.cash, engine.cash, @),
               !.allowanceMonth =
                 Column(engine.row.allowanceMonth,
                        MarkerAfter(engine.funded, engine.live.allowanceMonth), @),
               !.rebalanceMonth =
                 Column(engine.row.rebalanceMonth, engine.live.rebalanceMonth, @)]
    BY <1>2 DEF PersistCommit
  <2>4. account' \in Account
    <3> DEFINE live == MarkerAfter(engine.funded, engine.live.allowanceMonth)
    <3>1. Column(engine.row.cash, engine.cash, account.cash) \in Nat
      BY <2>1, ColumnNat DEF Account
    <3>2. Column(engine.row.allowanceMonth, live, account.allowanceMonth) \in Nat
      BY <2>1, <2>2, ColumnNat DEF Account
    <3>3. Column(engine.row.rebalanceMonth, engine.live.rebalanceMonth,
                 account.rebalanceMonth) \in Nat
      BY <2>1, ColumnNat DEF Account
    <3>. QED BY <2>1, <2>3, <3>1, <3>2, <3>3 DEF Account
  <2>5. mark' \in Mark
    <3>1. Cardinality(engine.window) \in Nat
      BY <2>1, MonthsFinite
    <3>2. Cardinality(engine.window) * Contribution \in Nat
      BY <3>1, ConstantAssumption
    <3>. QED BY <1>2, <3>1, <3>2 DEF PersistCommit, Mark
  <2>6. decided' \in SUBSET Months /\ allowances' \in SUBSET Months
        /\ positions' \in [Tickers -> Nat]
    BY <1>2, <2>1 DEF PersistCommit, TypeOK
  <2>. QED BY <2>4, <2>5, <2>6, IdleTyped DEF PersistCommit, Release, TypeOK
<1>. QED BY <1>1, <1>2

LEMMA OtherTypes ==
  ASSUME TypeOK, Reset \/ TickLocal \/ TickUtc \/ Crash \/ Fail
  PROVE  TypeOK'
<1> USE DEF calendar, db, holdings, bounds
<1>1. CASE Reset
  <2>1. runs' \in 0..MaxRuns
    BY <1>1, ConstantAssumption DEF Reset, Admitted, TypeOK
  <2>. QED BY <1>1, <2>1, IdleTyped DEF Reset, NoRows, ResetAccount, TypeOK
<1>2. CASE TickLocal \/ TickUtc
  <2>1. local' \in Months /\ utc' \in Months
    BY <1>2, ConstantAssumption DEF TickLocal, TickUtc, TypeOK, Months
  <2>. QED BY <1>2, <2>1 DEF TickLocal, TickUtc, TypeOK
<1>3. CASE Crash \/ Fail
  <2>1. crashes' \in 0..MaxCrashes
    BY <1>3, ConstantAssumption DEF Crash, Fail, TypeOK
  <2>2. deposit' \in [Callers -> Deposit] /\ engine' = Idle /\ lock' = "free"
        /\ snap' \in Nat \cup {NotReading}
    BY <1>3, IdleTyped DEF Crash, Fail, Release, TypeOK
  <2>. QED BY <1>3, <2>1, <2>2, IdleTyped DEF Crash, Fail, TypeOK
<1>. QED BY <1>1, <1>2, <1>3

LEMMA NextTypes ==
  ASSUME TypeOK, ReadInv, TradeInv, DecisionInv, Next
  PROVE  TypeOK'
BY DepositTypes, StartTypes, DecideTypes, SellTypes, BuyTypes, WeighValueTypes, SnapshotTypes,
   WipeTypes, ReplayTypes, PersistTypes, OtherTypes DEF Next, Rebalance, Backfill

-----------------------------------------------------------------------------
(* What was read is still there.                                           *)

LEMMA ReadKept ==
  ASSUME TypeOK, Inv, ReadInv, Next
  PROVE  ReadInv'
<1> USE DEF Elsewhere, calendar, db, holdings, bounds
<1>1. /\ lock = "engine" <=> engine.stage # "idle"
      /\ deposit[Engine] # NoDeposit => engine.stage = "deposit"
      /\ snap # NotReading => lock = "snap"
  BY DEF Inv, LockInv, SnapInv
<1>2. account \in Account /\ engine \in EngineState /\ history \in History
      /\ deposit \in [Callers -> Deposit]
  BY DEF TypeOK
<1>3. /\ \A c \in Callers : deposit[c] # NoDeposit => deposit[c].month \in Months
      /\ ~history.raced /\ engine.stage \in {"selling", "buying", "wiping", "persisting"}
           => engine.row = account
      /\ ~history.raced /\ engine.stage = "mark" => engine.cash = account.cash
      /\ ~history.raced /\ snap # NotReading => snap = account.cash
  BY DEF ReadInv
<1> DEFINE Pending == \A c \in Callers : deposit[c] # NoDeposit => deposit[c].month \in Months
           Fixed == ~history.raced =>
              /\ engine.stage \in {"selling", "buying", "wiping", "persisting"} =>
                   engine.row = account
              /\ engine.stage = "mark" => engine.cash = account.cash
              /\ snap # NotReading => snap = account.cash
<1>4. SUFFICES Pending' /\ Fixed'
  BY DEF ReadInv
<1>5. ASSUME NEW c \in Callers, DepositRead(c) PROVE Pending' /\ Fixed'
  <2>1. Pending'
    <3>1. \/ deposit' = deposit
          \/ deposit' = [deposit EXCEPT ![c] = [month |-> local, row |-> account]]
      BY <1>5 DEF DepositRead
    <3>2. local \in Months
      BY DEF TypeOK
    <3>. QED BY <1>2, <1>3, <3>1, <3>2
  <2>2. engine' = engine \/ engine'.stage = "decide"
    BY <1>2, <1>5 DEF DepositRead, EngineState
  <2>3. UNCHANGED <<account, history, snap>>
    BY <1>5 DEF DepositRead
  <2>. QED BY <1>3, <2>1, <2>2, <2>3
<1>6. ASSUME NEW c \in Callers, DepositCommit(c) PROVE Pending' /\ Fixed'
  <2>1. Pending' /\ snap' = snap
    BY <1>2, <1>3, <1>6 DEF DepositCommit
  <2>2. CASE Conflict(deposit[c])
    <3>1. UNCHANGED <<account, history>> /\ (engine' = engine \/ engine' = Idle)
      BY <1>6, <2>2 DEF DepositCommit, Release
    <3>. QED BY <1>3, <2>1, <3>1 DEF Idle
  <2>3. CASE ~Conflict(deposit[c])
    <3>1. /\ history' = [history EXCEPT !.raced = @ \/ Overlaps(c)]
          /\ engine' = IF c = Engine THEN [engine EXCEPT !.stage = "decide"] ELSE engine
      BY <1>6, <2>3 DEF DepositCommit
    <3>2. history'.raced = (history.raced \/ Overlaps(c))
      BY <1>2, <3>1 DEF History
    <3>3. CASE Overlaps(c)
      BY <2>1, <3>2, <3>3
    <3>4. CASE ~Overlaps(c)
      <4>1. c = Engine \/ lock = "free"
        BY <3>4 DEF Overlaps
      <4>2. snap = NotReading /\ engine'.stage \in {"decide", "idle"}
        BY <1>1, <1>2, <1>6, <3>1, <4>1 DEF EngineState, DepositCommit
      <4>. QED BY <2>1, <4>2
    <3>. QED BY <3>3, <3>4
  <2>. QED BY <2>2, <2>3
<1>7. CASE RebalanceStart \/ BackfillStart
  <2>1. engine'.stage \in {"deposit", "wipe"} /\ UNCHANGED <<account, deposit, snap, history>>
    BY <1>7 DEF RebalanceStart, BackfillStart, Acquire, Idle
  <2>. QED BY <1>3, <2>1
<1>8. CASE Decide
  <2>1. UNCHANGED <<deposit, snap>> /\ snap = NotReading
    BY <1>1, <1>8 DEF Decide
  <2>2. engine'.stage = "idle" \/ engine'.stage = "sell"
    <3>1. CASE Release
      BY <3>1 DEF Release, Idle
    <3>2. CASE ~Release
      <4>1. PICK picks \in PickSets :
              engine' = [engine EXCEPT !.stage = "sell", !.picks = picks, !.todo = Held \ picks]
        BY <1>8, <3>2 DEF Decide
      <4>. QED BY <1>2, <4>1 DEF EngineState
    <3>. QED BY <3>1, <3>2
  <2>. QED BY <1>3, <2>1, <2>2
<1>9. ASSUME NEW t \in Tickers, SellRead(t) \/ BuyRead(t) PROVE Pending' /\ Fixed'
  <2>1. UNCHANGED <<account, deposit, snap, history>>
    BY <1>9 DEF SellRead, BuyRead
  <2>2. \/ engine'.stage \in {"selling", "buying"} /\ engine'.row = account
        \/ engine'.stage = "buy"
    BY <1>2, <1>9 DEF SellRead, BuyRead, EngineState
  <2>. QED BY <1>3, <2>1, <2>2
<1>10. ASSUME NEW t \in Tickers, SellCommit(t) \/ BuyCommit(t) PROVE Pending' /\ Fixed'
  <2>1. engine'.stage \in {"sell", "buy"} /\ UNCHANGED <<deposit, snap>> /\ snap = NotReading
    BY <1>1, <1>2, <1>10 DEF SellCommit, BuyCommit, EngineState
  <2>. QED BY <1>3, <2>1
<1>11. CASE Weigh \/ Value \/ Replay
  <2>1. /\ engine'.stage = "buy" \/ engine'.stage = "persist"
           \/ (engine'.stage = "mark" /\ engine'.cash = account.cash)
        /\ UNCHANGED <<account, deposit, snap, history>>
    BY <1>2, <1>11 DEF Weigh, Value, Replay, EngineState
  <2>. QED BY <1>3, <2>1
<1>12. CASE WipeRead \/ PersistRead
  <2>1. engine'.row = account /\ UNCHANGED <<account, deposit, snap, history>>
        /\ engine'.stage # "mark"
    BY <1>2, <1>12 DEF WipeRead, PersistRead, EngineState
  <2>. QED BY <1>3, <2>1
<1>13. CASE WipeCommit
  <2>1. engine'.stage = "replay" /\ UNCHANGED <<deposit, snap>> /\ snap = NotReading
    BY <1>1, <1>2, <1>13 DEF WipeCommit, EngineState
  <2>. QED BY <1>3, <2>1
<1>14. CASE MarkRebalance \/ PersistCommit
  <2>1. engine'.stage = "idle" /\ UNCHANGED <<deposit, snap>> /\ snap = NotReading
    BY <1>1, <1>14 DEF MarkRebalance, PersistCommit, Release, Idle
  <2>. QED BY <1>3, <2>1
<1>15. CASE SnapshotRead
  <2>1. /\ UNCHANGED <<engine, deposit, history>> /\ engine.stage = "idle"
        /\ snap' = account.cash /\ account'.cash = account.cash
    BY <1>1, <1>2, <1>15 DEF SnapshotRead, MarkAdmitted, Account
  <2>. QED BY <1>3, <2>1
<1>16. CASE SnapshotCommit
  <2>1. UNCHANGED <<account, engine, deposit, history>> /\ snap' = NotReading
    BY <1>16 DEF SnapshotCommit
  <2>. QED BY <1>3, <2>1
<1>17. CASE Reset
  <2>1. UNCHANGED <<engine, deposit, snap>> /\ engine.stage = "idle" /\ snap = NotReading
    BY <1>1, <1>17 DEF Reset, Admitted
  <2>. QED BY <1>3, <2>1
<1>18. CASE TickLocal \/ TickUtc
  BY <1>3, <1>18 DEF TickLocal, TickUtc
<1>19. CASE Crash \/ Fail
  <2>1. UNCHANGED <<account, history>> /\ engine' = Idle /\ (snap' = snap \/ snap' = NotReading)
    BY <1>19 DEF Crash, Fail, Release
  <2>2. Pending'
    BY <1>2, <1>3, <1>19 DEF Crash, Fail
  <2>. QED BY <1>3, <2>1, <2>2 DEF Idle
<1>. HIDE DEF Pending, Fixed
<1>. QED BY <1>5, <1>6, <1>7, <1>8, <1>9, <1>10, <1>11, <1>12, <1>13, <1>14, <1>15, <1>16,
            <1>17, <1>18, <1>19 DEF Next, Rebalance, Backfill

-----------------------------------------------------------------------------
(* The names a rebalance sells and buys.                                   *)

Tradeless == {"idle", "deposit", "decide", "wipe", "wiping", "replay", "persist", "persisting"}

LEMMA OffTrade ==
  ASSUME engine'.stage \in Tradeless
  PROVE  TradeInv'
BY DEF TradeInv, Tradeless

LEMMA SellsKeepTrade ==
  ASSUME TypeOK, TradeInv, NEW t \in Tickers, SellRead(t) \/ SellCommit(t)
  PROVE  TradeInv'
<1> USE DEF Elsewhere, calendar, db, holdings, bounds
<1>1. engine \in EngineState /\ positions \in [Tickers -> Nat]
  BY DEF TypeOK
<1>2. engine.picks # {} /\ engine.month \in decided /\ Held \ engine.picks \subseteq engine.todo
  BY DEF SellRead, SellCommit, TradeInv
<1>3. CASE SellRead(t)
  <2>1. /\ engine'.stage = "selling" /\ engine'.picks = engine.picks
        /\ engine'.month = engine.month /\ engine'.todo = engine.todo
        /\ UNCHANGED <<decided, positions>>
    BY <1>1, <1>3 DEF SellRead, EngineState
  <2>. QED BY <1>2, <2>1 DEF TradeInv, Held
<1>4. CASE SellCommit(t)
  <2>1. /\ engine'.stage = "sell" /\ engine'.picks = engine.picks
        /\ engine'.month = engine.month /\ engine'.todo = engine.todo \ {t}
        /\ UNCHANGED decided
    BY <1>1, <1>4 DEF SellCommit, EngineState
  <2>2. Held' = Held \ {t}
    BY <1>1, <1>4 DEF SellCommit, Held
  <2>. QED BY <1>2, <2>1, <2>2 DEF TradeInv
<1>. QED BY <1>3, <1>4

LEMMA BuysKeepTrade ==
  ASSUME TypeOK, TradeInv, NEW t \in Tickers, BuyRead(t) \/ BuyCommit(t)
  PROVE  TradeInv'
<1> USE DEF Elsewhere, calendar, db, holdings, bounds
<1>1. engine \in EngineState /\ positions \in [Tickers -> Nat] /\ account \in Account
  BY DEF TypeOK
<1>2. /\ engine.picks # {} /\ engine.month \in decided /\ Held \subseteq engine.picks
      /\ engine.todo \subseteq engine.picks
      /\ \A u \in engine.todo : positions[u] < engine.weight
  BY DEF BuyRead, BuyCommit, TradeInv
<1>3. CASE BuyRead(t) /\ Covered(t)
  <2>1. /\ engine'.stage = "buying" /\ engine'.picks = engine.picks
        /\ engine'.month = engine.month /\ engine'.todo = engine.todo
        /\ engine'.ticker = {t} /\ engine'.row = account /\ engine'.weight = engine.weight
        /\ t \in engine.todo
        /\ UNCHANGED <<decided, positions>>
    BY <1>1, <1>3 DEF BuyRead, EngineState
  <2>2. account.cash >= engine.weight - positions[t]
    BY <1>3 DEF Covered, Cost
  <2>. QED BY <1>2, <2>1, <2>2 DEF TradeInv, Held, Cost
<1>4. CASE BuyRead(t) /\ ~Covered(t)
  <2>1. /\ engine'.stage = "buy" /\ engine'.picks = engine.picks
        /\ engine'.month = engine.month /\ engine'.todo = engine.todo \ {t}
        /\ engine'.weight = engine.weight
        /\ UNCHANGED <<decided, positions>>
    BY <1>1, <1>4 DEF BuyRead, EngineState
  <2>. QED BY <1>2, <2>1 DEF TradeInv, Held
<1>5. CASE BuyCommit(t)
  <2>1. /\ engine'.stage = "buy" /\ engine'.picks = engine.picks
        /\ engine'.month = engine.month /\ engine'.todo = engine.todo \ {t}
        /\ engine'.weight = engine.weight
        /\ UNCHANGED decided
    BY <1>1, <1>5 DEF BuyCommit, EngineState
  <2>2. t \in engine.picks
    BY <1>2, <1>5 DEF BuyCommit, TradeInv
  <2>3. positions' = [positions EXCEPT ![t] = engine.weight]
    BY <1>5 DEF BuyCommit
  <2>4. Held' \subseteq engine.picks /\ \A u \in engine.todo \ {t} : positions'[u] < engine.weight
    BY <1>1, <1>2, <2>2, <2>3 DEF Held, EngineState
  <2>. QED BY <1>2, <2>1, <2>4 DEF TradeInv
<1>. QED BY <1>3, <1>4, <1>5

LEMMA TradeKept ==
  ASSUME TypeOK, Inv, TradeInv, Next
  PROVE  TradeInv'
<1> USE DEF Elsewhere, calendar, db, holdings, bounds
<1>1. lock = "engine" <=> engine.stage # "idle"
  BY DEF Inv, LockInv
<1>2. engine \in EngineState /\ positions \in [Tickers -> Nat] /\ account \in Account
  BY DEF TypeOK
<1>3. ASSUME NEW c \in Callers, DepositRead(c) \/ DepositCommit(c) PROVE TradeInv'
  <2>1. UNCHANGED <<positions, decided>>
    BY <1>3 DEF DepositRead, DepositCommit
  <2>2. CASE engine' = engine
    BY <2>1, <2>2 DEF TradeInv, Held, Cost
  <2>3. CASE engine' # engine
    <3>1. engine'.stage = "decide" \/ engine' = Idle
      BY <1>2, <1>3, <2>3 DEF DepositRead, DepositCommit, Release, EngineState
    <3>. QED BY <3>1, OffTrade DEF Idle, Tradeless
  <2>. QED BY <2>2, <2>3
<1>4. CASE RebalanceStart \/ BackfillStart
  <2>1. engine'.stage \in {"deposit", "wipe"}
    BY <1>4 DEF RebalanceStart, BackfillStart, Acquire, Idle
  <2>. QED BY <2>1, OffTrade DEF Tradeless
<1>5. CASE Decide
  <2>1. CASE Release
    BY <2>1, OffTrade DEF Release, Idle, Tradeless
  <2>2. CASE ~Release
    <3>1. PICK picks \in PickSets :
            /\ engine' = [engine EXCEPT !.stage = "sell", !.picks = picks, !.todo = Held \ picks]
            /\ decided' = decided \cup {engine.month}
      BY <1>5, <2>2 DEF Decide
    <3>2. /\ engine'.stage = "sell" /\ engine'.picks = picks
          /\ engine'.todo = Held \ picks /\ engine'.month = engine.month
      BY <1>2, <3>1 DEF EngineState
    <3>3. Held' = Held /\ picks # {}
      BY <1>5, ConstantAssumption DEF Decide, Held
    <3>. QED BY <3>1, <3>2, <3>3 DEF TradeInv
  <2>. QED BY <2>1, <2>2
<1>6. CASE Weigh
  <2> DEFINE weight == (account.cash + Invested) \div Cardinality(engine.picks)
  <2>1. PICK priced \in SUBSET engine.picks :
          engine' = [engine EXCEPT !.stage = "buy", !.weight = weight,
                                   !.todo = {t \in priced : positions[t] < weight}]
    BY <1>6 DEF Weigh
  <2>. HIDE DEF weight
  <2>2. /\ engine'.stage = "buy" /\ engine'.picks = engine.picks /\ engine'.weight = weight
        /\ engine'.todo = {t \in priced : positions[t] < weight} /\ engine'.month = engine.month
    BY <1>2, <2>1 DEF EngineState
  <2>3. engine.picks # {} /\ engine.month \in decided /\ Held \ engine.picks \subseteq {}
        /\ UNCHANGED <<positions, decided>>
    BY <1>6 DEF Weigh, AllSold, TradeInv
  <2>. QED BY <2>2, <2>3 DEF TradeInv, Held
<1>7. CASE Value
  <2>1. /\ engine'.stage = "mark" /\ engine'.picks = engine.picks
        /\ engine'.month = engine.month /\ UNCHANGED <<positions, decided>>
    BY <1>2, <1>7 DEF Value, EngineState
  <2>. QED BY <1>7, <2>1 DEF Value, TradeInv, Held
<1>8. CASE MarkRebalance \/ PersistCommit \/ Crash \/ Fail
  <2>1. engine'.stage = "idle"
    BY <1>8 DEF MarkRebalance, PersistCommit, Crash, Fail, Release, Idle
  <2>. QED BY <2>1, OffTrade DEF Tradeless
<1>9. CASE WipeRead \/ WipeCommit \/ Replay \/ PersistRead
  <2>1. engine'.stage \in {"wiping", "replay", "persist", "persisting"}
    BY <1>2, <1>9 DEF WipeRead, WipeCommit, Replay, PersistRead, EngineState
  <2>. QED BY <2>1, OffTrade DEF Tradeless
<1>10. CASE SnapshotRead \/ Reset
  <2>1. engine' = engine /\ engine.stage = "idle"
    BY <1>1, <1>10 DEF SnapshotRead, MarkAdmitted, Reset, Admitted
  <2>. QED BY <2>1, OffTrade DEF Tradeless
<1>11. CASE SnapshotCommit \/ TickLocal \/ TickUtc
  <2>1. UNCHANGED <<engine, positions, decided>>
    BY <1>11 DEF SnapshotCommit, TickLocal, TickUtc
  <2>. QED BY <2>1 DEF TradeInv, Held, Cost
<1>. QED BY <1>3, <1>4, <1>5, <1>6, <1>7, <1>8, <1>9, <1>10, <1>11, SellsKeepTrade,
            BuysKeepTrade DEF Next, Rebalance, Backfill

-----------------------------------------------------------------------------
(* The money.                                                              *)

Stocked == {"replay", "persist", "persisting"}

\* The equity curve and the ledger are untouched where nothing they read is.
LEMMA ReplayKept ==
  ASSUME TypeOK, Inv, ReadInv, ReplayInv, Next
  PROVE  ReplayInv'
<1> USE DEF Elsewhere, calendar, db, holdings, bounds
<1>1. /\ lock = "engine" <=> engine.stage # "idle"
      /\ deposit[Engine] # NoDeposit => engine.stage = "deposit"
  BY DEF Inv, LockInv
<1>2. engine \in EngineState /\ account \in Account /\ history \in History
  BY DEF TypeOK
<1>3. ASSUME engine'.stage \notin Stocked PROVE ReplayInv'
  BY <1>3 DEF ReplayInv, Stocked
<1>4. ASSUME UNCHANGED <<engine, account, positions, mark, allowances, history>>
      PROVE  ReplayInv'
  BY <1>4 DEF ReplayInv
<1>5. ASSUME NEW c \in Callers, DepositRead(c) PROVE ReplayInv'
  <2>1. CASE engine' = engine
    BY <1>4, <1>5, <2>1 DEF DepositRead
  <2>2. CASE engine' # engine
    <3>1. engine'.stage = "decide"
      BY <1>2, <1>5, <2>2 DEF DepositRead, EngineState
    <3>. QED BY <1>3, <3>1 DEF Stocked
  <2>. QED BY <2>1, <2>2
<1>6. ASSUME NEW c \in Callers, DepositCommit(c) PROVE ReplayInv'
  <2>1. CASE c = Engine
    <3>1. engine.stage = "deposit"
      BY <1>1, <1>6, <2>1 DEF DepositCommit
    <3>2. engine'.stage \in {"idle", "decide"}
      BY <1>2, <1>6, <2>1, <3>1 DEF DepositCommit, Release, Idle, EngineState
    <3>. QED BY <1>3, <3>2 DEF Stocked
  <2>2. CASE c # Engine /\ Conflict(deposit[c])
    BY <1>4, <1>6, <2>2 DEF DepositCommit
  <2>3. CASE c # Engine /\ ~Conflict(deposit[c])
    <3>1. engine' = engine /\ UNCHANGED <<positions, mark>>
          /\ history' = [history EXCEPT !.raced = @ \/ Overlaps(c)]
      BY <1>6, <2>3 DEF DepositCommit
    <3>2. engine.stage # "idle" => history'.raced
      BY <1>1, <1>2, <2>3, <3>1 DEF Overlaps, History
    <3>. QED BY <3>1, <3>2 DEF ReplayInv
  <2>. QED BY <2>1, <2>2, <2>3
<1>7. CASE RebalanceStart \/ BackfillStart
  <2>1. engine'.stage \in {"deposit", "wipe"}
    BY <1>7 DEF RebalanceStart, BackfillStart, Acquire, Idle
  <2>. QED BY <1>3, <2>1 DEF Stocked
<1>8. CASE Decide
  <2>1. CASE Release
    BY <1>3, <2>1 DEF Release, Idle, Stocked
  <2>2. CASE ~Release
    <3>1. PICK picks \in PickSets :
            engine' = [engine EXCEPT !.stage = "sell", !.picks = picks, !.todo = Held \ picks]
      BY <1>8, <2>2 DEF Decide
    <3>2. engine'.stage = "sell"
      BY <1>2, <3>1 DEF EngineState
    <3>. QED BY <1>3, <3>2 DEF Stocked
  <2>. QED BY <2>1, <2>2
<1>9. ASSUME NEW t \in Tickers, SellRead(t) \/ SellCommit(t) \/ BuyRead(t) \/ BuyCommit(t)
      PROVE  ReplayInv'
  <2>1. engine'.stage \in {"sell", "selling", "buy", "buying"}
    BY <1>2, <1>9 DEF SellRead, SellCommit, BuyRead, BuyCommit, EngineState
  <2>. QED BY <1>3, <2>1 DEF Stocked
<1>10. CASE Weigh \/ Value \/ WipeRead
  <2>1. engine'.stage \in {"buy", "mark", "wiping"}
    BY <1>2, <1>10 DEF Weigh, Value, WipeRead, EngineState
  <2>. QED BY <1>3, <2>1 DEF Stocked
<1>11. CASE MarkRebalance \/ PersistCommit \/ Crash \/ Fail
  <2>1. engine'.stage = "idle"
    BY <1>11 DEF MarkRebalance, PersistCommit, Crash, Fail, Release, Idle
  <2>. QED BY <1>3, <2>1 DEF Stocked
<1>12. CASE WipeCommit
  <2>1. /\ engine'.stage = "replay" /\ positions' = Nothing /\ mark' = NoMark
        /\ allowances' = {} /\ history'.base = 0 /\ history'.raced = history.raced
    BY <1>2, <1>12 DEF WipeCommit, NoRows, EngineState, History
  <2>2. ~history.raced => account'.cash = 0
    <3> SUFFICES ASSUME ~history.raced PROVE account'.cash = 0
      OBVIOUS
    <3>1. engine.row = account
      BY <1>12 DEF WipeCommit, ReadInv
    <3>2. account' = Cleared(account)
      BY <1>12, <3>1 DEF WipeCommit
    <3>. QED BY <1>2, <3>2 DEF Cleared, Column, Account
  <2>. QED BY <2>1, <2>2 DEF ReplayInv
<1>13. CASE Replay
  <2>1. /\ engine.stage = "replay" /\ engine'.stage = "persist"
        /\ UNCHANGED <<positions, mark, account, allowances, history>>
    BY <1>2, <1>13 DEF Replay, EngineState
  <2>2. engine'.cash + Worth(engine'.shares)
          = Contribution * Cardinality(engine'.funded)
    BY <1>13, ReplayResult
  <2>. QED BY <2>1, <2>2 DEF ReplayInv
<1>14. CASE PersistRead
  <2>1. /\ engine.stage = "persist" /\ engine'.stage = "persisting"
        /\ engine'.cash = engine.cash /\ engine'.shares = engine.shares
        /\ engine'.funded = engine.funded
        /\ UNCHANGED <<positions, mark, account, allowances, history>>
    BY <1>2, <1>14 DEF PersistRead, EngineState
  <2>. QED BY <2>1 DEF ReplayInv
<1>15. CASE SnapshotRead \/ Reset
  <2>1. engine' = engine /\ engine.stage = "idle"
    BY <1>1, <1>15 DEF SnapshotRead, MarkAdmitted, Reset, Admitted
  <2>. QED BY <1>3, <2>1 DEF Stocked
<1>16. CASE SnapshotCommit
  <2>1. snap # NotReading
    BY <1>16 DEF SnapshotCommit
  <2>2. engine' = engine /\ engine.stage = "idle"
    BY <1>1, <1>16, <2>1 DEF SnapshotCommit, Inv, SnapInv
  <2>. QED BY <1>3, <2>2 DEF Stocked
<1>17. CASE TickLocal \/ TickUtc
  BY <1>4, <1>17 DEF TickLocal, TickUtc
<1>. QED BY <1>5, <1>6, <1>7, <1>8, <1>9, <1>10, <1>11, <1>12, <1>13, <1>14, <1>15, <1>16,
            <1>17 DEF Next, Rebalance, Backfill

LEMMA WorthNat == \A shares \in [Tickers -> Nat] : Worth(shares) \in Nat
BY WorthTotal, TotalType, ConstantAssumption

LEMMA WorthOfNothing == Worth(Nothing) = 0
<1>1. Nothing \in [Tickers -> Nat] /\ \A t \in Tickers : Nothing[t] = 0
  BY DEF Nothing
<1>. QED BY <1>1, WorthTotal, TotalZero, ConstantAssumption

LEMMA WorthOfTrade ==
  ASSUME NEW shares \in [Tickers -> Nat], NEW t \in Tickers, NEW n \in Nat
  PROVE  Worth([shares EXCEPT ![t] = n]) = (Worth(shares) - shares[t]) + n
<1> DEFINE traded == [shares EXCEPT ![t] = n]
<1>1. traded \in [Tickers -> Nat] /\ traded[t] = n /\ \A u \in Tickers \ {t} : traded[u] = shares[u]
  OBVIOUS
<1>2. Total(traded, Tickers) = (Total(shares, Tickers) - shares[t]) + traded[t]
  <2> HIDE DEF traded
  <2>. QED BY <1>1, ConstantAssumption, TotalChange
<1>. QED BY <1>1, <1>2, WorthTotal

\* A trade moves money between cash and a position.
LEMMA TradeConserves ==
  ASSUME TypeOK, Inv, ReadInv, MoneyConserved, NEW t \in Tickers, SellCommit(t) \/ BuyCommit(t)
  PROVE  MoneyConserved'
<1>1. history' = history /\ allowances' = allowances
  BY DEF SellCommit, BuyCommit
<1>2. CASE history.raced
  BY <1>1, <1>2 DEF MoneyConserved
<1>3. CASE ~history.raced
  <2>1. /\ engine.row = account /\ account \in Account /\ account.cash \in Nat
        /\ positions \in [Tickers -> Nat] /\ positions[t] \in Nat /\ engine.weight \in Nat
    BY <1>3 DEF SellCommit, BuyCommit, ReadInv, TypeOK, Account, EngineState
  <2>2. \A n \in Int : SetCash(account, n).cash = n
    BY <2>1 DEF SetCash, Column, Account
  <2>3. Worth(positions) \in Nat
    BY <2>1, WorthNat
  <2>4. CASE SellCommit(t)
    <3>1. account'.cash = account.cash + positions[t]
      BY <2>1, <2>2, <2>4 DEF SellCommit
    <3>2. Worth(positions') = (Worth(positions) - positions[t]) + 0
      BY <2>1, <2>4, WorthOfTrade DEF SellCommit
    <3>. QED BY <1>1, <2>1, <2>3, <3>1, <3>2 DEF MoneyConserved, Equity, Invested
  <2>5. CASE BuyCommit(t)
    <3>1. account'.cash = account.cash - (engine.weight - positions[t])
      BY <2>1, <2>2, <2>5 DEF BuyCommit, Cost
    <3>2. Worth(positions') = (Worth(positions) - positions[t]) + engine.weight
      BY <2>1, <2>5, WorthOfTrade DEF BuyCommit
    <3>. QED BY <1>1, <2>1, <2>3, <3>1, <3>2 DEF MoneyConserved, Equity, Invested
  <2>. QED BY <2>4, <2>5
<1>. QED BY <1>2, <1>3

\* A deposit that does not overlap brings a month's contribution and its row.
LEMMA DepositConserves ==
  ASSUME TypeOK, MoneyConserved, NEW c \in Callers, DepositCommit(c)
  PROVE  MoneyConserved'
<1>1. positions' = positions /\ history \in History /\ account \in Account
  BY DEF DepositCommit, TypeOK, holdings
<1>2. CASE Conflict(deposit[c])
  BY <1>1, <1>2 DEF DepositCommit, MoneyConserved, Equity, Invested
<1>3. CASE ~Conflict(deposit[c])
  <2> DEFINE d == deposit[c]
  <2>1. /\ history' = [history EXCEPT !.raced = @ \/ Overlaps(c)]
        /\ account' = Credited(d) /\ allowances' = allowances \cup {d.month}
    BY <1>3 DEF DepositCommit
  <2>2. history'.raced = (history.raced \/ Overlaps(c)) /\ history'.base = history.base
    BY <1>1, <2>1 DEF History
  <2>3. CASE history'.raced
    BY <2>3 DEF MoneyConserved
  <2>4. CASE ~history'.raced
    <3>1. d.row = account /\ ~history.raced
      BY <2>2, <2>4 DEF Overlaps
    <3>2. account'.cash = account.cash + Contribution /\ account.cash \in Nat
      BY <1>1, <2>1, <3>1 DEF Credited, Account
    <3>3. Cardinality(allowances') = Cardinality(allowances) + 1
          /\ Cardinality(allowances) \in Nat
      <4>1. d.month \notin allowances
        BY <1>3 DEF Conflict
      <4>. QED BY <2>1, <4>1, MonthsFinite, FS_AddElement DEF TypeOK
    <3>4. Worth(positions) \in Nat /\ history.base \in Nat /\ Contribution \in Nat
      BY WorthNat, ConstantAssumption DEF TypeOK, History
    <3>5. Contribution * Cardinality(allowances')
            = Contribution * Cardinality(allowances) + Contribution
      BY <3>3, <3>4
    <3>6. Contribution * Cardinality(allowances) \in Nat
      BY <3>3, <3>4
    <3>7. account.cash + Worth(positions) = history.base + Contribution * Cardinality(allowances)
      BY <3>1 DEF MoneyConserved, Equity, Invested
    <3>. QED BY <1>1, <2>2, <3>2, <3>4, <3>5, <3>6, <3>7 DEF MoneyConserved, Equity, Invested
  <2>. QED BY <2>3, <2>4
<1>. QED BY <1>2, <1>3

LEMMA NothingFunded == Contribution * Cardinality({}) = 0
BY FS_EmptySet, ConstantAssumption

\* What the wipe takes away the replay has to bring back.
LEMMA BackfillConserves ==
  ASSUME TypeOK, ReadInv, ReplayInv, MoneyConserved, WipeCommit \/ PersistCommit
  PROVE  MoneyConserved'
<1> USE DEF Elsewhere, calendar, db, holdings, bounds
<1>1. history \in History /\ account \in Account /\ engine \in EngineState
  BY DEF TypeOK
<1>2. CASE WipeCommit
  <2>1. /\ positions' = Nothing /\ allowances' = {}
        /\ history'.base = 0 /\ history'.raced = history.raced
    BY <1>1, <1>2 DEF WipeCommit, NoRows, History
  <2>2. ~history.raced => account'.cash = 0
    <3> SUFFICES ASSUME ~history.raced PROVE account'.cash = 0
      OBVIOUS
    <3>1. engine.row = account
      BY <1>2 DEF WipeCommit, ReadInv
    <3>2. account' = Cleared(account)
      BY <1>2, <3>1 DEF WipeCommit
    <3>. QED BY <1>1, <3>2 DEF Cleared, Column, Account
  <2>. QED BY <2>1, <2>2, WorthOfNothing, NothingFunded DEF MoneyConserved, Equity, Invested
<1>3. CASE PersistCommit /\ (history.raced \/ engine.funded \cap allowances # {})
  BY <1>3 DEF PersistCommit, MoneyConserved, Equity, Invested
<1>4. CASE PersistCommit /\ ~history.raced /\ engine.funded \cap allowances = {}
  <2>1. /\ engine.row = account /\ account.cash = 0 /\ allowances = {} /\ history.base = 0
        /\ engine.cash + Worth(engine.shares) = Contribution * Cardinality(engine.funded)
    BY <1>4 DEF PersistCommit, ReadInv, ReplayInv
  <2>2. positions' = engine.shares /\ allowances' = engine.funded /\ history' = history
    BY <1>4, <2>1 DEF PersistCommit
  <2>3. account'.cash = Column(engine.row.cash, engine.cash, account.cash)
    BY <1>1, <1>4 DEF PersistCommit, Account
  <2>4. account'.cash = engine.cash
    BY <2>1, <2>3 DEF Column
  <2>5. engine.cash \in Nat /\ Worth(engine.shares) \in Nat
    BY <1>1, WorthNat DEF EngineState
  <2>. QED BY <2>1, <2>2, <2>4, <2>5 DEF MoneyConserved, Equity, Invested
<1>. QED BY <1>2, <1>3, <1>4

LEMMA ResetConserves ==
  ASSUME Reset
  PROVE  MoneyConserved'
<1>1. account'.cash = StartCash /\ positions' = Nothing /\ allowances' = {}
      /\ history'.base = StartCash
  BY DEF Reset, ResetAccount, FreshAccount, NoRows, NoHistory
<1>. QED BY <1>1, WorthOfNothing, NothingFunded, ConstantAssumption
      DEF MoneyConserved, Equity, Invested

LEMMA MoneyKept ==
  ASSUME TypeOK, Inv, ReadInv, ReplayInv, MoneyConserved, Next
  PROVE  MoneyConserved'
<1> USE DEF Elsewhere, calendar, db, holdings, bounds
<1>1. account \in Account /\ history \in History
  BY DEF TypeOK
<1>2. ASSUME UNCHANGED <<positions, allowances>>, account'.cash = account.cash,
             history'.base = history.base, history'.raced = history.raced
      PROVE  MoneyConserved'
  BY <1>2 DEF MoneyConserved, Equity, Invested
<1>3. ASSUME NEW c \in Callers, DepositRead(c) PROVE MoneyConserved'
  BY <1>2, <1>3 DEF DepositRead
<1>4. CASE RebalanceStart \/ BackfillStart
  BY <1>2, <1>4 DEF RebalanceStart, BackfillStart
<1>5. CASE Decide
  <2>1. CASE UNCHANGED <<account, history>>
    BY <1>2, <1>5, <2>1 DEF Decide
  <2>2. CASE ~UNCHANGED <<account, history>>
    <3>1. /\ account' = [account EXCEPT !.rebalanceMonth = engine.month]
          /\ history' = [history EXCEPT !.decisions[engine.month] = @ + 1]
          /\ UNCHANGED <<positions, allowances>>
      BY <1>5, <2>2 DEF Decide
    <3>2. account'.cash = account.cash
      BY <1>1, <3>1 DEF Account
    <3>3. history'.base = history.base /\ history'.raced = history.raced
      BY <1>1, <3>1 DEF History
    <3>. QED BY <1>2, <3>1, <3>2, <3>3
  <2>. QED BY <2>1, <2>2
<1>6. ASSUME NEW t \in Tickers, SellRead(t) \/ BuyRead(t) PROVE MoneyConserved'
  BY <1>2, <1>6 DEF SellRead, BuyRead
<1>7. CASE Weigh \/ Value \/ MarkRebalance \/ WipeRead \/ Replay \/ PersistRead
  BY <1>2, <1>7 DEF Weigh, Value, MarkRebalance, WipeRead, Replay, PersistRead
<1>8. CASE SnapshotRead
  <2>1. account'.cash = account.cash
    BY <1>1, <1>8 DEF SnapshotRead, Account
  <2>. QED BY <1>2, <1>8, <2>1 DEF SnapshotRead
<1>9. CASE SnapshotCommit \/ TickLocal \/ TickUtc \/ Crash \/ Fail
  BY <1>2, <1>9 DEF SnapshotCommit, TickLocal, TickUtc, Crash, Fail
<1>. QED BY <1>3, <1>4, <1>5, <1>6, <1>7, <1>8, <1>9, DepositConserves, TradeConserves,
            BackfillConserves, ResetConserves DEF Next, Rebalance, Backfill

\* The two that write a mark read its cash and its rows under the lock.
LEMMA MarkTaken ==
  ASSUME TypeOK, Inv, ReadInv, MoneyConserved, MarkRebalance \/ SnapshotCommit
  PROVE  SnapshotIsWhole'
<1>1. history' = history
  BY DEF MarkRebalance, SnapshotCommit
<1>2. CASE history.raced
  BY <1>1, <1>2 DEF SnapshotIsWhole
<1>3. CASE ~history.raced
  <2>1. mark' = MarkOf(account.cash)
    BY <1>3 DEF MarkRebalance, SnapshotCommit, ReadInv
  <2>2. mark'.equity = account.cash + Invested /\ mark'.funded = Cardinality(allowances)
    BY <2>1 DEF MarkOf
  <2>. QED BY <1>1, <1>3, <2>2 DEF SnapshotIsWhole, MoneyConserved, Equity
<1>. QED BY <1>2, <1>3

LEMMA SnapshotKept ==
  ASSUME TypeOK, Inv, ReadInv, ReplayInv, MoneyConserved, SnapshotIsWhole, Next
  PROVE  SnapshotIsWhole'
<1> USE DEF Elsewhere, calendar, db, holdings, bounds
<1>1. history \in History
  BY DEF TypeOK
<1>2. ASSUME mark' = mark, history'.base = history.base, history.raced => history'.raced
      PROVE  SnapshotIsWhole'
  BY <1>2 DEF SnapshotIsWhole
<1>3. ASSUME NEW c \in Callers, DepositRead(c) \/ DepositCommit(c) PROVE SnapshotIsWhole'
  <2>1. mark' = mark
    BY <1>3 DEF DepositRead, DepositCommit
  <2>2. history' = history \/ history' = [history EXCEPT !.raced = @ \/ Overlaps(c)]
    BY <1>3 DEF DepositRead, DepositCommit
  <2>3. history'.base = history.base /\ (history.raced => history'.raced)
    BY <1>1, <2>2 DEF History
  <2>. QED BY <1>2, <2>1, <2>3
<1>4. CASE Decide
  <2>1. mark' = mark
    BY <1>4 DEF Decide
  <2>2. history' = history \/ history' = [history EXCEPT !.decisions[engine.month] = @ + 1]
    BY <1>4 DEF Decide
  <2>3. history'.base = history.base /\ history'.raced = history.raced
    BY <1>1, <2>2 DEF History
  <2>. QED BY <1>2, <2>1, <2>3
<1>5. CASE \/ RebalanceStart \/ BackfillStart \/ Weigh \/ Value \/ WipeRead \/ Replay
           \/ PersistRead
  BY <1>2, <1>5 DEF RebalanceStart, BackfillStart, Weigh, Value, WipeRead, Replay, PersistRead
<1>6. ASSUME NEW t \in Tickers, SellRead(t) \/ SellCommit(t) \/ BuyRead(t) \/ BuyCommit(t)
      PROVE  SnapshotIsWhole'
  BY <1>2, <1>6 DEF SellRead, SellCommit, BuyRead, BuyCommit
<1>7. CASE SnapshotRead \/ TickLocal \/ TickUtc \/ Crash \/ Fail
  BY <1>2, <1>7 DEF SnapshotRead, TickLocal, TickUtc, Crash, Fail
<1>8. CASE WipeCommit \/ Reset
  <2>1. mark' = NoMark
    BY <1>8 DEF WipeCommit, Reset, NoRows
  <2>. QED BY <2>1 DEF SnapshotIsWhole
<1>9. CASE PersistCommit
  <2>1. CASE engine.funded \cap allowances # {}
    BY <1>2, <1>9, <2>1 DEF PersistCommit
  <2>2. CASE engine.funded \cap allowances = {}
    <3>1. /\ history' = history
          /\ mark'.equity = Cardinality(engine.window) * Contribution
          /\ mark'.funded = Cardinality(engine.window)
      BY <1>9, <2>2 DEF PersistCommit
    <3>2. ~history.raced => history.base = 0
      BY <1>9 DEF PersistCommit, ReplayInv
    <3>3. /\ Cardinality(engine.window) \in Nat /\ Contribution \in Nat
          /\ Cardinality(engine.window) * Contribution = Contribution * Cardinality(engine.window)
          /\ Contribution * Cardinality(engine.window) \in Nat
      BY MonthsFinite, ConstantAssumption DEF TypeOK, EngineState
    <3>. QED BY <3>1, <3>2, <3>3 DEF SnapshotIsWhole
  <2>. QED BY <2>1, <2>2
<1>. QED BY <1>3, <1>4, <1>5, <1>6, <1>7, <1>8, <1>9, MarkTaken DEF Next, Rebalance, Backfill

-----------------------------------------------------------------------------
(* The theorems.                                                           *)

Whole == TypeOK /\ Inv /\ ReadInv /\ TradeInv /\ ReplayInv /\ MoneyConserved /\ SnapshotIsWhole

LEMMA InitWhole == Init => Whole
<1> SUFFICES ASSUME Init PROVE Whole
  OBVIOUS
<1>1. TypeOK
  BY InitTypeOK
<1>2. Inv
  BY InitInv DEF Inv, Init, SnapInv
<1>3. ReadInv /\ TradeInv /\ ReplayInv
  BY DEF Init, ReadInv, TradeInv, ReplayInv, Idle
<1>4. MoneyConserved
  <2>1. account.cash = StartCash /\ positions = Nothing /\ allowances = {}
        /\ history.base = StartCash
    BY DEF Init, NoAccount, FreshAccount, NoHistory
  <2>. QED BY <2>1, WorthOfNothing, NothingFunded, ConstantAssumption
        DEF MoneyConserved, Equity, Invested
<1>5. SnapshotIsWhole
  BY DEF Init, SnapshotIsWhole
<1>. QED BY <1>1, <1>2, <1>3, <1>4, <1>5 DEF Whole

LEMMA NextWhole == Whole /\ [Next]_vars => Whole'
<1> SUFFICES ASSUME Whole, [Next]_vars PROVE Whole'
  OBVIOUS
<1>1. TypeOK /\ Inv /\ ReadInv /\ TradeInv /\ ReplayInv /\ MoneyConserved /\ SnapshotIsWhole
  BY DEF Whole
<1>2. Inv'
  BY <1>1, NextKeeps
<1>3. CASE UNCHANGED vars
  <2> USE <1>3 DEF vars, calendar, db, holdings, bounds
  <2>1. TypeOK'
    BY <1>1 DEF TypeOK
  <2>2. ReadInv' /\ TradeInv' /\ ReplayInv'
    BY <1>1 DEF ReadInv, TradeInv, ReplayInv, Held, Cost
  <2>3. MoneyConserved' /\ SnapshotIsWhole'
    BY <1>1 DEF MoneyConserved, SnapshotIsWhole, Equity, Invested
  <2>. QED BY <1>2, <2>1, <2>2, <2>3 DEF Whole
<1>4. CASE Next
  <2>1. DecisionInv
    BY <1>1 DEF Inv
  <2>2. TypeOK'
    BY <1>1, <1>4, <2>1, NextTypes
  <2>3. ReadInv' /\ TradeInv' /\ ReplayInv'
    BY <1>1, <1>4, ReadKept, TradeKept, ReplayKept
  <2>4. MoneyConserved' /\ SnapshotIsWhole'
    BY <1>1, <1>4, MoneyKept, SnapshotKept
  <2>. QED BY <1>2, <2>2, <2>3, <2>4 DEF Whole
<1>. QED BY <1>3, <1>4

LEMMA WholeCorrect == Spec => []Whole
BY InitWhole, NextWhole, PTL DEF Spec

\* Every variable keeps its type; in particular cash never goes below zero.
THEOREM TypeCorrect == Spec => []TypeOK
<1>1. Whole => TypeOK
  BY DEF Whole
<1>. QED BY <1>1, WholeCorrect, PTL

\* Sells, buys, deposits, backfills, resets, failures and crashes create no
\* money and lose none, unless a deposit overlapped with another operation.
THEOREM MoneyIsConserved == Spec => []MoneyConserved
<1>1. Whole => MoneyConserved
  BY DEF Whole
<1>. QED BY <1>1, WholeCorrect, PTL

\* A mark on the equity curve is worth its own "contributed" figure.
THEOREM SnapshotsAreWhole == Spec => []SnapshotIsWhole
<1>1. Whole => SnapshotIsWhole
  BY DEF Whole
<1>. QED BY <1>1, WholeCorrect, PTL

\* A rebalance that reaches its end holds picks only, and has its audit row.
THEOREM RebalanceEndsSold == Spec => DroppedNamesSold
<1>1. Whole /\ [Next]_vars =>
        [engine.stage = "mark" /\ engine'.stage = "idle" /\ crashes' = crashes =>
           Held' \subseteq engine.picks /\ engine.month \in decided']_vars
  <2> SUFFICES ASSUME Whole, Next, engine.stage = "mark", engine'.stage = "idle",
                      crashes' = crashes
               PROVE  Held' \subseteq engine.picks /\ engine.month \in decided'
    OBVIOUS
  <2> USE DEF Elsewhere, calendar, db, holdings, bounds
  <2>1. Held \subseteq engine.picks /\ engine.month \in decided
    BY DEF Whole, TradeInv
  <2>2. engine \in EngineState /\ crashes \in Nat /\ lock = "engine"
    BY ConstantAssumption DEF Whole, TypeOK, Inv, LockInv
  <2>3. UNCHANGED <<positions, decided>>
    <3>1. ASSUME NEW c \in Callers, DepositRead(c) \/ DepositCommit(c)
          PROVE  UNCHANGED <<positions, decided>>
      BY <3>1 DEF DepositRead, DepositCommit
    <3>2. ~Crash /\ ~Fail
      BY <2>2 DEF Crash, Fail
    <3>3. ~RebalanceStart /\ ~BackfillStart /\ ~Reset
      BY <2>2 DEF RebalanceStart, BackfillStart, Reset, Acquire, Admitted
    <3>4. ~Decide /\ ~Weigh /\ ~Value /\ ~WipeRead /\ ~WipeCommit /\ ~Replay /\ ~PersistRead
          /\ ~PersistCommit
      BY DEF Decide, Weigh, Value, WipeRead, WipeCommit, Replay, PersistRead, PersistCommit
    <3>5. ASSUME NEW t \in Tickers
          PROVE  ~SellRead(t) /\ ~SellCommit(t) /\ ~BuyRead(t) /\ ~BuyCommit(t)
      BY DEF SellRead, SellCommit, BuyRead, BuyCommit
    <3>6. CASE MarkRebalance \/ SnapshotRead \/ SnapshotCommit \/ TickLocal \/ TickUtc
      BY <3>6 DEF MarkRebalance, SnapshotRead, SnapshotCommit, TickLocal, TickUtc
    <3>. QED BY <3>1, <3>2, <3>3, <3>4, <3>5, <3>6 DEF Next, Rebalance, Backfill
  <2>. QED BY <2>1, <2>3 DEF Held
<1>. QED BY <1>1, WholeCorrect, PTL DEF Spec, DroppedNamesSold

\* A backfill that ends undisturbed leaves exactly what it replayed.
THEOREM BackfillEndsReplaced == Spec => BackfillReplaces
<1>1. Whole /\ [Next]_vars =>
        [engine.stage = "persisting" /\ engine'.stage = "idle" /\ crashes' = crashes
           /\ ~history.raced =>
           /\ positions' = engine.shares
           /\ account'.cash = engine.cash
           /\ allowances' = engine.funded]_vars
  <2> SUFFICES ASSUME Whole, Next, engine.stage = "persisting", engine'.stage = "idle",
                      crashes' = crashes, ~history.raced
               PROVE  /\ positions' = engine.shares
                      /\ account'.cash = engine.cash
                      /\ allowances' = engine.funded
    OBVIOUS
  <2> USE DEF Elsewhere, calendar, db, holdings, bounds
  <2>1. engine.row = account /\ account.cash = 0 /\ allowances = {} /\ account \in Account
    BY DEF Whole, TypeOK, ReadInv, ReplayInv
  <2>2. /\ engine \in EngineState /\ crashes \in Nat /\ lock = "engine"
        /\ deposit[Engine] # NoDeposit => engine.stage = "deposit"
    BY ConstantAssumption DEF Whole, TypeOK, Inv, LockInv
  <2>3. PersistCommit
    <3>1. ASSUME NEW c \in Callers PROVE ~DepositRead(c) /\ ~DepositCommit(c)
      BY <2>2 DEF DepositRead, DepositCommit
    <3>2. ~Crash /\ ~Fail
      BY <2>2 DEF Crash, Fail
    <3>3. ~RebalanceStart /\ ~BackfillStart /\ ~Reset
      BY <2>2 DEF RebalanceStart, BackfillStart, Reset, Acquire, Admitted
    <3>4. ~Decide /\ ~Weigh /\ ~Value /\ ~MarkRebalance /\ ~WipeRead /\ ~WipeCommit
          /\ ~Replay /\ ~PersistRead
      BY DEF Decide, Weigh, Value, MarkRebalance, WipeRead, WipeCommit, Replay, PersistRead
    <3>5. ASSUME NEW t \in Tickers
          PROVE  ~SellRead(t) /\ ~SellCommit(t) /\ ~BuyRead(t) /\ ~BuyCommit(t)
      BY DEF SellRead, SellCommit, BuyRead, BuyCommit
    <3>6. ~SnapshotRead /\ ~SnapshotCommit /\ ~TickLocal /\ ~TickUtc
      BY DEF SnapshotRead, SnapshotCommit, TickLocal, TickUtc
    <3>. QED BY <3>1, <3>2, <3>3, <3>4, <3>5, <3>6 DEF Next, Rebalance, Backfill
  <2>4. positions' = engine.shares /\ allowances' = engine.funded
    BY <2>1, <2>3 DEF PersistCommit
  <2>5. account'.cash = Column(engine.row.cash, engine.cash, account.cash)
    BY <2>1, <2>3 DEF PersistCommit, Account
  <2>. QED BY <2>1, <2>4, <2>5 DEF Column
<1>. QED BY <1>1, WholeCorrect, PTL DEF Spec, BackfillReplaces
=============================================================================
