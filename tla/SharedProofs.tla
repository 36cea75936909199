---------------------------- MODULE SharedProofs ----------------------------
(* What the portfolios share, for every value of the constants: the stored  *)
(* ranking and the protection signal (DailySignal), the limiter in front of *)
(* the metered provider (Market, as Fetch, which keeps Quota) and the event *)
(* loop that runs them side by side (Service, as Loop, which keeps          *)
(* Schedule).  The three have nothing to do with each other; Fetch and Loop *)
(* are instances because they name some of their parts alike.  What they    *)
(* assume of their constants is the hypothesis of each of their theorems:   *)
(* Fetch!Settings and Loop!Calendar.                                        *)
EXTENDS DailySignal, Quota, Schedule, FiniteLemmas, SequenceTheorems

CONSTANTS Workers, Tickers, MaxAge, LastTick
VARIABLES now, limiter, worker, freshAt
Fetch == INSTANCE Market

CONSTANTS Users, LastTickDay, MaxRequests, MaxCrashes
VARIABLES lock, spent
Loop == INSTANCE Service WITH LastDay <- LastTickDay

-----------------------------------------------------------------------------
(* Types.                                                                  *)

LEMMA Constants ==
  /\ Confirm \in Nat /\ Confirm > 0 /\ LastDay \in Nat /\ LastDay > 0
  /\ MaxSwitches \in Nat /\ MaxModes \in Nat /\ MaxCycles \in Nat /\ MaxRestarts \in Nat
  /\ Cycle \notin Readers /\ Cycle \in Callers /\ Readers \subseteq Callers
  /\ "off" \in Gates /\ "off" \in Gradients
  /\ Absent \notin Gates /\ Absent \notin Gradients
  /\ NoRanking.by \in Selection
BY ConstantAssumption DEF Callers, Absent, NoRanking, Selection

LEMMA LegacyModes ==
  \A old \in Legacy \cup {Absent} : LegacyGate(old) \in Gates /\ LegacyGradient(old) \in Gradients
BY ConstantAssumption DEF LegacyGate, LegacyGradient, Absent

\* Whatever a file holds, the modes it stands for are modes.
LEMMA ModesTyped ==
  ASSUME NEW f \in File
  PROVE  GateOf(f) \in Gates /\ GradientOf(f) \in Gradients
BY LegacyModes DEF GateOf, GradientOf, Paired, File

LEMMA NothingTyped ==
  /\ NotCalling \in CallerState /\ NoCycle \in CycleState /\ NoRanking \in Ranking
  /\ Quiet \in Signal /\ 0 \in Streak
BY Constants DEF NotCalling, CallerState, NoCycle, CycleState, NoRanking, Ranking, Quiet,
  Signal,
  Streak

LEMMA LockTyped ==
  /\ Cardinality({}) <= 1
  /\ \A c \in Callers : {c} \in SUBSET Callers /\ Cardinality({c}) <= 1
<1>1. Cardinality({}) = 0 /\ \A c : Cardinality({c}) = 1
  BY FS_EmptySet, FS_Singleton
<1>. QED BY <1>1

LEMMA InitTyped == Init => TypeOK
<1> SUFFICES ASSUME Init PROVE TypeOK
  OBVIOUS
<1>1. file \in File
  <2>1. PICK gate \in Gates, gradient \in Gradients, old \in Legacy :
          \E modes \in {<<Absent, Absent, old>>, <<gate, gradient, Absent>>} :
            file = [selected |-> NoRanking.by, gate |-> modes[1], gradient |-> modes[2],
                    legacy |-> modes[3], chain |-> {}, closes |-> 0, neg |-> 0, pos |-> 0,
                    out |-> FALSE]
    BY DEF Init
  <2>2. PICK a \in Gates \cup {Absent}, b \in Gradients \cup {Absent}, c \in Legacy \cup {Absent} :
          file = [selected |-> NoRanking.by, gate |-> a, gradient |-> b,
                  legacy |-> c, chain |-> {}, closes |-> 0, neg |-> 0, pos |-> 0,
                  out |-> FALSE]
    <3>1. PICK modes \in {<<Absent, Absent, old>>, <<gate, gradient, Absent>>} :
            file = [selected |-> NoRanking.by, gate |-> modes[1], gradient |-> modes[2],
                    legacy |-> modes[3], chain |-> {}, closes |-> 0, neg |-> 0, pos |-> 0,
                    out |-> FALSE]
      BY <2>1
    <3>2. /\ modes[1] \in Gates \cup {Absent} /\ modes[2] \in Gradients \cup {Absent}
          /\ modes[3] \in Legacy \cup {Absent}
      BY <3>1
    <3>. QED BY <3>1, <3>2
  <2>. QED BY <2>2, Constants, NothingTyped DEF File
<1>2. count \in Counts /\ day \in Days
  BY Constants DEF Init, Counts, Days
<1>3. history \in History
  BY NothingTyped DEF Init, History
<1>4. caller \in [Callers -> CallerState] /\ cycle \in CycleState /\ ranking \in Ranking
  BY NothingTyped DEF Init
<1>. QED BY <1>1, <1>2, <1>3, <1>4, LockTyped DEF Init, TypeOK

LEMMA QueueTypes ==
  ASSUME TypeOK, NEW c \in Callers, Read(c) \/ TargetsEnter(c) \/ TargetsRank(c) \/ TargetsEmpty(c)
  PROVE  TypeOK'
<1> USE DEF market
<1>1. /\ caller \in [Callers -> CallerState] /\ file.selected \in Selection
      /\ cycle \in CycleState /\ ranking.by \in Selection
  BY DEF TypeOK, File, Ranking
<1>2. caller' \in [Callers -> CallerState]
  <2>1. [caller EXCEPT ![c].at = "queued"] \in [Callers -> CallerState]
    BY <1>1 DEF CallerState
  <2>2. [caller EXCEPT ![c].at = "loading", ![c].by.universe = file.selected.universe]
          \in [Callers -> CallerState]
    BY ZenonT(30), <1>1 DEF CallerState, Selection
  <2>3. [caller EXCEPT ![c].at = "ranking", ![c].by.variant = file.selected.variant]
          \in [Callers -> CallerState]
    BY ZenonT(30), <1>1 DEF CallerState, Selection
  <2>4. [caller EXCEPT ![c] = NotCalling] \in [Callers -> CallerState]
    BY <1>1, NothingTyped
  <2>. QED BY <2>1, <2>2, <2>3, <2>4 DEF Read, TargetsEnter, TargetsRank, TargetsEmpty, Leave
<1>3. targets' \in SUBSET Callers /\ Cardinality(targets') <= 1
  BY LockTyped DEF Read, TargetsEnter, TargetsRank, TargetsEmpty, TypeOK
<1>4. cycle' \in CycleState
  <2>1. [cycle EXCEPT !.at = "priced", !.band = ranking.by] \in CycleState
    BY <1>1 DEF CycleState
  <2>. QED BY <1>1, <2>1, NothingTyped DEF Read, TargetsEnter, TargetsRank, TargetsEmpty
<1>. QED BY <1>2, <1>3, <1>4 DEF Read, TargetsEnter, TargetsRank, TargetsEmpty, TypeOK

LEMMA StoreTypes ==
  ASSUME TypeOK, NEW c \in Callers, TargetsStore(c)
  PROVE  TypeOK'
<1> USE DEF market
<1>1. caller[c].by \in Selection /\ cycle \in CycleState /\ day \in 0..LastDay /\ history \in History
  BY Constants DEF TypeOK, CallerState, Days
<1>2. caller' \in [Callers -> CallerState]
  BY NothingTyped DEF TargetsStore, Leave, TypeOK
<1>3. ranking' \in Ranking
  BY <1>1 DEF TargetsStore, Ranking
<1>4. cycle' \in CycleState
  BY <1>1 DEF TargetsStore, CycleState
<1>5. history' \in History
  BY <1>1 DEF TargetsStore, History
<1>. QED BY <1>2, <1>3, <1>4, <1>5, LockTyped DEF TargetsStore, TypeOK

LEMMA CycleTypes ==
  ASSUME TypeOK, CycleStart \/ ReadModes
  PROVE  TypeOK'
<1> USE DEF market
<1>1. CASE CycleStart
  <2>1. count' \in Counts
    <3>1. count \in Counts /\ count.cycles \in 0..MaxCycles
      BY DEF TypeOK, Counts
    <3>2. (IF MaxCycles = 0 THEN 0 ELSE count.cycles + 1) \in 0..MaxCycles
      BY <1>1, <3>1, Constants DEF CycleStart
    <3>. QED BY <1>1, <3>1, <3>2 DEF CycleStart, Counts
  <2>2. cycle' \in CycleState
    BY <1>1, NothingTyped DEF CycleStart, CycleState
  <2>3. caller' \in [Callers -> CallerState]
    BY <1>1 DEF CycleStart, TypeOK, CallerState
  <2>. QED BY <1>1, <2>1, <2>2, <2>3 DEF CycleStart, TypeOK
<1>2. CASE ReadModes
  <2>1. GateOf(file) \in Gates /\ GradientOf(file) \in Gradients
    BY ModesTyped DEF TypeOK
  <2>2. [cycle EXCEPT !.at = "protect", !.gate = GateOf(file), !.gradient = GradientOf(file)]
          \in CycleState
    BY <2>1 DEF TypeOK, CycleState
  <2>3. cycle' \in CycleState
    BY <1>2, <2>2, NothingTyped DEF ReadModes
  <2>. QED BY <1>2, <2>3 DEF ReadModes, TypeOK
<1>. QED BY <1>1, <1>2

-----------------------------------------------------------------------------
(* The rule.                                                               *)

LEMMA AtMostTyped == \A n \in Streak : AtMost(n + 1) \in Streak
BY Constants DEF AtMost, Streak

LEMMA CountedTyped ==
  ASSUME NEW g \in Signal, NEW sign \in Signs
  PROVE  Counted(g, sign) \in Signal /\ Counted(g, sign).out = g.out
BY AtMostTyped, NothingTyped DEF Counted, Signal

LEMMA FlippedTyped ==
  ASSUME NEW g \in Signal, NEW armed \in BOOLEAN
  PROVE  Flipped(g, armed) \in Signal
<1>1. (IF g.out THEN g.pos < Confirm ELSE armed /\ g.neg >= Confirm) \in BOOLEAN
  <2>1. CASE g.out
    BY <2>1
  <2>2. CASE ~g.out
    BY <2>2
  <2>. QED BY <2>1, <2>2
<1>. QED BY <1>1 DEF Flipped, Signal

LEMMA EvaluatedTyped ==
  ASSUME NEW g \in Signal, NEW sign \in Signs, NEW armed \in BOOLEAN
  PROVE  Evaluated(g, sign, armed) \in Signal
BY CountedTyped, FlippedTyped DEF Evaluated

\* A choice between two truth values, written as a disjunction.
LEMMA BooleanChoice ==
  \A out, armed, high, low \in BOOLEAN :
    ((~out /\ armed /\ low) \/ (out /\ ~high)) = (IF out THEN ~high ELSE armed /\ low)
<1> SUFFICES ASSUME NEW out \in BOOLEAN, NEW armed \in BOOLEAN, NEW high \in BOOLEAN,
                    NEW low \in BOOLEAN
             PROVE  ((~out /\ armed /\ low) \/ (out /\ ~high)) = (IF out THEN ~high ELSE armed /\ low)
  OBVIOUS
<1>1. CASE out = TRUE
  BY <1>1
<1>2. CASE out = FALSE
  BY <1>2
<1>. QED BY <1>1, <1>2

\* The engine's rule and the replay's, written independently, agree on every
\* close.
LEMMA ReplayedCloseIsEvaluated ==
  ASSUME NEW g \in Signal, NEW sign \in Signs, NEW armed \in BOOLEAN
  PROVE  ReplayedClose(g, sign, armed) = Evaluated(g, sign, armed)
<1> DEFINE neg == CASE sign < 0 -> AtMost(g.neg + 1) [] sign > 0 -> 0 [] OTHER -> g.neg
           pos == CASE sign < 0 -> 0 [] sign > 0 -> AtMost(g.pos + 1) [] OTHER -> g.pos
           h == Counted(g, sign)
           e == Evaluated(g, sign, armed)
           r == ReplayedClose(g, sign, armed)
           out == IF g.out THEN pos < Confirm ELSE armed /\ neg >= Confirm
           replayed == \/ ~g.out /\ armed /\ neg >= Confirm
                       \/ g.out /\ ~(pos >= Confirm)
<1>1. h.neg = neg /\ h.pos = pos /\ h.out = g.out /\ h \in Signal
  <2>1. /\ h.neg = IF sign < 0 THEN AtMost(g.neg + 1) ELSE IF sign > 0 THEN 0 ELSE g.neg
        /\ h.pos = IF sign > 0 THEN AtMost(g.pos + 1) ELSE IF sign < 0 THEN 0 ELSE g.pos
    BY DEF Counted, Signal
  <2>2. h.out = g.out /\ h \in Signal
    BY CountedTyped
  <2>3. ~(sign < 0 /\ sign > 0)
    BY DEF Signs
  <2>. HIDE DEF h
  <2>. QED BY <2>1, <2>2, <2>3
<1>2. e = [h EXCEPT !.out = IF h.out THEN h.pos < Confirm ELSE armed /\ h.neg >= Confirm]
  BY DEF Evaluated, Flipped
<1>3. r = [neg |-> neg, pos |-> pos, out |-> replayed]
  BY DEF ReplayedClose
<1>. HIDE DEF h, e, r, neg, pos
<1>4. e = [neg |-> neg, pos |-> pos, out |-> out]
  BY <1>1, <1>2 DEF Signal
<1>5. replayed = out
  <2>1. neg \in Int /\ pos \in Int /\ Confirm \in Int
    BY <1>1, Constants DEF Signal, Streak
  <2>2. g.out \in BOOLEAN /\ (pos < Confirm) = ~(pos >= Confirm)
    BY <2>1 DEF Signal
  <2>. QED BY <2>2, BooleanChoice
<1>6. e = r
  BY <1>3, <1>4, <1>5
<1>. QED BY <1>6 DEF e, r
LEMMA SignalTyped ==
  ASSUME NEW f \in File
  PROVE  SignalOf(f) \in Signal
BY DEF SignalOf, Signal, File

LEMMA ForgottenTyped == TypeOK => Forgotten \in History
BY NothingTyped DEF TypeOK, Forgotten, History

LEMMA RuleTypes ==
  ASSUME TypeOK
  PROVE  /\ Decision(file) \in File
         /\ Noted \in History
<1>1. /\ file \in File /\ slope \in Signs /\ above \in BOOLEAN /\ day \in 0..LastDay
      /\ cycle.band \in Selection /\ history.ref \in Signal
      /\ Armed(cycle.gradient) \in BOOLEAN /\ SignalOf(file) \in Signal
  BY SignalTyped, Constants DEF TypeOK, CycleState, History, Armed, Days
<1>2. /\ Evaluated(SignalOf(file), slope, Armed(cycle.gradient)) \in Signal
      /\ Evaluated(history.ref, slope, Armed(cycle.gradient)) \in Signal
  BY <1>1, EvaluatedTyped
<1>3. Decision(file) \in File
  <2> DEFINE g == IF cycle.gradient = "off" THEN Quiet
                  ELSE Evaluated(SignalOf(file), slope, Armed(cycle.gradient))
             chain == IF file.closes < day THEN file.chain \cup {cycle.band} ELSE file.chain
  <2>1. g \in Signal
    BY <1>2, NothingTyped
  <2>2. g.neg \in Streak /\ g.pos \in Streak /\ g.out \in BOOLEAN
    BY <2>1 DEF Signal
  <2>3. chain \in SUBSET Selection
    BY <1>1 DEF File
  <2>4. Decision(file) = [file EXCEPT !.chain = chain, !.closes = day, !.neg = g.neg,
                                      !.pos = g.pos, !.out = g.out]
    BY DEF Decision
  <2>. HIDE DEF g, chain
  <2>. QED BY <1>1, <2>2, <2>3, <2>4 DEF File
<1>4. Noted \in History
  <2>1. history \in History /\ Forgotten \in History
    BY ForgottenTyped DEF TypeOK
  <2>2. ReplayedClose(history.ref, slope, Armed(cycle.gradient)) \in Signal
    BY <1>1, <1>2, ReplayedCloseIsEvaluated
  <2>. QED BY <2>1, <2>2 DEF Noted, History
<1>. QED BY <1>3, <1>4

\* What an operator makes of a file is a file.
LEMMA FilesTyped ==
  ASSUME NEW f \in File
  PROVE  /\ WithoutBasket(f) \in File
         /\ \A s \in Selection : Selected(f, s) \in File
         /\ \A mode \in Gates : WithGate(f, mode) \in File
         /\ \A mode \in Gradients : WithGradient(f, mode) \in File
<1>1. \A h \in File : WithoutBasket(h) \in File
  <2>1. 0 \in 0..LastDay /\ 0 \in Streak /\ {} \in SUBSET Selection
    BY Constants, NothingTyped
  <2>. QED BY <2>1 DEF WithoutBasket, File
<1>2. \A s \in Selection : [f EXCEPT !.selected = s] \in File
  BY DEF File
<1>3. GateOf(f) \in Gates /\ GradientOf(f) \in Gradients
  BY ModesTyped
<1>4. \A mode \in Gates : WithGate(f, mode) \in File
  BY <1>3 DEF WithGate, File
<1>5. \A mode \in Gradients : WithGradient(f, mode) \in File
  BY <1>3 DEF WithGradient, File
<1>. QED BY <1>1, <1>2, <1>4, <1>5 DEF Selected

LEMMA OperatorTypes ==
  ASSUME TypeOK, \/ Decide \/ \E s \in Selection : Select(s)
                 \/ ChangeMode \/ ResetBasket
  PROVE  TypeOK'
<1> USE DEF market
<1>1. file \in File /\ count \in Counts /\ history \in History
  BY DEF TypeOK
<1>2. CASE Decide
  <2>2. file' \in File /\ history' \in History /\ cycle' \in CycleState
    BY <1>1, <1>2, RuleTypes, NothingTyped DEF Decide
  <2>. QED BY <1>2, <2>2 DEF Decide, TypeOK
<1>3. ASSUME NEW s \in Selection, Select(s) PROVE TypeOK'
  <2>1. count' \in Counts
    BY <1>1, <1>3, Constants DEF Select, Counts
  <2>2. file' \in File /\ history' \in History
    <3>1. (cycle.at # "idle") \in BOOLEAN
      OBVIOUS
    <3>. QED BY <1>1, <1>3, <3>1, FilesTyped, ForgottenTyped DEF Select, History
  <2>. QED BY <1>3, <2>1, <2>2 DEF Select, TypeOK
<1>4. CASE ChangeMode
  <2>1. count' \in Counts
    BY <1>1, <1>4, Constants DEF ChangeMode, Counts
  <2>2. file' \in File /\ history' \in History
    <3>1. (SignalOf(file) # Quiet) \in BOOLEAN
      OBVIOUS
    <3>. QED BY <1>1, <1>4, <3>1, FilesTyped, ForgottenTyped DEF ChangeMode, History
  <2>. QED BY <1>4, <2>1, <2>2 DEF ChangeMode, TypeOK
<1>5. CASE ResetBasket
  <2>2. file' \in File /\ history' \in History
    BY <1>1, <1>5, FilesTyped, ForgottenTyped DEF ResetBasket, History
  <2>. QED BY <1>5, <2>2 DEF ResetBasket, TypeOK
<1>. QED BY <1>2, <1>3, <1>4, <1>5

LEMMA EnvironmentTypes ==
  ASSUME TypeOK, DropRanking \/ Tick \/ Restart
  PROVE  TypeOK'
<1> USE DEF market
<1>1. count \in Counts /\ history \in History
  BY DEF TypeOK
<1>2. CASE DropRanking
  <2>1. history' \in History /\ ranking' \in Ranking
    BY <1>1, <1>2, NothingTyped DEF DropRanking, History
  <2>. QED BY <1>2, <2>1 DEF DropRanking, TypeOK
<1>3. CASE Tick
  <2>1. history' \in History
    BY <1>1, <1>3 DEF Tick, History
  <2>3. 0 \in 0..MaxCycles
    BY Constants
  <2>4. count' \in Counts
    BY <1>1, <1>3, <2>3 DEF Tick, Counts
  <2>2. day' \in Days
    BY <1>3, Constants DEF Tick, TypeOK, Days
  <2>. QED BY <1>3, <2>1, <2>2, <2>4 DEF Tick, TypeOK
<1>4. CASE Restart
  <2>1. count' \in Counts
    BY <1>1, <1>4, Constants DEF Restart, Counts
  <2>2. caller' \in [Callers -> CallerState] /\ cycle' \in CycleState
    BY <1>4, NothingTyped DEF Restart
  <2>. QED BY <1>4, <2>1, <2>2, LockTyped DEF Restart, TypeOK
<1>. QED BY <1>2, <1>3, <1>4

LEMMA TypeStep == TypeOK /\ [Next]_vars => TypeOK'
<1> SUFFICES ASSUME TypeOK, [Next]_vars PROVE TypeOK'
  OBVIOUS
<1>1. CASE UNCHANGED vars
  BY <1>1 DEF vars, market, TypeOK
<1>2. ASSUME NEW c \in Callers, Read(c) \/ ComputeTargets(c) PROVE TypeOK'
  BY <1>2, QueueTypes, StoreTypes DEF ComputeTargets
<1>. QED BY <1>1, <1>2, CycleTypes, OperatorTypes, EnvironmentTypes DEF Next

\* Whatever the operator, the status requests, the cycles and the restarts do,
\* the state file, the stored ranking and every caller's progress keep the
\* shapes the code reads them with.
THEOREM TypeCorrect == Spec => []TypeOK
<1>. QED BY InitTyped, TypeStep, PTL DEF Spec
-----------------------------------------------------------------------------
(* One ranking per need.                                                   *)

LEMMA QueueInit == Init => QueueInv /\ RankedOnce
BY DEF Init, QueueInv, RankedOnce, NotCalling

\* Under the lock a status request looks again: what it finds missing was not
\* stored.
LEMMA EnterQueue ==
  ASSUME TypeOK, QueueInv, RankedOnce, NEW c \in Callers, TargetsEnter(c)
  PROVE  QueueInv' /\ RankedOnce'
<1>1. caller \in [Callers -> CallerState] /\ history.stored \in Nat /\ Readers \subseteq Callers
  BY Constants DEF TypeOK, History
<1>2. /\ history' = history /\ ranking' = ranking /\ day' = day /\ targets = {}
      /\ \A k \in Callers : caller[k].at \notin {"loading", "ranking"}
      /\ \A k \in Callers : k # c => caller'[k] = caller[k]
  BY <1>1 DEF TargetsEnter, QueueInv, Leave, market
<1>3. CASE Served(c)
  <2>1. caller'[c].at = "idle" /\ targets' = {}
    BY <1>1, <1>2, <1>3 DEF TargetsEnter, Leave, NotCalling
  <2>. QED BY <1>1, <1>2, <2>1 DEF QueueInv, RankedOnce, Fresh, Stored
<1>4. CASE ~Served(c)
  <2>1. targets' = {c}
    BY <1>4 DEF TargetsEnter
  <2>2. c \in Readers => history.stored = 0
    BY <1>1, <1>4, Constants DEF Served, QueueInv
  <2>. QED BY <1>1, <1>2, <2>1, <2>2 DEF QueueInv, RankedOnce, Fresh, Stored
<1>. QED BY <1>3, <1>4

LEMMA StoreQueue ==
  ASSUME TypeOK, QueueInv, RankedOnce, NEW c \in Callers, TargetsStore(c)
  PROVE  QueueInv' /\ RankedOnce'
<1>1. /\ caller \in [Callers -> CallerState] /\ history \in History /\ history.stored \in Nat
      /\ day \in Nat /\ day > 0 /\ Readers \subseteq Callers
  BY Constants DEF TypeOK, History, Days
<1>2. \A k \in Callers : caller'[k].at \notin {"loading", "ranking"}
  <2>1. targets = {c}
    BY DEF TargetsStore, QueueInv
  <2>2. \A k \in Callers : k # c => caller[k].at \notin {"loading", "ranking"}
    BY <2>1 DEF QueueInv
  <2>3. caller'[c].at = "idle" /\ \A k \in Callers : k # c => caller'[k] = caller[k]
    BY <1>1 DEF TargetsStore, Leave, NotCalling
  <2>. QED BY <2>2, <2>3
<1>3. ranking'.at = day /\ day' = day
  BY DEF TargetsStore, market
<1>4. history'.stored = IF c = Cycle THEN history.stored ELSE history.stored + 1
  BY <1>1 DEF TargetsStore, History
<1>5. c # Cycle => history.stored = 0
  BY DEF TargetsStore, QueueInv, Callers
<1>6. Fresh'
  BY <1>1, <1>3 DEF Fresh, Stored
<1>. QED BY <1>1, <1>2, <1>4, <1>5, <1>6 DEF QueueInv, RankedOnce

LEMMA QueueStep == TypeOK /\ QueueInv /\ RankedOnce /\ [Next]_vars => QueueInv' /\ RankedOnce'
<1> SUFFICES ASSUME TypeOK, QueueInv, RankedOnce, [Next]_vars PROVE QueueInv' /\ RankedOnce'
  OBVIOUS
<1> USE DEF market
<1>1. /\ caller \in [Callers -> CallerState] /\ history \in History /\ Readers \subseteq Callers
      /\ Cycle \in Callers
  BY Constants DEF TypeOK
<1>2. CASE UNCHANGED vars
  BY <1>2 DEF vars, QueueInv, RankedOnce, Fresh, Stored
<1>3. ASSUME NEW c \in Callers, Read(c) PROVE QueueInv' /\ RankedOnce'
  <2>1. caller'[c].at = "queued" /\ \A k \in Callers : k # c => caller'[k] = caller[k]
    BY <1>1, <1>3 DEF Read, CallerState
  <2>. QED BY <1>1, <1>3, <2>1 DEF Read, QueueInv, RankedOnce, Fresh, Stored
<1>4. ASSUME NEW c \in Callers, TargetsRank(c) PROVE QueueInv' /\ RankedOnce'
  <2>1. \A k \in Callers : k # c => caller'[k] = caller[k]
    BY <1>1, <1>4 DEF TargetsRank
  <2>. QED BY <1>1, <1>4, <2>1 DEF TargetsRank, QueueInv, RankedOnce, Fresh, Stored
<1>5. ASSUME NEW c \in Callers, TargetsEmpty(c) PROVE QueueInv' /\ RankedOnce'
  <2>1. targets = {c}
    BY <1>5 DEF TargetsEmpty, QueueInv
  <2>2. \A k \in Callers : caller'[k].at \notin {"loading", "ranking"}
    BY <1>1, <1>5, <2>1 DEF TargetsEmpty, Leave, NotCalling, QueueInv
  <2>. QED BY <1>1, <1>5, <2>2 DEF TargetsEmpty, QueueInv, RankedOnce, Fresh, Stored
<1>6. CASE CycleStart
  <2>1. caller'[Cycle].at = "queued" /\ \A k \in Callers : k # Cycle => caller'[k] = caller[k]
    BY <1>1, <1>6 DEF CycleStart, CallerState
  <2>. QED BY <1>1, <1>6, <2>1 DEF CycleStart, QueueInv, RankedOnce, Fresh, Stored
<1>7. CASE ReadModes
  BY <1>7 DEF ReadModes, QueueInv, RankedOnce, Fresh, Stored
<1>8. CASE \/ Decide \/ \E s \in Selection : Select(s)
           \/ ChangeMode \/ ResetBasket
  <2>1. history'.stored = history.stored
    BY <1>1, <1>8 DEF Decide, Noted, Select, ChangeMode, ResetBasket, Forgotten, History
  <2>2. UNCHANGED <<day, ranking, caller, targets>>
    BY <1>8 DEF Decide, Select, ChangeMode, ResetBasket
  <2>. QED BY <2>1, <2>2 DEF QueueInv, RankedOnce, Fresh, Stored
<1>9. CASE DropRanking \/ Tick
  <2>1. history'.stored = 0 /\ UNCHANGED <<caller, targets>>
    BY <1>1, <1>9 DEF DropRanking, Tick, History
  <2>. QED BY <2>1 DEF QueueInv, RankedOnce
<1>10. CASE Restart
  <2>1. \A k \in Callers : caller'[k].at = "idle"
    BY <1>10 DEF Restart, NotCalling
  <2>. QED BY <1>1, <1>10, <2>1 DEF Restart, QueueInv, RankedOnce, Fresh, Stored
<1>. QED BY <1>2, <1>3, <1>4, <1>5, <1>6, <1>7, <1>8, <1>9, <1>10, EnterQueue, StoreQueue
       DEF Next, ComputeTargets

\* Between two invalidations of the ranking, and within a day, the status
\* requests that find none rank once: whoever waited for the lock takes the
\* winner's ranking, whatever cycles, switches and restarts come between.
THEOREM OneRankingPerNeed == Spec => []RankedOnce
<1>1. Init => TypeOK /\ QueueInv /\ RankedOnce
  BY InitTyped, QueueInit
<1>2. TypeOK /\ QueueInv /\ RankedOnce /\ [Next]_vars => (TypeOK /\ QueueInv /\ RankedOnce)'
  BY TypeStep, QueueStep
<1>. QED BY <1>1, <1>2, PTL DEF Spec

-----------------------------------------------------------------------------
(* The live signal and the replay's.                                       *)

\* Neither a reset nor a decision touches the modes; both know what they make
\* of the signal.
LEMMA ModesKept ==
  ASSUME NEW f \in File
  PROVE  /\ GradientOf(WithoutBasket(f)) = GradientOf(f) /\ SignalOf(WithoutBasket(f)) = Quiet
         /\ \A s \in Selection :
              GradientOf(Selected(f, s)) = GradientOf(f) /\ SignalOf(Selected(f, s)) = Quiet
         /\ GradientOf(Decision(f)) = GradientOf(f)
         /\ SignalOf(Decision(f)) = IF cycle.gradient = "off" THEN Quiet
                                    ELSE Evaluated(SignalOf(f), slope, Armed(cycle.gradient))
         /\ \A mode : SignalOf(WithGate(f, mode)) = SignalOf(f)
                     /\ SignalOf(WithGradient(f, mode)) = SignalOf(f)
<1> USE DEF GradientOf, Paired, SignalOf, File
<1>1. GradientOf(WithoutBasket(f)) = GradientOf(f) /\ SignalOf(WithoutBasket(f)) = Quiet
  BY DEF WithoutBasket, Quiet
<1>2. ASSUME NEW s \in Selection
      PROVE  GradientOf(Selected(f, s)) = GradientOf(f) /\ SignalOf(Selected(f, s)) = Quiet
  BY DEF Selected, WithoutBasket, Quiet
<1>3. GradientOf(Decision(f)) = GradientOf(f)
  BY DEF Decision
<1>4. SignalOf(Decision(f)) = IF cycle.gradient = "off" THEN Quiet
                              ELSE Evaluated(SignalOf(f), slope, Armed(cycle.gradient))
  <2> DEFINE g == IF cycle.gradient = "off" THEN Quiet
                  ELSE Evaluated([neg |-> f.neg, pos |-> f.pos, out |-> f.out], slope,
                                 Armed(cycle.gradient))
  <2>1. g = [neg |-> g.neg, pos |-> g.pos, out |-> g.out]
    BY DEF Quiet, Evaluated, Flipped, Counted
  <2>2. Decision(f).neg = g.neg /\ Decision(f).pos = g.pos /\ Decision(f).out = g.out
    BY DEF Decision
  <2>3. g = IF cycle.gradient = "off" THEN Quiet
            ELSE Evaluated([neg |-> f.neg, pos |-> f.pos, out |-> f.out], slope,
                           Armed(cycle.gradient))
    OBVIOUS
  <2>. HIDE DEF g
  <2>. QED BY <2>1, <2>2, <2>3
<1>5. \A mode : SignalOf(WithGate(f, mode)) = SignalOf(f)
               /\ SignalOf(WithGradient(f, mode)) = SignalOf(f)
  BY DEF WithGate, WithGradient
<1>. QED BY <1>1, <1>2, <1>3, <1>4, <1>5

LEMMA ReplayInit == Init => SignalMatchesReplay
BY DEF Init, SignalMatchesReplay, SignalOf, Quiet

LEMMA ReplayStep ==
  ASSUME TypeOK, SignalMatchesReplay, [Next]_vars
  PROVE  SignalMatchesReplay'
<1> USE DEF market
<1>1. file \in File /\ history \in History
  BY DEF TypeOK
<1>2. CASE /\ file' = file /\ history'.ref = history.ref
           /\ history'.repeated = history.repeated /\ history'.frozen = history.frozen
  BY <1>2 DEF SignalMatchesReplay, SignalOf
<1>3. ASSUME NEW c \in Callers, Read(c) \/ ComputeTargets(c)
      PROVE  /\ file' = file /\ history'.ref = history.ref
             /\ history'.repeated = history.repeated /\ history'.frozen = history.frozen
  BY <1>1, <1>3 DEF Read, ComputeTargets, TargetsEnter, TargetsRank, TargetsEmpty, TargetsStore,
    History
<1>4. CASE \/ UNCHANGED vars \/ CycleStart \/ ReadModes
           \/ DropRanking \/ Tick \/ Restart
  BY <1>1, <1>2, <1>4 DEF vars, CycleStart, ReadModes, DropRanking, Tick, Restart, History
<1>5. CASE Decide
  <2>1. CASE UNCHANGED <<file, history>>
    BY <1>2, <2>1
  <2>2. CASE file' = Decision(file) /\ history' = Noted
    <3>1. CASE cycle.gradient = "off"
      <4>1. SignalOf(file)' = Quiet
        BY <1>1, <2>2, <3>1, ModesKept
      <4>2. history'.ref = Quiet
        BY <1>1, <2>2, <3>1 DEF Noted, Forgotten, History
      <4>. QED BY <4>1, <4>2 DEF SignalMatchesReplay
    <3>2. CASE cycle.gradient # "off" /\ history.evaluated
      BY <1>1, <2>2, <3>2 DEF Noted, SignalMatchesReplay, History
    <3>3. CASE cycle.gradient # "off" /\ ~history.evaluated
      <4>1. /\ history'.ref = ReplayedClose(history.ref, slope, Armed(cycle.gradient))
            /\ history'.repeated = history.repeated /\ history'.frozen = history.frozen
        BY <1>1, <2>2, <3>3 DEF Noted, History
      <4>2. SignalOf(file)' = Evaluated(SignalOf(file), slope, Armed(cycle.gradient))
        BY <1>1, <2>2, <3>3, ModesKept
      <4>3. slope \in Signs /\ Armed(cycle.gradient) \in BOOLEAN /\ history.ref \in Signal
        BY <1>1 DEF TypeOK, Armed, History
      <4>. QED BY <4>1, <4>2, <4>3, ReplayedCloseIsEvaluated DEF SignalMatchesReplay
    <3>. QED BY <3>1, <3>2, <3>3
  <2>. QED BY <1>5, <2>1, <2>2 DEF Decide
<1>6. CASE ResetBasket \/ \E s \in Selection : Select(s)
  <2>1. SignalOf(file)' = Quiet
    BY <1>1, <1>6, ModesKept DEF ResetBasket, Select
  <2>2. history'.ref = Quiet
    BY <1>1, <1>6 DEF ResetBasket, Select, Forgotten, History
  <2>. QED BY <2>1, <2>2 DEF SignalMatchesReplay
<1>7. CASE ChangeMode
  <2>1. SignalOf(file)' = SignalOf(file)
    BY <1>1, <1>7, ModesKept DEF ChangeMode
  <2>2. CASE GradientOf(file) = "off"
    <3>1. history'.ref = Quiet /\ history'.frozen = (SignalOf(file) # Quiet)
      BY <1>1, <1>7, <2>2 DEF ChangeMode, Forgotten, History
    <3>. QED BY <2>1, <3>1 DEF SignalMatchesReplay
  <2>3. CASE GradientOf(file) # "off"
    BY <1>1, <1>7, <2>1, <2>3 DEF ChangeMode, SignalMatchesReplay
  <2>. QED BY <2>2, <2>3
<1>. QED BY <1>3, <1>2, <1>4, <1>5, <1>6, <1>7 DEF Next

\* The streaks and the cash-out flag kept in the state file are those the
\* backfill's replay derives from the same closes, whatever cycles, selections,
\* changes of the modes, resets, failures and restarts come between, until a
\* close is evaluated again or the gradient is switched on over frozen streaks.
THEOREM LiveSignalIsReplayed == Spec => []SignalMatchesReplay
<1>1. Init => TypeOK /\ SignalMatchesReplay
  BY InitTyped, ReplayInit
<1>2. TypeOK /\ SignalMatchesReplay /\ [Next]_vars => (TypeOK /\ SignalMatchesReplay)'
  BY TypeStep, ReplayStep
<1>. QED BY <1>1, <1>2, PTL DEF Spec

-----------------------------------------------------------------------------
(* The basket's chain.                                                     *)

BandAndChain == BandInv /\ ChainOfOneBasket

LEMMA BandInit == Init => BandAndChain
<1> SUFFICES ASSUME Init PROVE BandAndChain
  OBVIOUS
<1>1. caller[Cycle] = NotCalling /\ cycle = NoCycle /\ file.chain = {}
  BY Constants DEF Init, Callers
<1>. QED BY <1>1 DEF BandAndChain, BandInv, ChainOfOneBasket, NotCalling, NoCycle

\* What the cycle has read of the selection is the running one, and so is what
\* it folds into the chain.
LEMMA BandStep ==
  ASSUME TypeOK, BandAndChain, [Next]_vars
  PROVE  BandAndChain'
<1> USE DEF market
<1>1. /\ file \in File /\ history \in History /\ cycle \in CycleState
      /\ caller \in [Callers -> CallerState] /\ Cycle \in Callers /\ Cycle \notin Readers
      /\ BandInv /\ ChainOfOneBasket
  BY Constants DEF TypeOK, BandAndChain, Callers
<1>2. CASE UNCHANGED vars
  BY <1>1, <1>2 DEF vars, BandAndChain, BandInv, ChainOfOneBasket
<1>3. CASE /\ file'.chain = file.chain /\ file'.selected = file.selected
           /\ history'.late = history.late /\ BandInv'
  BY <1>1, <1>3 DEF BandAndChain, ChainOfOneBasket
<1>4. ASSUME NEW c \in Callers, Read(c) \/ ComputeTargets(c) PROVE BandAndChain'
  <2>1. file' = file /\ history'.late = history.late
    BY <1>1, <1>4 DEF Read, ComputeTargets, TargetsEnter, TargetsRank, TargetsEmpty,
      TargetsStore, History
  <2>2. CASE c # Cycle
    <3>1. caller'[Cycle] = caller[Cycle] /\ cycle' = cycle
      BY <1>1, <1>4, <2>2 DEF Read, ComputeTargets, TargetsEnter, TargetsRank, TargetsEmpty,
        TargetsStore, Leave
    <3>. QED BY <1>1, <1>3, <2>1, <3>1 DEF BandInv
  <2>3. CASE TargetsEnter(Cycle)
    <3>1. /\ cycle' = cycle /\ caller[Cycle].at = "queued" /\ caller'[Cycle].at = "loading"
          /\ caller'[Cycle].by.universe = file.selected.universe
      BY <1>1, <2>3 DEF TargetsEnter, Served, CallerState, Selection
    <3>. QED BY <1>1, <1>3, <2>1, <3>1 DEF BandInv
  <2>4. CASE TargetsRank(Cycle)
    <3>1. /\ cycle' = cycle /\ caller[Cycle].at = "loading" /\ caller'[Cycle].at = "ranking"
          /\ caller'[Cycle].by = [caller[Cycle].by EXCEPT !.variant = file.selected.variant]
      BY <1>1, <2>4 DEF TargetsRank, CallerState
    <3>2. ~history.late => caller'[Cycle].by = file.selected
      BY <1>1, <3>1 DEF BandInv, CallerState, Selection, File
    <3>. QED BY <1>1, <1>3, <2>1, <3>1, <3>2 DEF BandInv
  <2>5. CASE TargetsEmpty(Cycle)
    <3>1. cycle'.at = "idle" /\ caller'[Cycle].at = "idle"
      BY <1>1, <2>5 DEF TargetsEmpty, Leave, NotCalling, NoCycle
    <3>. QED BY <1>3, <2>1, <3>1 DEF BandInv
  <2>6. CASE TargetsStore(Cycle)
    <3>1. /\ caller[Cycle].at = "ranking" /\ caller'[Cycle].at = "idle"
          /\ cycle'.band = caller[Cycle].by
      BY <1>1, <2>6 DEF TargetsStore, Leave, NotCalling, CycleState
    <3>. QED BY <1>1, <1>3, <2>1, <3>1 DEF BandInv
  <2>. QED BY <1>1, <1>4, <2>2, <2>3, <2>4, <2>5, <2>6 DEF Read, ComputeTargets
<1>5. CASE CycleStart
  <2>1. /\ cycle'.at = "targets" /\ caller'[Cycle].at = "queued"
        /\ file' = file /\ history' = history
    BY <1>1, <1>5 DEF CycleStart, NoCycle, CallerState
  <2>. QED BY <1>3, <2>1 DEF BandInv
<1>6. CASE ReadModes
  <2>1. /\ cycle.at = "priced" /\ caller' = caller /\ file' = file /\ history' = history
        /\ cycle'.at # "idle" => cycle'.at = "protect" /\ cycle'.band = cycle.band
    BY <1>1, <1>6 DEF ReadModes, NoCycle, CycleState
  <2>. QED BY <1>1, <1>3, <2>1 DEF BandInv
<1>7. CASE Decide
  <2>1. cycle.at = "protect" /\ cycle'.at = "idle" /\ caller' = caller
    BY <1>7 DEF Decide, NoCycle
  <2>2. caller[Cycle].at = "idle"
    BY <1>1, <2>1 DEF BandInv
  <2>3. history'.late = history.late
    BY <1>1, <1>7 DEF Decide, Noted, Forgotten, History
  <2>4. file'.selected = file.selected /\ file'.chain \subseteq file.chain \cup {cycle.band}
    BY <1>1, <1>7 DEF Decide, Decision, File
  <2>5. BandInv'
    BY <2>1, <2>2 DEF BandInv
  <2>. QED BY <1>1, <2>1, <2>3, <2>4, <2>5 DEF BandAndChain, BandInv, ChainOfOneBasket
<1>8. ASSUME NEW s \in Selection, Select(s) PROVE BandAndChain'
  <2>1. /\ file'.chain = {} /\ UNCHANGED <<caller, cycle>>
        /\ history'.late = (cycle.at # "idle")
    BY <1>1, <1>8 DEF Select, Selected, WithoutBasket, Forgotten, History, File
  <2>. QED BY <1>1, <2>1 DEF BandAndChain, BandInv, ChainOfOneBasket
<1>9. CASE ResetBasket
  <2>1. /\ file'.chain = {} /\ UNCHANGED <<caller, cycle>> /\ cycle.at = "idle"
    BY <1>1, <1>9 DEF ResetBasket, WithoutBasket, File
  <2>. QED BY <1>1, <2>1 DEF BandAndChain, BandInv, ChainOfOneBasket
<1>10. CASE DropRanking \/ ChangeMode \/ Tick
  <2>1. /\ file'.chain = file.chain /\ file'.selected = file.selected
        /\ history'.late = history.late /\ UNCHANGED <<caller, cycle>>
    BY <1>1, <1>10 DEF DropRanking, ChangeMode, Tick, Forgotten, History, WithGate, WithGradient,
      File
  <2>. QED BY <1>1, <1>3, <2>1 DEF BandInv
<1>11. CASE Restart
  <2>1. /\ caller'[Cycle].at = "idle" /\ cycle'.at = "idle" /\ file' = file
        /\ history' = history
    BY <1>1, <1>11 DEF Restart, NotCalling, NoCycle
  <2>. QED BY <1>3, <2>1 DEF BandInv
<1>. QED BY <1>2, <1>4, <1>5, <1>6, <1>7, <1>8, <1>9, <1>10, <1>11 DEF Next

\* The chain the gradient's slope is read from never mixes two selections'
\* bands, whatever cycles, switches, resets, failures and restarts come between,
\* unless the last switch fell into a running cycle.
THEOREM ChainHasOneBasket == Spec => []ChainOfOneBasket
<1>1. Init => TypeOK /\ BandAndChain
  BY InitTyped, BandInit
<1>2. TypeOK /\ BandAndChain /\ [Next]_vars => (TypeOK /\ BandAndChain)'
  BY TypeStep, BandStep
<1>3. BandAndChain => ChainOfOneBasket
  BY DEF BandAndChain
<1>. QED BY <1>1, <1>2, <1>3, PTL DEF Spec

-----------------------------------------------------------------------------
(* Fetch: days and windows.                                                *)

LEMMA FetchMax == \A S : Fetch!Max(S) = Max(S)
BY DEF Fetch!Max, Max

LEMMA DaysGoOn ==
  ASSUME Fetch!Settings, NEW s \in Nat, NEW t \in Nat, s <= t
  PROVE  Fetch!Day(s) \in Nat /\ Fetch!Day(s) <= Fetch!Day(t)
BY DivMonotone DEF Fetch!Settings, Fetch!Day

\* What is taken off the window is its beginning, and all of it is old.
LEMMA WindowCut ==
  ASSUME NEW q \in Seq(Nat), now \in Nat, Fetch!Settings
  PROVE  /\ Fetch!Expired(q) \in 0..Len(q)
         /\ \A i \in 1..Fetch!Expired(q) : now - q[i] >= Minute
         /\ Fetch!InWindow(q) \in Seq(Nat)
         /\ Len(Fetch!InWindow(q)) = Len(q) - Fetch!Expired(q)
         /\ \A j \in 1..Len(Fetch!InWindow(q)) : Fetch!InWindow(q)[j] = q[Fetch!Expired(q) + j]
<1> DEFINE S == {k \in 0..Len(q) : \A i \in 1..k : now - q[i] >= Minute}
<1>1. Len(q) \in Nat
  OBVIOUS
<1>2. IsFiniteSet(S) /\ S # {} /\ S \in SUBSET Nat
  <2>1. IsFiniteSet(0..Len(q))
    BY <1>1, 0 \in Int, Len(q) \in Int, FS_Interval
  <2>2. 0 \in S /\ S \subseteq 0..Len(q)
    BY <1>1
  <2>3. S \in SUBSET Nat
    BY <1>1
  <2>. HIDE DEF S
  <2>. QED BY <2>1, <2>2, <2>3, FS_Subset
<1>3. Max(S) \in S
  <2>. HIDE DEF S
  <2>. QED BY <1>2, MaxOfFinite
<1>4. Fetch!Expired(q) = Max(S)
  BY FetchMax DEF Fetch!Expired
<1>5. Fetch!Expired(q) \in 0..Len(q) /\ \A i \in 1..Fetch!Expired(q) : now - q[i] >= Minute
  BY <1>3, <1>4
<1>6. \A i \in (Fetch!Expired(q) + 1)..Len(q) : q[i] \in Nat
  BY <1>1, <1>5
<1>7. Fetch!Expired(q) + 1 \in Int /\ Len(q) \in Int
  BY <1>1, <1>5
<1>. HIDE DEF S
<1>8. /\ Fetch!InWindow(q) \in Seq(Nat)
      /\ Len(Fetch!InWindow(q)) = IF Fetch!Expired(q) + 1 <= Len(q) THEN Len(q) - (Fetch!Expired(q) + 1) + 1 ELSE 0
      /\ \A i \in 1..(Len(q) - (Fetch!Expired(q) + 1) + 1) : Fetch!InWindow(q)[i] = q[Fetch!Expired(q) + 1 + i - 1]
  BY <1>6, <1>7, SubSeqProperties DEF Fetch!InWindow
<1>9. Len(Fetch!InWindow(q)) = Len(q) - Fetch!Expired(q)
  BY <1>1, <1>5, <1>8
<1>10. \A j \in 1..Len(Fetch!InWindow(q)) : Fetch!InWindow(q)[j] = q[Fetch!Expired(q) + j]
  <2> SUFFICES ASSUME NEW j \in 1..Len(Fetch!InWindow(q)) PROVE Fetch!InWindow(q)[j] = q[Fetch!Expired(q) + j]
    OBVIOUS
  <2>1. Len(q) - (Fetch!Expired(q) + 1) + 1 = Len(q) - Fetch!Expired(q) /\ Fetch!Expired(q) + 1 + j - 1 = Fetch!Expired(q) + j
    BY <1>1, <1>5, <1>9
  <2>. QED BY <1>8, <1>9, <2>1
<1>. QED BY <1>5, <1>8, <1>9, <1>10

\* What Counts says of the limiter, of any sequences and numbers: of the n
\* calls g made until t, the last u were made today, and the last k are c.
Tally(g, n, c, k, u, t) ==
  /\ k <= u /\ u <= n
  /\ \A j \in 1..k : c[j] = g[n - k + j]
  /\ \A i \in 1..n : Fetch!Day(g[i]) <= Fetch!Day(t) /\ (Fetch!Day(g[i]) = Fetch!Day(t) <=> n - u < i)
  /\ \A i \in (n - u + 1)..(n - k) : t - g[i] >= Minute

LEMMA TallyCut ==
  ASSUME NEW t \in Nat, NEW n \in Nat, NEW k \in Nat, NEW u \in Nat, NEW g, NEW c, Tally(g, n, c, k, u, t),
         NEW e \in 0..k, NEW d, \A i \in 1..e : t - c[i] >= Minute, \A j \in 1..(k - e) : d[j] = c[e + j]
  PROVE  Tally(g, n, d, k - e, u, t)
<1>1. /\ k <= u /\ u <= n
      /\ \A j \in 1..k : c[j] = g[n - k + j]
      /\ \A i \in (n - u + 1)..(n - k) : t - g[i] >= Minute
  BY DEF Tally
<1>2. ASSUME NEW j \in 1..(k - e) PROVE d[j] = g[n - (k - e) + j]
  <2>1. e + j \in 1..k /\ n - k + (e + j) = n - (k - e) + j
    OBVIOUS
  <2>. QED BY <1>1, <2>1
<1>3. ASSUME NEW i \in (n - u + 1)..(n - (k - e)) PROVE t - g[i] >= Minute
  <2>1. CASE i <= n - k
    BY <1>1, <2>1
  <2>2. CASE i > n - k
    <3>1. i - (n - k) \in 1..e /\ i - (n - k) \in 1..k /\ n - k + (i - (n - k)) = i
      BY <1>1, <2>2
    <3>. QED BY <1>1, <3>1
  <2>. QED BY <1>1, <2>1, <2>2
<1>4. k - e <= u
  BY <1>1
<1>. QED BY <1>1, <1>2, <1>3, <1>4 DEF Tally

LEMMA TallyOneMore ==
  ASSUME NEW t \in Nat, NEW n \in Nat, NEW k \in Nat, NEW u \in Nat, NEW g, NEW c, Tally(g, n, c, k, u, t),
         Fetch!Day(t) \in Nat,
         NEW h, \A i \in 1..n : h[i] = g[i], h[n + 1] = t,
         NEW d, \A j \in 1..k : d[j] = c[j], d[k + 1] = t
  PROVE  Tally(h, n + 1, d, k + 1, u + 1, t)
<1>1. /\ k <= u /\ u <= n
      /\ \A j \in 1..k : c[j] = g[n - k + j]
      /\ \A i \in 1..n : Fetch!Day(g[i]) <= Fetch!Day(t) /\ (Fetch!Day(g[i]) = Fetch!Day(t) <=> n - u < i)
      /\ \A i \in (n - u + 1)..(n - k) : t - g[i] >= Minute
  BY DEF Tally
<1>2. (n + 1) - (u + 1) = n - u /\ (n + 1) - (k + 1) = n - k
  OBVIOUS
<1>3. ASSUME NEW j \in 1..(k + 1) PROVE d[j] = h[n - k + j]
  <2>1. CASE j \in 1..k
    <3>1. n - k + j \in 1..n
      BY <1>1, <2>1
    <3>. QED BY <1>1, <2>1, <3>1
  <2>2. CASE j = k + 1
    BY <2>2
  <2>. QED BY <2>1, <2>2
<1>4. ASSUME NEW i \in 1..(n + 1) PROVE Fetch!Day(h[i]) <= Fetch!Day(t) /\ (Fetch!Day(h[i]) = Fetch!Day(t) <=> n - u < i)
  <2>1. CASE i \in 1..n
    BY <1>1, <2>1
  <2>2. CASE i = n + 1
    BY <1>1, <2>2
  <2>. QED BY <2>1, <2>2
<1>5. ASSUME NEW i \in (n - u + 1)..(n - k) PROVE t - h[i] >= Minute
  <2>1. i \in 1..n
    BY <1>1
  <2>. QED BY <1>1, <2>1
<1>6. k + 1 <= u + 1 /\ u + 1 <= n + 1
  BY <1>1
<1>. QED BY <1>2, <1>3, <1>4, <1>5, <1>6 DEF Tally

\* What a quota of k calls a minute and v a day means for n calls g.
Kept(g, n, k, v) ==
  \A i \in 1..n :
    /\ i + k \in 1..n /\ Fetch!Day(g[i + k]) = Fetch!Day(g[i]) => g[i + k] - g[i] >= Minute
    /\ i + v \in 1..n => Fetch!Day(g[i + v]) # Fetch!Day(g[i])

LEMMA TallyKeeps ==
  ASSUME NEW t \in Nat, NEW n \in Nat, NEW k \in Nat, NEW u \in Nat, NEW g, NEW c, Tally(g, n, c, k, u, t),
         NEW m \in Nat \ {0}, NEW v \in Nat \ {0}, k < m, u < v, Kept(g, n, m, v),
         NEW h, \A i \in 1..n : h[i] = g[i], h[n + 1] = t
  PROVE  Kept(h, n + 1, m, v)
<1>1. /\ k <= u /\ u <= n
      /\ \A i \in 1..n : Fetch!Day(g[i]) = Fetch!Day(t) <=> n - u < i
      /\ \A i \in (n - u + 1)..(n - k) : t - g[i] >= Minute
  BY DEF Tally
<1>2. ASSUME NEW i \in 1..(n + 1), i + m \in 1..(n + 1), Fetch!Day(h[i + m]) = Fetch!Day(h[i])
      PROVE  h[i + m] - h[i] >= Minute
  <2>1. i \in 1..n /\ h[i] = g[i]
    BY <1>2
  <2>2. CASE i + m \in 1..n
    BY <1>2, <2>1, <2>2 DEF Kept
  <2>3. CASE i + m = n + 1
    <3>1. Fetch!Day(g[i]) = Fetch!Day(t) /\ h[i + m] = t
      BY <1>2, <2>1, <2>3
    <3>2. i \in (n - u + 1)..(n - k)
      BY <1>1, <2>1, <2>3, <3>1
    <3>. QED BY <1>1, <2>1, <3>1, <3>2
  <2>. QED BY <1>2, <2>2, <2>3
<1>3. ASSUME NEW i \in 1..(n + 1), i + v \in 1..(n + 1)
      PROVE  Fetch!Day(h[i + v]) # Fetch!Day(h[i])
  <2>1. i \in 1..n /\ h[i] = g[i]
    BY <1>3
  <2>2. CASE i + v \in 1..n
    BY <1>3, <2>1, <2>2 DEF Kept
  <2>3. CASE i + v = n + 1
    BY <1>1, <2>1, <2>3
  <2>. QED BY <1>3, <2>2, <2>3
<1>. QED BY <1>2, <1>3 DEF Kept

\* At midnight the limiter starts again; what it counts stays right.
LEMMA TodayCounts ==
  ASSUME Fetch!Settings, Fetch!TypeOK, Fetch!WindowInv
  PROVE  /\ Fetch!Today \in Fetch!Limits
         /\ Fetch!Today.day = Fetch!Day(now)
         /\ Fetch!Counts(Fetch!Today)
<1>1. now \in Nat /\ Fetch!Day(now) \in Nat
  BY DaysGoOn DEF Fetch!TypeOK
<1>2. CASE limiter.day = Fetch!Day(now)
  BY <1>1, <1>2 DEF Fetch!Today, Fetch!TypeOK, Fetch!WindowInv
<1>3. CASE limiter.day # Fetch!Day(now)
  <2>1. Fetch!Today = [calls |-> <<>>, day |-> Fetch!Day(now), used |-> 0]
    BY <1>3 DEF Fetch!Today
  <2>2. /\ Fetch!Today \in Fetch!Limits
        /\ Fetch!Today.calls = <<>> /\ Fetch!Today.used = 0 /\ Fetch!Today.day = Fetch!Day(now)
    BY <1>1, <2>1 DEF Fetch!Settings, Fetch!Limits, Fetch!Jobs
  <2>3. /\ Len(granted) \in Nat /\ limiter.day \in Int /\ Len(<<>>) = 0
        /\ \A i \in 1..Len(granted) : granted[i] \in Nat /\ granted[i] <= now
    <3>1. granted \in Seq(0..LastTick) /\ limiter.day \in Int
      BY DEF Fetch!TypeOK, Fetch!Limits
    <3>2. \A i \in 1..Len(granted) : granted[i] \in 0..LastTick
      BY <3>1, ElementOfSeq
    <3>4. Len(granted) \in Nat /\ Len(<<>>) = 0
      BY <3>1
    <3>3. \A i \in 1..Len(granted) : granted[i] <= now
      BY DEF Fetch!WindowInv
    <3>. QED BY <3>1, <3>2, <3>3, <3>4
  <2>4. limiter.day < Fetch!Day(now)
    BY <1>1, <1>3, <2>3 DEF Fetch!WindowInv, Fetch!Counts
  <2>5. \A i \in 1..Len(granted) : Fetch!Day(granted[i]) \in Nat /\ Fetch!Day(granted[i]) < Fetch!Day(now)
    <3> SUFFICES ASSUME NEW i \in 1..Len(granted)
                 PROVE  Fetch!Day(granted[i]) \in Nat /\ Fetch!Day(granted[i]) < Fetch!Day(now)
      OBVIOUS
    <3>1. Fetch!Day(granted[i]) \in Nat
      BY <1>1, <2>3, DaysGoOn
    <3>2. Fetch!Day(granted[i]) <= limiter.day
      BY DEF Fetch!WindowInv, Fetch!Counts
    <3>. QED BY <1>1, <2>3, <2>4, <3>1, <3>2
  <2>6. Fetch!Counts(Fetch!Today)
    BY <1>1, <2>2, <2>3, <2>5 DEF Fetch!Counts
  <2>. QED BY <2>2, <2>6
<1>. QED BY <1>2, <1>3

LEMMA FetchTyped ==
  ASSUME Fetch!Settings, Fetch!TypeOK
  PROVE  /\ now \in Nat /\ Fetch!Day(now) \in Nat /\ Len(granted) \in Nat
         /\ \A i \in 1..Len(granted) : granted[i] \in Nat
         /\ limiter.used \in Nat /\ limiter.day \in Int /\ limiter.calls \in Seq(Nat)
         /\ Len(limiter.calls) \in Nat
<1>1. now \in Nat /\ limiter \in Fetch!Limits /\ Budget \in Nat
  BY DEF Fetch!TypeOK, Fetch!Settings
<1>2. granted \in Seq(0..LastTick)
  BY DEF Fetch!TypeOK
<1>3. Len(granted) \in Nat
  BY <1>2
<1>4. \A i \in 1..Len(granted) : granted[i] \in 0..LastTick
  BY <1>2, ElementOfSeq
<1>5. Fetch!Day(now) \in Nat
  BY <1>1, DaysGoOn
<1>. QED BY <1>1, <1>3, <1>4, <1>5 DEF Fetch!Limits, Fetch!Jobs

\* Counts, of any calls g, any record l and any time t.
Records(g, l, t) ==
  LET n == Len(g)
      today == n - l.used
      old == n - Len(l.calls)
  IN  /\ 0 <= today /\ today <= old
      /\ \A j \in 1..Len(l.calls) : l.calls[j] = g[old + j]
      /\ \A i \in 1..n : Fetch!Day(g[i]) <= l.day /\ (Fetch!Day(g[i]) = l.day <=> today < i)
      /\ \A i \in (today + 1)..old : t - g[i] >= Minute
      /\ l.day <= Fetch!Day(t)

LEMMA RecordsIsTally ==
  ASSUME NEW l, NEW g, NEW t, l.day = Fetch!Day(t), Fetch!Day(t) \in Nat,
         l.used \in Nat, Len(l.calls) \in Nat, Len(g) \in Nat
  PROVE  Records(g, l, t) <=> Tally(g, Len(g), l.calls, Len(l.calls), l.used, t)
<1> DEFINE n == Len(g)
           u == l.used
           k == Len(l.calls)
<1>. HIDE DEF n, u, k
<1>1. n \in Nat /\ u \in Nat /\ k \in Nat
  BY DEF n, u, k
<1>2. (0 <= n - u <=> u <= n) /\ (n - u <= n - k <=> k <= u)
  BY <1>1
<1>3. Fetch!Day(t) <= Fetch!Day(t)
  OBVIOUS
<1>4. Records(g, l, t) <=>
        /\ 0 <= n - u /\ n - u <= n - k
        /\ \A j \in 1..k : l.calls[j] = g[n - k + j]
        /\ \A i \in 1..n : Fetch!Day(g[i]) <= Fetch!Day(t) /\ (Fetch!Day(g[i]) = Fetch!Day(t) <=> n - u < i)
        /\ \A i \in (n - u + 1)..(n - k) : t - g[i] >= Minute
  BY <1>3 DEF Records, n, u, k
<1>. QED BY <1>2, <1>4 DEF Tally, n, u, k

\* What leaves the window is counted on.
LEMMA CutCounts ==
  ASSUME Fetch!Settings, Fetch!TypeOK, Fetch!WindowInv
  PROVE  /\ Fetch!InWindow(Fetch!Today.calls) \in Seq(Nat) /\ Len(Fetch!InWindow(Fetch!Today.calls)) \in Nat
         /\ Fetch!Today.used \in 0..Budget
         /\ Tally(granted, Len(granted), Fetch!InWindow(Fetch!Today.calls), Len(Fetch!InWindow(Fetch!Today.calls)),
                  Fetch!Today.used, now)
<1> DEFINE c == Fetch!InWindow(Fetch!Today.calls)
           k == Len(Fetch!Today.calls)
           n == Len(granted)
           e == Fetch!Expired(Fetch!Today.calls)
<1>1. /\ Fetch!Today \in Fetch!Limits
      /\ Fetch!Today.day = Fetch!Day(now)
      /\ Fetch!Counts(Fetch!Today)
  BY TodayCounts
<1>2. /\ now \in Nat /\ n \in Nat /\ Fetch!Day(now) \in Nat
  BY FetchTyped
<1>3. Fetch!Today.calls \in Seq(Nat) /\ Fetch!Today.used \in 0..Budget /\ k \in Nat
  BY <1>1 DEF Fetch!Limits, Fetch!Jobs
<1>4. Fetch!Today.used \in Nat
  BY <1>3 DEF Fetch!Settings
<1>5. /\ e \in 0..k /\ \A i \in 1..e : now - Fetch!Today.calls[i] >= Minute
      /\ c \in Seq(Nat) /\ Len(c) = k - e
      /\ \A j \in 1..(k - e) : c[j] = Fetch!Today.calls[e + j]
  BY <1>2, <1>3, WindowCut
<1>6. Tally(granted, n, Fetch!Today.calls, k, Fetch!Today.used, now)
  <2>1. Records(granted, Fetch!Today, now)
    BY <1>1 DEF Records, Fetch!Counts
  <2>. QED BY <1>1, <1>2, <1>3, <1>4, <2>1, RecordsIsTally
<1>. HIDE DEF c, k, e, n
<1>7. Tally(granted, n, c, k - e, Fetch!Today.used, now)
  BY <1>2, <1>3, <1>4, <1>5, <1>6, TallyCut
<1>. QED BY <1>3, <1>5, <1>7 DEF c, n

LEMMA QuotaIsOfCalls ==
  ASSUME Fetch!TypeOK
  PROVE  Fetch!QuotaKept <=> Kept(granted, Len(granted), MaxPerMin, Budget)
<1>1. granted \in Seq(0..LastTick)
  BY DEF Fetch!TypeOK
<1>2. DOMAIN granted = 1..Len(granted)
  BY <1>1
<1>. QED BY <1>2 DEF Fetch!QuotaKept, Kept

-----------------------------------------------------------------------------
(* The steps.                                                              *)

\* The three ways out of a round of acquire.
LEMMA Acquired ==
  ASSUME Fetch!Settings, Fetch!TypeOK, Fetch!WindowInv, NEW w \in Workers, Fetch!Acquire(w)
  PROVE  LET calls == Fetch!InWindow(Fetch!Today.calls) IN
         /\ UNCHANGED <<now, freshAt>>
         /\ \/ /\ limiter' = Fetch!Today /\ granted' = granted
               /\ worker' = [worker EXCEPT ![w].at = "yahoo"]
            \/ /\ Fetch!Today.used < Budget /\ Len(calls) < MaxPerMin
               /\ limiter' = [calls |-> Append(calls, now), day |-> Fetch!Day(now), used |-> Fetch!Today.used + 1]
               /\ granted' = Append(granted, now)
               /\ worker' = [worker EXCEPT ![w].at = "metered"]
            \/ /\ limiter' = [calls |-> calls, day |-> Fetch!Day(now), used |-> Fetch!Today.used]
               /\ granted' = granted
               /\ Head(calls) \in Nat
               /\ worker' = [worker EXCEPT ![w].wake = Head(calls) + Minute]
<1> DEFINE calls == Fetch!InWindow(Fetch!Today.calls)
<1>1. /\ calls \in Seq(Nat) /\ Len(calls) \in Nat /\ Fetch!Today.used \in 0..Budget
      /\ Budget \in Nat /\ MaxPerMin \in Nat \ {0}
  BY CutCounts DEF Fetch!Settings
<1>2. Fetch!Today \in Fetch!Limits /\ Fetch!Today.day = Fetch!Day(now)
  BY TodayCounts
<1>. HIDE DEF calls
<1>3. [Fetch!Today EXCEPT !.calls = calls] = [calls |-> calls, day |-> Fetch!Day(now), used |-> Fetch!Today.used]
  BY <1>2 DEF Fetch!Limits, Fetch!Jobs
<1>4. ASSUME ~(Len(calls) < MaxPerMin) PROVE Head(calls) \in Nat
  <2>1. Len(calls) >= 1
    BY <1>1, <1>4
  <2>. QED BY <1>1, <2>1
<1>5. ~(Fetch!Today.used >= Budget) => Fetch!Today.used < Budget
  BY <1>1
<1>. QED BY <1>3, <1>4, <1>5 DEF Fetch!Acquire, Fetch!Admitted, Fetch!SlotFree, calls

LEMMA FetchTypesKept ==
  ASSUME Fetch!Settings, Fetch!TypeOK, Fetch!WindowInv, [Fetch!Next]_Fetch!vars
  PROVE  Fetch!TypeOK'
<1>1. CASE Fetch!Tick
  BY <1>1 DEF Fetch!Tick, Fetch!TypeOK, Fetch!Settings
<1>2. ASSUME NEW w \in Workers, Fetch!Start(w) PROVE Fetch!TypeOK'
  BY <1>2 DEF Fetch!Start, Fetch!TypeOK, Fetch!Jobs
<1>3. ASSUME NEW w \in Workers, Fetch!Store(w) PROVE Fetch!TypeOK'
  <2>1. freshAt' \in [Tickers -> Int]
    <3>1. freshAt \in [Tickers -> Int] /\ now \in Int
      BY DEF Fetch!TypeOK
    <3>2. freshAt' = [freshAt EXCEPT ![worker[w].ticker] = now]
      BY <1>3 DEF Fetch!Store
    <3>. QED BY <3>1, <3>2
  <2>2. worker' \in [Workers -> Fetch!Jobs]
    BY <1>3 DEF Fetch!Store, Fetch!TypeOK, Fetch!Jobs, Fetch!Idle
  <2>. QED BY <1>3, <2>1, <2>2 DEF Fetch!Store, Fetch!TypeOK
<1>4. ASSUME NEW w \in Workers, NEW ok \in BOOLEAN, Fetch!Metered(w, ok) PROVE Fetch!TypeOK'
  BY <1>4 DEF Fetch!Metered, Fetch!TypeOK, Fetch!Jobs
<1>5. ASSUME NEW w \in Workers, NEW ok \in BOOLEAN, Fetch!Yahoo(w, ok) PROVE Fetch!TypeOK'
  BY <1>5 DEF Fetch!Yahoo, Fetch!TypeOK, Fetch!Jobs, Fetch!Idle
<1>6. CASE UNCHANGED Fetch!vars
  BY <1>6 DEF Fetch!vars, Fetch!TypeOK
<1>7. ASSUME NEW w \in Workers, Fetch!Acquire(w) PROVE Fetch!TypeOK'
  <2> DEFINE calls == Fetch!InWindow(Fetch!Today.calls)
  <2>1. calls \in Seq(Nat) /\ Fetch!Today.used \in 0..Budget
    BY CutCounts
  <2>2. Fetch!Today \in Fetch!Limits
    BY TodayCounts
  <2>3. now \in Nat /\ Fetch!Day(now) \in Nat /\ now \in 0..LastTick /\ Minute \in Nat /\ Budget \in Nat
    BY FetchTyped DEF Fetch!TypeOK, Fetch!Settings
  <2>8. \/ limiter' = Fetch!Today
        \/ /\ limiter' = [calls |-> Append(calls, now), day |-> Fetch!Day(now), used |-> Fetch!Today.used + 1]
           /\ Fetch!Today.used < Budget
        \/ limiter' = [calls |-> calls, day |-> Fetch!Day(now), used |-> Fetch!Today.used]
    BY <1>7, Acquired
  <2>. HIDE DEF calls
  <2>4. limiter' \in Fetch!Limits
    <3>1. Append(calls, now) \in Seq(Nat)
      BY <2>1, <2>3
    <3>2. Fetch!Today.used < Budget => Fetch!Today.used + 1 \in 0..Budget
      BY <2>1, <2>3
    <3>3. CASE limiter' = Fetch!Today
      BY <2>2, <3>3
    <3>4. CASE /\ limiter' = [calls |-> Append(calls, now), day |-> Fetch!Day(now), used |-> Fetch!Today.used + 1]
               /\ Fetch!Today.used < Budget
      BY <2>3, <3>1, <3>2, <3>4 DEF Fetch!Limits, Fetch!Jobs
    <3>5. CASE limiter' = [calls |-> calls, day |-> Fetch!Day(now), used |-> Fetch!Today.used]
      BY <2>1, <2>3, <3>5 DEF Fetch!Limits, Fetch!Jobs
    <3>. QED BY <2>8, <3>3, <3>4, <3>5
  <2>5. granted' \in Seq(0..LastTick)
    <3>1. granted \in Seq(0..LastTick)
      BY DEF Fetch!TypeOK
    <3>2. Append(granted, now) \in Seq(0..LastTick)
      BY <2>3, <3>1
    <3>. QED BY <1>7, <3>1, <3>2, Acquired
  <2>6. worker' \in [Workers -> Fetch!Jobs]
    <3>1. worker \in [Workers -> Fetch!Jobs]
      BY DEF Fetch!TypeOK
    <3>2. Head(calls) \in Nat => Head(calls) + Minute \in Nat
      BY <2>3
    <3>3. \/ worker' = [worker EXCEPT ![w].at = "yahoo"]
          \/ worker' = [worker EXCEPT ![w].at = "metered"]
          \/ Head(calls) + Minute \in Nat /\ worker' = [worker EXCEPT ![w].wake = Head(calls) + Minute]
      BY <1>7, <3>2, Acquired DEF calls
    <3>. QED BY <3>1, <3>3 DEF Fetch!Limits, Fetch!Jobs
  <2>7. UNCHANGED <<now, freshAt>>
    BY <1>7, Acquired
  <2>. QED BY <2>4, <2>5, <2>6, <2>7 DEF Fetch!TypeOK
<1>. QED BY <1>1, <1>2, <1>3, <1>4, <1>5, <1>6, <1>7 DEF Fetch!Next, Fetch!Work, Fetch!Done

\* The calls made so far come before what the clock shows, in their order.
Ordered(g, n, t) ==
  /\ \A i \in 1..n : g[i] \in Nat /\ g[i] <= t
  /\ \A i, j \in 1..n : i <= j => g[i] <= g[j]

LEMMA OrderedOneMore ==
  ASSUME NEW t \in Nat, NEW n \in Nat, NEW g, Ordered(g, n, t),
         NEW h, \A i \in 1..n : h[i] = g[i], h[n + 1] = t
  PROVE  Ordered(h, n + 1, t)
<1>1. ASSUME NEW i \in 1..(n + 1) PROVE h[i] \in Nat /\ h[i] <= t
  <2>1. CASE i = n + 1
    BY <2>1
  <2>2. CASE i \in 1..n
    BY <2>2 DEF Ordered
  <2>. QED BY <2>1, <2>2
<1>2. ASSUME NEW i \in 1..(n + 1), NEW j \in 1..(n + 1), i <= j PROVE h[i] <= h[j]
  <2>1. CASE j = n + 1
    BY <1>1, <2>1
  <2>2. CASE j \in 1..n
    <3>1. i \in 1..n
      BY <1>2, <2>2
    <3>. QED BY <1>2, <2>2, <3>1 DEF Ordered
  <2>. QED BY <2>1, <2>2
<1>. QED BY <1>1, <1>2 DEF Ordered

\* Time going on takes nothing back, whichever day it is.
LEMMA CountsLast ==
  ASSUME Fetch!Settings, Fetch!TypeOK, Fetch!WindowInv, NEW t \in Nat, now <= t
  PROVE  /\ \A i \in ((Len(granted) - limiter.used) + 1)..(Len(granted) - Len(limiter.calls)) :
              t - granted[i] >= Minute
         /\ limiter.day <= Fetch!Day(t)
<1>1. now \in Nat /\ Fetch!Day(now) <= Fetch!Day(t) /\ Fetch!Day(now) \in Nat /\ Fetch!Day(t) \in Nat
  BY FetchTyped, DaysGoOn
<1>2. limiter.day <= Fetch!Day(t)
  BY <1>1, FetchTyped DEF Fetch!WindowInv, Fetch!Counts
<1>3. ASSUME NEW i \in ((Len(granted) - limiter.used) + 1)..(Len(granted) - Len(limiter.calls))
      PROVE  t - granted[i] >= Minute
  <2>1. now - granted[i] >= Minute /\ 0 <= Len(granted) - limiter.used
    BY DEF Fetch!WindowInv, Fetch!Counts
  <2>2. i \in 1..Len(granted)
    BY <2>1, FetchTyped
  <2>3. granted[i] \in Nat /\ Minute \in Nat
    BY <2>2, FetchTyped DEF Fetch!Settings
  <2>. QED BY <1>1, <2>1, <2>3
<1>. QED BY <1>2, <1>3

\* Appending to the calls.
LEMMA OneMore ==
  ASSUME NEW S, NEW q \in Seq(S), NEW x
  PROVE  /\ Len(q) \in Nat /\ Len(Append(q, x)) = Len(q) + 1
         /\ \A i \in 1..Len(q) : Append(q, x)[i] = q[i]
         /\ Append(q, x)[Len(q) + 1] = x
OBVIOUS

LEMMA WindowKept ==
  ASSUME Fetch!Settings, Fetch!TypeOK, Fetch!WindowInv, Fetch!QuotaKept, [Fetch!Next]_Fetch!vars, Fetch!TypeOK'
  PROVE  Fetch!WindowInv' /\ Fetch!QuotaKept'
<1>1. CASE UNCHANGED <<limiter, granted, now>>
  BY <1>1 DEF Fetch!WindowInv, Fetch!Counts, Fetch!QuotaKept, Fetch!Day
<1>2. CASE Fetch!Tick
  <2>1. now' \in Nat /\ now <= now' /\ limiter' = limiter /\ granted' = granted
    BY <1>2, FetchTyped DEF Fetch!Tick
  <2>2. Fetch!Counts(limiter)'
    BY <2>1, CountsLast DEF Fetch!WindowInv, Fetch!Counts, Fetch!Day
  <2>3. \A i \in 1..Len(granted) : granted[i] <= now'
    BY <2>1, FetchTyped DEF Fetch!WindowInv
  <2>4. Fetch!QuotaKept'
    BY <2>1 DEF Fetch!QuotaKept, Fetch!Day
  <2>. QED BY <2>1, <2>2, <2>3, <2>4 DEF Fetch!WindowInv
<1>3. ASSUME NEW w \in Workers, Fetch!Acquire(w) PROVE Fetch!WindowInv' /\ Fetch!QuotaKept'
  <2> DEFINE c == Fetch!InWindow(Fetch!Today.calls)
             k == Len(c)
             n == Len(granted)
             u == Fetch!Today.used
  <2>1. /\ c \in Seq(Nat) /\ k \in Nat /\ u \in 0..Budget
        /\ Tally(granted, n, c, k, u, now)
    BY CutCounts
  <2>2. /\ now \in Nat /\ Fetch!Day(now) \in Nat /\ n \in Nat
        /\ Budget \in Nat \ {0} /\ MaxPerMin \in Nat \ {0}
    BY FetchTyped DEF Fetch!Settings
  <2>3. u \in Nat
    BY <2>1, <2>2
  <2>4. Ordered(granted, n, now) /\ Kept(granted, n, MaxPerMin, Budget)
    BY FetchTyped, QuotaIsOfCalls DEF Fetch!WindowInv, Ordered
  <2>5. now' = now
    BY <1>3, Acquired
  <2>6. SUFFICES /\ Records(granted', limiter', now) /\ Ordered(granted', Len(granted'), now)
                 /\ Kept(granted', Len(granted'), MaxPerMin, Budget)
    <3>1. Fetch!QuotaKept' <=> Kept(granted', Len(granted'), MaxPerMin, Budget)
      <4>1. granted' \in Seq(0..LastTick)
        BY DEF Fetch!TypeOK
      <4>2. DOMAIN granted' = 1..Len(granted')
        BY <4>1
      <4>. QED BY <4>2 DEF Fetch!QuotaKept, Kept, Fetch!Day
    <3>. QED BY <2>5, <2>6, <3>1 DEF Fetch!WindowInv, Fetch!Counts, Records, Ordered, Fetch!Day
  <2>7. CASE limiter' = Fetch!Today /\ granted' = granted
    BY <2>4, <2>7, TodayCounts DEF Records, Fetch!Counts
  <2>8. CASE /\ u < Budget /\ k < MaxPerMin
             /\ limiter' = [calls |-> Append(c, now), day |-> Fetch!Day(now), used |-> u + 1]
             /\ granted' = Append(granted, now)
    <3> DEFINE d == Append(c, now)
               h == Append(granted, now)
    <3>1. Len(d) = k + 1 /\ (\A i \in 1..k : d[i] = c[i]) /\ d[k + 1] = now
      BY <2>1, OneMore
    <3>2. Len(h) = n + 1 /\ (\A i \in 1..n : h[i] = granted[i]) /\ h[n + 1] = now
      <4>1. granted \in Seq(0..LastTick)
        BY DEF Fetch!TypeOK
      <4>. QED BY <4>1, OneMore
    <3>. HIDE DEF c, k, n, u, d, h
    <3>3. Tally(h, n + 1, d, k + 1, u + 1, now)
      <4>1. now \in Nat /\ n \in Nat /\ k \in Nat /\ Fetch!Day(now) \in Nat
        BY <2>1, <2>2
      <4>2. Tally(granted, n, c, k, u, now)
        BY <2>1
      <4>3. (\A i \in 1..n : h[i] = granted[i]) /\ h[n + 1] = now
        BY <3>2
      <4>4. (\A j \in 1..k : d[j] = c[j]) /\ d[k + 1] = now
        BY <3>1
      <4>. QED BY <2>3, <4>1, <4>2, <4>3, <4>4, TallyOneMore
    <3>4. Kept(h, n + 1, MaxPerMin, Budget)
      BY <2>1, <2>2, <2>3, <2>4, <2>8, <3>2, TallyKeeps
    <3>5. Ordered(h, n + 1, now)
      BY <2>2, <2>4, <3>2, OrderedOneMore
    <3>6. granted' = h /\ limiter' = [calls |-> d, day |-> Fetch!Day(now), used |-> u + 1]
      BY <2>8 DEF h, d
    <3>7. Records(h, [calls |-> d, day |-> Fetch!Day(now), used |-> u + 1], now)
      <4> DEFINE l == [calls |-> d, day |-> Fetch!Day(now), used |-> u + 1]
      <4>1. l.calls = d /\ l.day = Fetch!Day(now) /\ l.used = u + 1
        OBVIOUS
      <4>2. u + 1 \in Nat /\ k + 1 \in Nat /\ n + 1 \in Nat
        BY <2>1, <2>2, <2>3
      <4>. HIDE DEF l
      <4>. QED BY <2>2, <3>1, <3>2, <3>3, <4>1, <4>2, RecordsIsTally DEF l
    <3>. QED BY <3>2, <3>4, <3>5, <3>6, <3>7
  <2>9. CASE limiter' = [calls |-> c, day |-> Fetch!Day(now), used |-> u] /\ granted' = granted
    <3> DEFINE l == [calls |-> c, day |-> Fetch!Day(now), used |-> u]
    <3>1. l.calls = c /\ l.day = Fetch!Day(now) /\ l.used = u
      OBVIOUS
    <3>. HIDE DEF c, u, l
    <3>2. Records(granted, l, now)
      BY <2>1, <2>2, <2>3, <3>1, RecordsIsTally
    <3>. QED BY <2>4, <2>9, <3>2 DEF l
  <2>. QED BY <1>3, <2>7, <2>8, <2>9, Acquired
<1>. QED BY <1>1, <1>2, <1>3 DEF Fetch!Next, Fetch!Work, Fetch!Done, Fetch!vars, Fetch!Start,
  Fetch!Metered, Fetch!Yahoo, Fetch!Store

-----------------------------------------------------------------------------
(* The theorems.                                                           *)

LEMMA FetchAtFirst ==
  ASSUME Fetch!Settings, Fetch!Init
  PROVE  Fetch!TypeOK /\ Fetch!WindowInv /\ Fetch!QuotaKept
<1>1. Fetch!TypeOK
  BY DEF Fetch!Settings, Fetch!Init, Fetch!TypeOK, Fetch!Limits, Fetch!Jobs, Fetch!Idle,
    Fetch!Never
<1>2. granted = <<>> /\ limiter = [calls |-> <<>>, day |-> -1, used |-> 0] /\ now = 0
  BY DEF Fetch!Init
<1>3. Fetch!Day(now) \in Nat /\ Len(granted) = 0 /\ Len(limiter.calls) = 0
  BY <1>1, <1>2, FetchTyped
<1>4. Fetch!WindowInv
  BY <1>2, <1>3 DEF Fetch!WindowInv, Fetch!Counts
<1>5. Fetch!QuotaKept
  BY <1>2, <1>3 DEF Fetch!QuotaKept
<1>. QED BY <1>1, <1>4, <1>5

FetchInv == Fetch!TypeOK /\ Fetch!WindowInv /\ Fetch!QuotaKept

LEMMA FetchKeeps ==
  ASSUME Fetch!Settings
  PROVE  /\ Fetch!Init => FetchInv
         /\ FetchInv /\ [Fetch!Next]_Fetch!vars => FetchInv'
BY FetchAtFirst, FetchTypesKept, WindowKept DEF FetchInv

\* The limiter counts what it grants, right, on every day and for ever: its
\* window holds the calls of the last minute it has not forgotten at midnight,
\* its tally those of the day (market.py:60-77).
THEOREM CallsAreCounted ==
  ASSUME Fetch!Settings
  PROVE  Fetch!Spec => [](Fetch!TypeOK /\ Fetch!WindowInv)
<1>1. FetchInv => Fetch!TypeOK /\ Fetch!WindowInv
  BY DEF FetchInv
<1>. QED BY <1>1, FetchKeeps, PTL DEF Fetch!Spec

\* The provider's quota (market.py:43-50), of any number of workers, with any
\* settings: of the calls granted on one day, no MaxPerMin + 1 in a row fall
\* into a minute, and no day has more than Budget of them, however the workers
\* that sleep for a slot are woken.
THEOREM QuotaIsKept ==
  ASSUME Fetch!Settings
  PROVE  Fetch!Spec => []QuotaKept
<1>1. FetchInv => QuotaKept
  BY DEF FetchInv, QuotaKept, Day, Fetch!QuotaKept, Fetch!Day
<1>. QED BY <1>1, FetchKeeps, PTL DEF Fetch!Spec

-----------------------------------------------------------------------------
(* Loop: tasks and what they do.                                           *)

LEMMA TasksAre ==
  ASSUME Loop!Calendar
  PROVE  Loop!Nobody \notin Loop!Tasks /\ {"tick", "mark", "bulk"} \subseteq Loop!Tasks /\ Users \subseteq Loop!Tasks
         /\ LastTickDay \in Nat /\ LastTickDay # 0
         /\ \A u \in Users : u \notin {"tick", "mark", "bulk"}
BY DEF Loop!Calendar, Loop!Tasks, Loop!Nobody

LEMMA OpsAre ==
  /\ \A p \in Loop!Portfolios : Loop!Cycle(p) \in Loop!Ops /\ Loop!Backfill(p) \in Loop!Ops /\ Loop!Reset(p) \in Loop!Ops
  /\ Loop!Locks \subseteq Loop!Portfolios
  /\ Loop!Requests \subseteq Loop!Ops
  /\ \A op \in Loop!Ops : op.of \in Loop!Portfolios /\ Loop!LockOf(op) \in Loop!Locks
BY DEF Loop!Ops, Loop!Op, Loop!Cycle, Loop!Backfill, Loop!Reset, Loop!Portfolios, Loop!Locks,
  Loop!Requests, Loop!LockOf

LEMMA ListsAre ==
  /\ Loop!Tick \in Seq(Loop!Ops) /\ Loop!Mark \in Seq(Loop!Ops) /\ Loop!BackfillAll \in Seq(Loop!Ops) /\ Loop!ResetAll \in Seq(Loop!Ops)
  /\ Loop!Tick # <<>> /\ Loop!Mark # <<>> /\ Loop!BackfillAll # <<>> /\ Loop!ResetAll # <<>>
  /\ \A op \in Loop!Ops : <<op>> \in Seq(Loop!Ops) /\ <<op>> # <<>>
<1>1. /\ Loop!Cycle("monthly") \in Loop!Ops /\ Loop!Cycle("sim") \in Loop!Ops /\ Loop!Cycle("daily") \in Loop!Ops
      /\ Loop!Op("mark", "monthly") \in Loop!Ops
      /\ \A p \in Loop!Portfolios : Loop!Backfill(p) \in Loop!Ops /\ Loop!Reset(p) \in Loop!Ops
      /\ "sim" \in Loop!Portfolios /\ "monthly" \in Loop!Portfolios /\ "daily" \in Loop!Portfolios /\ "bench" \in Loop!Portfolios
  BY OpsAre DEF Loop!Portfolios, Loop!Ops, Loop!Op
<1>2. \A a, b, c, d \in Loop!Ops : <<a>> \in Seq(Loop!Ops) /\ <<a, b, c>> \in Seq(Loop!Ops) /\ <<a, b, c, d>> \in Seq(Loop!Ops)
  OBVIOUS
<1>3. Loop!Tick \in Seq(Loop!Ops) /\ Loop!Mark \in Seq(Loop!Ops)
  BY <1>1, <1>2 DEF Loop!Tick, Loop!Mark
<1>4. Loop!BackfillAll \in Seq(Loop!Ops) /\ Loop!ResetAll \in Seq(Loop!Ops)
  BY <1>1, <1>2 DEF Loop!BackfillAll, Loop!ResetAll
<1>5. Loop!Tick # <<>> /\ Loop!Mark # <<>> /\ Loop!BackfillAll # <<>> /\ Loop!ResetAll # <<>>
  BY DEF Loop!Tick, Loop!Mark, Loop!BackfillAll, Loop!ResetAll
<1>. QED BY <1>2, <1>3, <1>4, <1>5

\* Every task has a state, an idle one nothing to do, any other an operation
\* that it is at.
LEMMA TaskTyped ==
  ASSUME Loop!TypeOK, NEW t \in Loop!Tasks
  PROVE  /\ task[t] \in Loop!TaskStates
         /\ task[t].todo \in Seq(Loop!Ops)
BY DEF Loop!TypeOK, Loop!TaskStates

LEMMA Occupied ==
  ASSUME Loop!TypeOK, Loop!LockInv, NEW t \in Loop!Tasks, task[t].at # "idle"
  PROVE  /\ task[t].todo # <<>> /\ Loop!Current(t) \in Loop!Ops /\ Tail(task[t].todo) \in Seq(Loop!Ops)
         /\ Loop!LockOf(Loop!Current(t)) \in Loop!Locks /\ Loop!Current(t).of \in Loop!Portfolios
<1>1. task[t].todo \in Seq(Loop!Ops) /\ task[t].todo # <<>>
  BY TaskTyped DEF Loop!LockInv
<1>2. Head(task[t].todo) \in Loop!Ops /\ Tail(task[t].todo) \in Seq(Loop!Ops)
  BY <1>1
<1>. QED BY <1>1, <1>2, OpsAre DEF Loop!Current

LEMMA LoopLockTyped ==
  ASSUME Loop!TypeOK, NEW l \in Loop!Locks
  PROVE  /\ lock[l] \in [owner: Loop!Tasks \cup {Loop!Nobody}, queue: Seq(Loop!Tasks)]
         /\ lock[l].queue \in Seq(Loop!Tasks) /\ Len(lock[l].queue) \in Nat
         /\ lock[l] = [owner |-> lock[l].owner, queue |-> lock[l].queue]
<1>1. lock[l] \in [owner: Loop!Tasks \cup {Loop!Nobody}, queue: Seq(Loop!Tasks)]
  BY DEF Loop!TypeOK
<1>2. lock[l].queue \in Seq(Loop!Tasks)
  BY <1>1
<1>. QED BY <1>1, <1>2

-----------------------------------------------------------------------------
(* Types.                                                                  *)

LEMMA OnwardTyped ==
  ASSUME Loop!TypeOK, NEW t \in Loop!Tasks, NEW todo \in Seq(Loop!Ops), Loop!Onward(t, todo)
  PROVE  /\ task' \in [Loop!Tasks -> Loop!TaskStates]
         /\ task'[t].todo = todo /\ task'[t].at = (IF todo = <<>> THEN "idle" ELSE "next")
         /\ \A s \in Loop!Tasks : s # t => task'[s] = task[s]
<1>1. task \in [Loop!Tasks -> Loop!TaskStates]
  BY DEF Loop!TypeOK
<1>2. (IF todo = <<>> THEN Loop!Idle ELSE [at |-> "next", todo |-> todo])
        \in Loop!TaskStates
  BY DEF Loop!Idle, Loop!TaskStates, Loop!Memory
<1> DEFINE next == IF todo = <<>> THEN Loop!Idle ELSE [at |-> "next", todo |-> todo]
<1>3. next.todo = todo /\ next.at = (IF todo = <<>> THEN "idle" ELSE "next")
  BY DEF Loop!Idle
<1>4. task' = [task EXCEPT ![t] = next]
  BY DEF Loop!Onward
<1>5. next \in Loop!TaskStates
  BY <1>2
<1>. HIDE DEF next
<1>. QED BY <1>1, <1>3, <1>4, <1>5

LEMMA LaunchTyped ==
  ASSUME Loop!TypeOK, NEW t \in Loop!Tasks, NEW ops \in Seq(Loop!Ops), Loop!Launch(t, ops)
  PROVE  task' \in [Loop!Tasks -> Loop!TaskStates]
<1>1. task \in [Loop!Tasks -> Loop!TaskStates]
  BY DEF Loop!TypeOK
<1>. QED BY <1>1 DEF Loop!Launch, Loop!TaskStates, Loop!Memory

LEMMA NotedTyped ==
  ASSUME Loop!TypeOK, Loop!LockInv, NEW t \in Loop!Tasks, task[t].at # "idle"
  PROVE  Loop!Noted(t) \in Loop!Memory
<1>1. reached \in Loop!Memory
  BY DEF Loop!TypeOK
<1>2. Loop!Current(t).of \in Loop!Portfolios
  BY Occupied
<1>. QED BY <1>1, <1>2 DEF Loop!Noted, Loop!TaskStates, Loop!Memory

LEMMA LoopTypesKept ==
  ASSUME Loop!Calendar, Loop!TypeOK, Loop!LockInv, [Loop!Next]_Loop!vars
  PROVE  Loop!TypeOK'
<1>1. CASE Loop!WakeMark
  BY <1>1, LaunchTyped, TasksAre, ListsAre DEF Loop!WakeMark, Loop!Wake, Loop!TypeOK
<1>2. CASE Loop!WakeTick
  BY <1>2, LaunchTyped, TasksAre, ListsAre DEF Loop!WakeTick, Loop!Wake, Loop!TypeOK,
    Loop!Memory
<1>3. ASSUME NEW u \in Users, Loop!Request(u) PROVE Loop!TypeOK'
  <2>1. PICK op \in Loop!Requests : Loop!Launch(u, <<op>>)
    BY <1>3 DEF Loop!Request
  <2>2. task' \in [Loop!Tasks -> Loop!TaskStates]
    BY <2>1, LaunchTyped, OpsAre, TasksAre, ListsAre
  <2>3. spent' \in [requests: Nat, crashes: Nat]
    <3>1. spent.requests \in Nat /\ spent \in [requests: Nat, crashes: Nat]
      BY DEF Loop!TypeOK
    <3>2. spent' = [spent EXCEPT !.requests = @ + 1]
      BY <1>3 DEF Loop!Request
    <3>. QED BY <3>1, <3>2
  <2>. QED BY <1>3, <2>2, <2>3 DEF Loop!Request, Loop!TypeOK
<1>4. CASE Loop!Coordinate(Loop!BackfillAll) \/ Loop!Coordinate(Loop!ResetAll)
  <2>1. task' \in [Loop!Tasks -> Loop!TaskStates]
    BY <1>4, LaunchTyped, TasksAre, ListsAre DEF Loop!Coordinate
  <2>2. spent' \in [requests: Nat, crashes: Nat]
    <3>1. spent.requests \in Nat /\ spent \in [requests: Nat, crashes: Nat]
      BY DEF Loop!TypeOK
    <3>2. spent' = [spent EXCEPT !.requests = @ + 1]
      BY <1>4 DEF Loop!Coordinate
    <3>. QED BY <3>1, <3>2
  <2>3. reached' \in Loop!Memory
    <3>1. reached \in Loop!Memory
      BY DEF Loop!TypeOK
    <3>2. reached' = [reached EXCEPT !.attempted = {}, !.cut = @ \ {"bulk"}]
      BY <1>4 DEF Loop!Coordinate
    <3>. QED BY <3>1, <3>2 DEF Loop!TaskStates, Loop!Memory
  <2>. QED BY <1>4, <2>1, <2>2, <2>3 DEF Loop!Coordinate, Loop!TypeOK
<1>5. ASSUME NEW t \in Loop!Tasks, Loop!Skip(t) PROVE Loop!TypeOK'
  <2>1. Tail(task[t].todo) \in Seq(Loop!Ops) /\ task[t].at # "idle"
    BY <1>5, Occupied DEF Loop!Skip
  <2>2. task' \in [Loop!Tasks -> Loop!TaskStates]
    BY <1>5, <2>1, OnwardTyped DEF Loop!Skip
  <2>3. reached' \in Loop!Memory
    BY <1>5, <2>1, NotedTyped DEF Loop!Skip, Loop!TypeOK
  <2>. QED BY <1>5, <2>2, <2>3 DEF Loop!Skip, Loop!TypeOK
<1>6. ASSUME NEW t \in Loop!Tasks, Loop!Enter(t) PROVE Loop!TypeOK'
  <2>1. task' \in [Loop!Tasks -> Loop!TaskStates]
    <3>1. task \in [Loop!Tasks -> Loop!TaskStates]
      BY DEF Loop!TypeOK
    <3>2. \/ task' = [task EXCEPT ![t].at = "running"]
          \/ task' = [task EXCEPT ![t].at = "queued"]
      BY <1>6 DEF Loop!Enter
    <3>. QED BY <3>1, <3>2 DEF Loop!TaskStates, Loop!Memory
  <2>2. lock' \in [Loop!Locks -> [owner: Loop!Tasks \cup {Loop!Nobody}, queue: Seq(Loop!Tasks)]]
    <3> DEFINE l == Loop!LockOf(Loop!Current(t))
    <3>1. lock \in [Loop!Locks -> [owner: Loop!Tasks \cup {Loop!Nobody}, queue: Seq(Loop!Tasks)]]
      BY DEF Loop!TypeOK
    <3>2. l \in Loop!Locks
      BY <1>6, Occupied DEF Loop!Enter
    <3>3. Append(lock[l].queue, t) \in Seq(Loop!Tasks)
      <4>1. lock[l].queue \in Seq(Loop!Tasks)
        BY <3>2, LoopLockTyped
      <4>. QED BY <4>1
    <3>4. \/ lock' = lock
          \/ lock' = [lock EXCEPT ![l].owner = t]
          \/ lock' = [lock EXCEPT ![l].queue = Append(@, t)]
      BY <1>6 DEF Loop!Enter
    <3>. HIDE DEF l
    <3>. QED BY <3>1, <3>2, <3>3, <3>4
  <2>. QED BY <1>6, <2>1, <2>2 DEF Loop!Enter, Loop!TypeOK
<1>7. ASSUME NEW t \in Loop!Tasks, NEW failed \in BOOLEAN, Loop!Finish(t, failed) PROVE Loop!TypeOK'
  <2>1. Tail(task[t].todo) \in Seq(Loop!Ops) /\ task[t].at # "idle" /\ Loop!LockOf(Loop!Current(t)) \in Loop!Locks
    BY <1>7, Occupied DEF Loop!Finish
  <2>2. Loop!Remaining(t, failed) \in Seq(Loop!Ops)
    BY <2>1 DEF Loop!Remaining
  <2>3. task' \in [Loop!Tasks -> Loop!TaskStates]
    BY <1>7, <2>2, OnwardTyped DEF Loop!Finish
  <2>4. reached' \in Loop!Memory
    BY <1>7, <2>1, NotedTyped DEF Loop!Finish
  <2>5. lock' \in [Loop!Locks -> [owner: Loop!Tasks \cup {Loop!Nobody}, queue: Seq(Loop!Tasks)]]
    <3>1. lock \in [Loop!Locks -> [owner: Loop!Tasks \cup {Loop!Nobody}, queue: Seq(Loop!Tasks)]]
      BY DEF Loop!TypeOK
    <3>2. lock' = lock \/ lock' = [lock EXCEPT ![Loop!LockOf(Loop!Current(t))].owner = Loop!Nobody]
      BY <1>7 DEF Loop!Finish, Loop!Released
    <3>. QED BY <2>1, <3>1, <3>2
  <2>. QED BY <1>7, <2>3, <2>4, <2>5 DEF Loop!Finish, Loop!TypeOK
<1>8. ASSUME NEW l \in Loop!Locks, Loop!Grant(l) PROVE Loop!TypeOK'
  <2>1. lock[l].queue \in Seq(Loop!Tasks) /\ lock[l].queue # <<>>
    BY <1>8, LoopLockTyped DEF Loop!Grant
  <2>2. Head(lock[l].queue) \in Loop!Tasks /\ Tail(lock[l].queue) \in Seq(Loop!Tasks)
    BY <2>1
  <2>3. task' \in [Loop!Tasks -> Loop!TaskStates]
    BY <1>8, <2>2 DEF Loop!Grant, Loop!TypeOK, Loop!TaskStates
  <2>4. lock' \in [Loop!Locks -> [owner: Loop!Tasks \cup {Loop!Nobody}, queue: Seq(Loop!Tasks)]]
    BY <1>8, <2>2 DEF Loop!Grant, Loop!TypeOK
  <2>. QED BY <1>8, <2>3, <2>4 DEF Loop!Grant, Loop!TypeOK
<1>9. CASE Loop!NextDay
  <2>1. date' \in 1..LastTickDay /\ ticked' \in SUBSET {"mark", "tick"}
    BY <1>9, TasksAre DEF Loop!NextDay, Loop!TypeOK
  <2>. QED BY <1>9, <2>1 DEF Loop!NextDay, Loop!TypeOK
<1>10. CASE Loop!Crash
  <2>1. task' \in [Loop!Tasks -> Loop!TaskStates]
    BY <1>10 DEF Loop!Crash, Loop!Idle, Loop!TaskStates, Loop!Memory
  <2>2. lock' \in [Loop!Locks -> [owner: Loop!Tasks \cup {Loop!Nobody}, queue: Seq(Loop!Tasks)]]
    BY <1>10 DEF Loop!Crash, Loop!Free
  <2>3. spent' \in [requests: Nat, crashes: Nat]
    BY <1>10 DEF Loop!Crash, Loop!TypeOK
  <2>4. reached' \in Loop!Memory
    <3>1. reached \in Loop!Memory
      BY DEF Loop!TypeOK
    <3>2. reached' = [reached EXCEPT !.cut = @ \cup ({"tick", "bulk"} \cap {t \in Loop!Tasks : task[t] # Loop!Idle})]
      BY <1>10 DEF Loop!Crash
    <3>. QED BY <3>1, <3>2 DEF Loop!TaskStates, Loop!Memory
  <2>. QED BY <1>10, <2>1, <2>2, <2>3, <2>4 DEF Loop!Crash, Loop!TypeOK
<1>11. CASE UNCHANGED Loop!vars
  BY <1>11 DEF Loop!vars, Loop!TypeOK
<1>. QED BY <1>1, <1>2, <1>3, <1>4, <1>5, <1>6, <1>7, <1>8, <1>9, <1>10, <1>11 DEF Loop!Next,
  Loop!Step, Loop!Done

-----------------------------------------------------------------------------
(* Locks.                                                                  *)

\* Who comes last is in the queue, and was not before.
LEMMA JoinsQueue ==
  ASSUME NEW S, NEW q \in Seq(S), NEW x \in S, ~Loop!Contains(q, x), Loop!Once(q)
  PROVE  /\ \A s : Loop!Contains(Append(q, x), s) <=> s = x \/ Loop!Contains(q, s)
         /\ Loop!Once(Append(q, x))
<1> DEFINE n == Len(q)
           r == Append(q, x)
<1>1. n \in Nat /\ Len(r) = n + 1 /\ (\A i \in 1..n : r[i] = q[i]) /\ r[n + 1] = x
  BY OneMore
<1>. HIDE DEF n, r
<1>2. \A i \in 1..n : q[i] # x
  BY DEF Loop!Contains, n
<1>3. \A i \in 1..(n + 1) : i \in 1..n \/ i = n + 1
  BY <1>1
<1>4. ASSUME NEW s, Loop!Contains(r, s) PROVE s = x \/ Loop!Contains(q, s)
  <2>1. PICK i \in 1..(n + 1) : r[i] = s
    BY <1>1, <1>4 DEF Loop!Contains
  <2>. QED BY <1>1, <1>3, <2>1 DEF Loop!Contains, n
<1>5. ASSUME NEW s, s = x \/ Loop!Contains(q, s) PROVE Loop!Contains(r, s)
  <2>1. CASE s = x
    <3>1. n + 1 \in 1..Len(r)
      BY <1>1
    <3>. QED BY <1>1, <2>1, <3>1 DEF Loop!Contains
  <2>2. CASE Loop!Contains(q, s)
    <3>1. PICK i \in 1..n : q[i] = s
      BY <2>2 DEF Loop!Contains, n
    <3>2. i \in 1..Len(r) /\ r[i] = s
      BY <1>1, <3>1
    <3>. QED BY <3>2 DEF Loop!Contains
  <2>. QED BY <1>5, <2>1, <2>2
<1>6. ASSUME NEW i \in 1..Len(r), NEW j \in 1..Len(r), r[i] = r[j] PROVE i = j
  <2>1. (i \in 1..n \/ i = n + 1) /\ (j \in 1..n \/ j = n + 1)
    BY <1>1, <1>3
  <2>2. \A a, b \in 1..n : q[a] = q[b] => a = b
    BY DEF Loop!Once, n
  <2>. QED BY <1>1, <1>2, <1>6, <2>1, <2>2
<1>. QED BY <1>4, <1>5, <1>6 DEF Loop!Once, r

LEMMA LeavesQueue ==
  ASSUME NEW S, NEW q \in Seq(S), q # <<>>, Loop!Once(q)
  PROVE  /\ \A s : Loop!Contains(Tail(q), s) <=> s # Head(q) /\ Loop!Contains(q, s)
         /\ Loop!Once(Tail(q)) /\ Loop!Contains(q, Head(q)) /\ Head(q) \in S
<1> DEFINE n == Len(q)
           r == Tail(q)
           h == Head(q)
<1>1. n \in Nat /\ n > 0 /\ Len(r) = n - 1 /\ h = q[1] /\ h \in S
  OBVIOUS
<1>2. \A i \in 1..(n - 1) : r[i] = q[i + 1]
  OBVIOUS
<1>3. \A i, j \in 1..n : q[i] = q[j] => i = j
  BY DEF Loop!Once
<1>. HIDE DEF n, r, h
<1>4. \A i \in 1..(n - 1) : i + 1 \in 1..n /\ i + 1 # 1
  BY <1>1
<1>5. ASSUME NEW s, Loop!Contains(r, s) PROVE s # h /\ Loop!Contains(q, s)
  <2>1. PICK i \in 1..(n - 1) : r[i] = s
    BY <1>1, <1>5 DEF Loop!Contains
  <2>2. i + 1 \in 1..n /\ i + 1 # 1 /\ q[i + 1] = s /\ 1 \in 1..n
    BY <1>1, <1>2, <1>4, <2>1
  <2>. QED BY <1>1, <1>3, <2>2 DEF Loop!Contains, n
<1>6. ASSUME NEW s, s # h, Loop!Contains(q, s) PROVE Loop!Contains(r, s)
  <2>1. PICK i \in 1..n : q[i] = s
    BY <1>6 DEF Loop!Contains, n
  <2>2. i # 1
    BY <1>1, <1>6, <2>1
  <2>3. i - 1 \in 1..(n - 1) /\ (i - 1) + 1 = i
    BY <1>1, <2>2
  <2>4. r[i - 1] = s
    BY <1>2, <2>1, <2>3
  <2>. QED BY <1>1, <2>3, <2>4 DEF Loop!Contains
<1>7. ASSUME NEW i \in 1..Len(r), NEW j \in 1..Len(r), r[i] = r[j] PROVE i = j
  <2>1. i \in 1..(n - 1) /\ j \in 1..(n - 1)
    BY <1>1
  <2>2. i + 1 = j + 1
    BY <1>2, <1>3, <1>4, <1>7, <2>1
  <2>. QED BY <1>1, <2>1, <2>2
<1>8. Loop!Contains(q, h)
  <2>1. 1 \in 1..n /\ q[1] = h
    BY <1>1
  <2>. QED BY <2>1 DEF Loop!Contains, n
<1>. QED BY <1>1, <1>5, <1>6, <1>7, <1>8 DEF Loop!Once, r, h

\* A step of one task leaves the others where they are.
LEMMA Others ==
  ASSUME NEW s \in Loop!Tasks, task'[s] = task[s]
  PROVE  /\ \A l \in Loop!Locks : (Loop!Runs(s, l)' <=> Loop!Runs(s, l)) /\ (Loop!Waits(s, l)' <=> Loop!Waits(s, l))
         /\ Loop!Lockless(Loop!Current(s))' <=> Loop!Lockless(Loop!Current(s))
BY DEF Loop!Runs, Loop!Waits, Loop!Current, Loop!Lockless, Loop!LockOf, Loop!Reset, Loop!Op

\* Every task that is no longer where it was has its place among the locks.
LEMMA LocksFrom ==
  ASSUME Loop!TypeOK, Loop!LockInv, NEW t \in Loop!Tasks,
         \A s \in Loop!Tasks : s # t => task'[s] = task[s],
         task'[t].at = "idle" <=> task'[t].todo = <<>>,
         task'[t].at = "queued" => ~Loop!Lockless(Loop!Current(t))',
         \A l \in Loop!Locks : \A s \in Loop!Tasks :
           lock'[l].owner = s <=> IF s = t THEN Loop!Runs(t, l)' ELSE lock[l].owner = s,
         \A l \in Loop!Locks : \A s \in Loop!Tasks :
           Loop!Contains(lock'[l].queue, s) <=> IF s = t THEN Loop!Waits(t, l)' ELSE Loop!Contains(lock[l].queue, s),
         \A l \in Loop!Locks : Loop!Once(lock'[l].queue)
  PROVE  Loop!LockInv'
<1>1. \A s \in Loop!Tasks : task'[s].at = "idle" <=> task'[s].todo = <<>>
  BY DEF Loop!LockInv
<1>2. \A s \in Loop!Tasks : task'[s].at = "queued" => ~Loop!Lockless(Loop!Current(s))'
  BY Others DEF Loop!LockInv
<1>3. \A l \in Loop!Locks : \A s \in Loop!Tasks : lock'[l].owner = s <=> Loop!Runs(s, l)'
  BY Others DEF Loop!LockInv
<1>4. \A l \in Loop!Locks : \A s \in Loop!Tasks : Loop!Contains(lock'[l].queue, s) <=> Loop!Waits(s, l)'
  BY Others DEF Loop!LockInv
<1>. QED BY <1>1, <1>2, <1>3, <1>4 DEF Loop!LockInv, Loop!Contains, Loop!Once

\* A task is at one place.
LEMMA OnePlace ==
  ASSUME Loop!LockInv, NEW t \in Loop!Tasks
  PROVE  /\ task[t].at # "running" => \A l \in Loop!Locks : lock[l].owner # t
         /\ task[t].at # "queued" => \A l \in Loop!Locks : ~Loop!Contains(lock[l].queue, t)
         /\ \A l \in Loop!Locks : Loop!Once(lock[l].queue)
BY DEF Loop!LockInv, Loop!Runs, Loop!Waits

\* No lock changes when a task goes from one operation to none or the next
\* outside of them.
LEMMA AsideKept ==
  ASSUME Loop!TypeOK, Loop!LockInv, NEW t \in Loop!Tasks,
         \A s \in Loop!Tasks : s # t => task'[s] = task[s],
         task[t].at \in {"idle", "next"}, task'[t].at \in {"idle", "next"},
         task'[t].at = "idle" <=> task'[t].todo = <<>>, lock' = lock
  PROVE  Loop!LockInv'
<1>1. \A l \in Loop!Locks : lock[l].owner # t /\ ~Loop!Contains(lock[l].queue, t) /\ Loop!Once(lock[l].queue)
  BY OnePlace
<1>2. \A l \in Loop!Locks : ~Loop!Runs(t, l)' /\ ~Loop!Waits(t, l)'
  BY DEF Loop!Runs, Loop!Waits
<1>. QED BY <1>1, <1>2, LocksFrom

LEMMA EnterKeepsLocks ==
  ASSUME Loop!Calendar, Loop!TypeOK, Loop!LockInv, NEW t \in Loop!Tasks, Loop!Enter(t)
  PROVE  Loop!LockInv'
<1> DEFINE m == Loop!LockOf(Loop!Current(t))
<1>1. task[t].at = "next" /\ m \in Loop!Locks /\ t # Loop!Nobody /\ task[t].todo # <<>>
  BY Occupied, TasksAre DEF Loop!Enter
<1>2. \A l \in Loop!Locks : lock[l].owner # t /\ ~Loop!Contains(lock[l].queue, t) /\ Loop!Once(lock[l].queue)
  BY <1>1, OnePlace
<1>3. \A s \in Loop!Tasks : s # t => task'[s] = task[s]
  BY DEF Loop!Enter, Loop!TypeOK
<1>4. task'[t].todo = task[t].todo /\ (Loop!Lockless(Loop!Current(t))' <=> Loop!Lockless(Loop!Current(t)))
      /\ Loop!LockOf(Loop!Current(t))' = m
  <2>1. task'[t].todo = task[t].todo
    BY DEF Loop!Enter, Loop!TypeOK, Loop!TaskStates
  <2>. QED BY <2>1 DEF Loop!Current, Loop!Lockless, Loop!LockOf, Loop!Reset, Loop!Op
<1>5. ASSUME Loop!Lockless(Loop!Current(t)), task' = [task EXCEPT ![t].at = "running"], lock' = lock
      PROVE  Loop!LockInv'
  <2>1. task'[t].at = "running"
    BY <1>5 DEF Loop!TypeOK
  <2>2. \A l \in Loop!Locks : ~Loop!Runs(t, l)' /\ ~Loop!Waits(t, l)'
    BY <1>4, <1>5, <2>1 DEF Loop!Runs, Loop!Waits
  <2>. QED BY <1>1, <1>2, <1>3, <1>4, <1>5, <2>1, <2>2, LocksFrom
<1>6. ASSUME ~Loop!Lockless(Loop!Current(t)), lock[m] = Loop!Free, task' = [task EXCEPT ![t].at = "running"],
             lock' = [lock EXCEPT ![m].owner = t]
      PROVE  Loop!LockInv'
  <2>1. task'[t].at = "running"
    BY <1>6 DEF Loop!TypeOK
  <2>2. \A l \in Loop!Locks : (Loop!Runs(t, l)' <=> l = m) /\ ~Loop!Waits(t, l)'
    BY <1>4, <1>6, <2>1 DEF Loop!Runs, Loop!Waits
  <2>3. \A l \in Loop!Locks : lock'[l].owner = (IF l = m THEN t ELSE lock[l].owner) /\ lock'[l].queue = lock[l].queue
    BY <1>1, <1>6 DEF Loop!TypeOK
  <2>4. lock[m].owner = Loop!Nobody
    BY <1>6 DEF Loop!Free
  <2>. HIDE DEF m
  <2>5. \A l \in Loop!Locks : \A s \in Loop!Tasks :
          lock'[l].owner = s <=> IF s = t THEN Loop!Runs(t, l)' ELSE lock[l].owner = s
    BY <1>2, <2>2, <2>3, <2>4, TasksAre
  <2>. QED BY <1>1, <1>2, <1>3, <1>4, <2>1, <2>2, <2>3, <2>5, LocksFrom
<1>7. ASSUME ~Loop!Lockless(Loop!Current(t)), task' = [task EXCEPT ![t].at = "queued"],
             lock' = [lock EXCEPT ![m].queue = Append(@, t)]
      PROVE  Loop!LockInv'
  <2>1. task'[t].at = "queued"
    BY <1>7 DEF Loop!TypeOK
  <2>2. \A l \in Loop!Locks : ~Loop!Runs(t, l)' /\ (Loop!Waits(t, l)' <=> l = m)
    BY <1>4, <2>1 DEF Loop!Runs, Loop!Waits
  <2>3. \A l \in Loop!Locks : lock'[l].owner = lock[l].owner
                         /\ lock'[l].queue = IF l = m THEN Append(lock[m].queue, t) ELSE lock[l].queue
    BY <1>1, <1>7 DEF Loop!TypeOK
  <2>. HIDE DEF m
  <2>4. /\ \A s : Loop!Contains(Append(lock[m].queue, t), s) <=> s = t \/ Loop!Contains(lock[m].queue, s)
        /\ Loop!Once(Append(lock[m].queue, t))
    BY <1>1, <1>2, LoopLockTyped, JoinsQueue
  <2>5. \A l \in Loop!Locks : \A s \in Loop!Tasks :
          Loop!Contains(lock'[l].queue, s) <=> IF s = t THEN Loop!Waits(t, l)' ELSE Loop!Contains(lock[l].queue, s)
    BY <1>2, <2>2, <2>3, <2>4
  <2>6. \A l \in Loop!Locks : Loop!Once(lock'[l].queue)
    BY <1>2, <2>3, <2>4
  <2>. QED BY <1>1, <1>2, <1>3, <1>4, <1>7, <2>1, <2>2, <2>3, <2>5, <2>6, LocksFrom
<1>. QED BY <1>5, <1>6, <1>7 DEF Loop!Enter

LEMMA GrantKeepsLocks ==
  ASSUME Loop!Calendar, Loop!TypeOK, Loop!LockInv, NEW m \in Loop!Locks, Loop!Grant(m)
  PROVE  Loop!LockInv'
<1> DEFINE q == lock[m].queue
<1>1. q \in Seq(Loop!Tasks) /\ q # <<>> /\ lock[m].owner = Loop!Nobody /\ Loop!Once(q)
  BY LoopLockTyped, OnePlace DEF Loop!Grant, Loop!Locked, Loop!LockInv
<1>0. PICK t \in Loop!Tasks : t = Head(q)
  BY <1>1, LeavesQueue
<1>2. /\ \A s : Loop!Contains(Tail(q), s) <=> s # t /\ Loop!Contains(q, s)
      /\ Loop!Once(Tail(q)) /\ Loop!Contains(q, t)
  BY <1>0, <1>1, LeavesQueue
<1>3. lock' = [lock EXCEPT ![m] = [owner |-> t, queue |-> Tail(q)]] /\ task' = [task EXCEPT ![t].at = "running"]
  BY <1>0 DEF Loop!Grant
<1>4. Loop!Waits(t, m)
  BY <1>2 DEF Loop!LockInv
<1>5. task[t].at = "queued" /\ Loop!LockOf(Loop!Current(t)) = m /\ ~Loop!Lockless(Loop!Current(t)) /\ task[t].todo # <<>>
  BY <1>2, <1>4, Occupied DEF Loop!Waits, Loop!LockInv
<1>6. \A l \in Loop!Locks : lock[l].owner # t /\ (l # m => ~Loop!Contains(lock[l].queue, t)) /\ Loop!Once(lock[l].queue)
  BY <1>2, <1>5, OnePlace DEF Loop!LockInv, Loop!Waits
<1>7. /\ task'[t].at = "running" /\ task'[t].todo = task[t].todo
      /\ \A s \in Loop!Tasks : s # t => task'[s] = task[s]
  BY <1>2, <1>3 DEF Loop!TypeOK
<1>8. Loop!LockOf(Loop!Current(t))' = m /\ ~Loop!Lockless(Loop!Current(t))'
  BY <1>5, <1>7 DEF Loop!Current, Loop!LockOf, Loop!Lockless, Loop!Reset, Loop!Op
<1>9. \A l \in Loop!Locks : (Loop!Runs(t, l)' <=> l = m) /\ ~Loop!Waits(t, l)'
  BY <1>7, <1>8 DEF Loop!Runs, Loop!Waits
<1>10. \A l \in Loop!Locks : /\ lock'[l].owner = IF l = m THEN t ELSE lock[l].owner
                             /\ lock'[l].queue = IF l = m THEN Tail(q) ELSE lock[l].queue
  BY <1>3 DEF Loop!TypeOK
<1>11. \A l \in Loop!Locks : \A s \in Loop!Tasks :
         lock'[l].owner = s <=> IF s = t THEN Loop!Runs(t, l)' ELSE lock[l].owner = s
  BY <1>1, <1>6, <1>9, <1>10, TasksAre
<1>12. \A l \in Loop!Locks : \A s \in Loop!Tasks :
         Loop!Contains(lock'[l].queue, s) <=> IF s = t THEN Loop!Waits(t, l)' ELSE Loop!Contains(lock[l].queue, s)
  BY <1>2, <1>6, <1>9, <1>10
<1>13. \A l \in Loop!Locks : Loop!Once(lock'[l].queue)
  BY <1>2, <1>6, <1>10
<1>. HIDE DEF q
<1>. QED BY <1>2, <1>5, <1>7, <1>8, <1>11, <1>12, <1>13, LocksFrom

LEMMA FinishKeepsLocks ==
  ASSUME Loop!Calendar, Loop!TypeOK, Loop!LockInv, NEW t \in Loop!Tasks, NEW failed \in BOOLEAN, Loop!Finish(t, failed)
  PROVE  Loop!LockInv'
<1> DEFINE m == Loop!LockOf(Loop!Current(t))
<1>1. /\ task[t].at = "running" /\ m \in Loop!Locks /\ t # Loop!Nobody
      /\ Loop!Remaining(t, failed) \in Seq(Loop!Ops)
  <2>1. task[t].at = "running" /\ task[t].at # "idle"
    BY DEF Loop!Finish
  <2>2. m \in Loop!Locks /\ Tail(task[t].todo) \in Seq(Loop!Ops)
    BY <2>1, Occupied
  <2>3. Loop!Remaining(t, failed) \in Seq(Loop!Ops)
    BY <2>2 DEF Loop!Remaining
  <2>. QED BY <2>1, <2>2, <2>3, TasksAre
<1>2. /\ \A s \in Loop!Tasks : s # t => task'[s] = task[s]
      /\ task'[t].at \in {"idle", "next"} /\ (task'[t].at = "idle" <=> task'[t].todo = <<>>)
  <2>1. /\ task'[t].todo = Loop!Remaining(t, failed)
        /\ task'[t].at = (IF Loop!Remaining(t, failed) = <<>> THEN "idle" ELSE "next")
        /\ \A s \in Loop!Tasks : s # t => task'[s] = task[s]
    BY <1>1, OnwardTyped DEF Loop!Finish
  <2>. QED BY <2>1
<1>3. \A l \in Loop!Locks : ~Loop!Runs(t, l)' /\ ~Loop!Waits(t, l)'
  BY <1>2 DEF Loop!Runs, Loop!Waits
<1>4. \A l \in Loop!Locks : ~Loop!Contains(lock[l].queue, t) /\ Loop!Once(lock[l].queue)
  BY <1>1, OnePlace
<1>5. \A l \in Loop!Locks : l # m => lock[l].owner # t
  BY DEF Loop!LockInv, Loop!Runs
<1>6. lock' = IF lock[m].owner = t THEN [lock EXCEPT ![m].owner = Loop!Nobody] ELSE lock
  BY DEF Loop!Finish, Loop!Released
<1>. HIDE DEF m
<1>7. \A l \in Loop!Locks : /\ lock'[l].queue = lock[l].queue
                            /\ lock'[l].owner = IF lock[l].owner = t THEN Loop!Nobody ELSE lock[l].owner
  BY <1>1, <1>5, <1>6 DEF Loop!TypeOK
<1>8. \A l \in Loop!Locks : \A s \in Loop!Tasks :
        lock'[l].owner = s <=> IF s = t THEN Loop!Runs(t, l)' ELSE lock[l].owner = s
  BY <1>1, <1>3, <1>7, TasksAre
<1>. QED BY <1>2, <1>3, <1>4, <1>7, <1>8, LocksFrom

LEMMA LaunchKeepsLocks ==
  ASSUME Loop!TypeOK, Loop!LockInv, NEW t \in Loop!Tasks, NEW ops \in Seq(Loop!Ops), ops # <<>>, Loop!Launch(t, ops), lock' = lock
  PROVE  Loop!LockInv'
<1>1. task[t].at = "idle" /\ task'[t] = [at |-> "next", todo |-> ops]
      /\ \A s \in Loop!Tasks : s # t => task'[s] = task[s]
  BY DEF Loop!Launch, Loop!Idle, Loop!TypeOK
<1>. QED BY <1>1, AsideKept

LEMMA SkipKeepsLocks ==
  ASSUME Loop!TypeOK, Loop!LockInv, NEW t \in Loop!Tasks, Loop!Skip(t)
  PROVE  Loop!LockInv'
<1>1. task[t].at = "next" /\ Tail(task[t].todo) \in Seq(Loop!Ops) /\ lock' = lock
  <2>1. task[t].at = "next" /\ lock' = lock
    BY DEF Loop!Skip
  <2>. QED BY <2>1, Occupied
<1>2. /\ \A s \in Loop!Tasks : s # t => task'[s] = task[s]
      /\ task'[t].at \in {"idle", "next"} /\ (task'[t].at = "idle" <=> task'[t].todo = <<>>)
  <2>1. /\ task'[t].todo = Tail(task[t].todo)
        /\ task'[t].at = (IF Tail(task[t].todo) = <<>> THEN "idle" ELSE "next")
        /\ \A s \in Loop!Tasks : s # t => task'[s] = task[s]
    BY <1>1, OnwardTyped DEF Loop!Skip
  <2>. QED BY <2>1
<1>. QED BY <1>1, <1>2, AsideKept

LEMMA UntouchedKeepsLocks ==
  ASSUME Loop!LockInv, UNCHANGED <<task, lock>>
  PROVE  Loop!LockInv'
BY DEF Loop!LockInv, Loop!Runs, Loop!Waits, Loop!Current, Loop!Lockless, Loop!LockOf,
  Loop!Reset, Loop!Op

LEMMA CrashFreesLocks ==
  ASSUME Loop!Calendar, Loop!Crash
  PROVE  Loop!LockInv'
<1>1. /\ \A t \in Loop!Tasks : task'[t].at = "idle" /\ task'[t].todo = <<>>
      /\ \A l \in Loop!Locks : lock'[l].owner = Loop!Nobody /\ lock'[l].queue = <<>>
  BY DEF Loop!Crash, Loop!Idle, Loop!Free
<1>2. \A l \in Loop!Locks : \A t \in Loop!Tasks : ~Loop!Runs(t, l)' /\ ~Loop!Waits(t, l)'
  BY <1>1 DEF Loop!Runs, Loop!Waits
<1>3. Loop!Once(<<>>) /\ \A t : ~Loop!Contains(<<>>, t)
  BY DEF Loop!Once, Loop!Contains
<1>. QED BY <1>1, <1>2, <1>3, TasksAre DEF Loop!LockInv

LEMMA LocksKept ==
  ASSUME Loop!Calendar, Loop!TypeOK, Loop!LockInv, [Loop!Next]_Loop!vars
  PROVE  Loop!LockInv'
<1>1. CASE Loop!WakeMark
  BY <1>1, LaunchKeepsLocks, UntouchedKeepsLocks, TasksAre, ListsAre DEF Loop!WakeMark,
    Loop!Wake
<1>2. CASE Loop!WakeTick
  BY <1>2, LaunchKeepsLocks, UntouchedKeepsLocks, TasksAre, ListsAre DEF Loop!WakeTick,
    Loop!Wake
<1>3. ASSUME NEW u \in Users, Loop!Request(u) PROVE Loop!LockInv'
  <2>1. PICK op \in Loop!Requests : Loop!Launch(u, <<op>>)
    BY <1>3 DEF Loop!Request
  <2>2. <<op>> \in Seq(Loop!Ops) /\ <<op>> # <<>> /\ u \in Loop!Tasks /\ lock' = lock
    BY <1>3, OpsAre, ListsAre, TasksAre DEF Loop!Request
  <2>. QED BY <2>1, <2>2, LaunchKeepsLocks
<1>4. CASE Loop!Coordinate(Loop!BackfillAll) \/ Loop!Coordinate(Loop!ResetAll)
  BY <1>4, LaunchKeepsLocks, TasksAre, ListsAre DEF Loop!Coordinate
<1>5. ASSUME NEW t \in Loop!Tasks, Loop!Step(t) PROVE Loop!LockInv'
  BY <1>5, SkipKeepsLocks, EnterKeepsLocks, FinishKeepsLocks DEF Loop!Step
<1>6. ASSUME NEW l \in Loop!Locks, Loop!Grant(l) PROVE Loop!LockInv'
  BY <1>6, GrantKeepsLocks
<1>7. CASE Loop!NextDay \/ UNCHANGED Loop!vars
  BY <1>7, UntouchedKeepsLocks DEF Loop!NextDay, Loop!vars
<1>8. CASE Loop!Crash
  BY <1>8, CrashFreesLocks
<1>. QED BY <1>1, <1>2, <1>3, <1>4, <1>5, <1>6, <1>7, <1>8 DEF Loop!Next, Loop!Done

-----------------------------------------------------------------------------
(* What is still to do.                                                    *)

LEMMA AheadOfTail ==
  ASSUME NEW todo \in Seq(Loop!Ops), todo # <<>>
  PROVE  Loop!Ahead(todo) \subseteq {Head(todo).of} \cup Loop!Ahead(Tail(todo))
<1> SUFFICES ASSUME NEW i \in 1..Len(todo)
             PROVE  todo[i].of \in {Head(todo).of} \cup Loop!Ahead(Tail(todo))
  BY DEF Loop!Ahead
<1>1. Len(todo) \in Nat /\ Head(todo) = todo[1] /\ Len(Tail(todo)) = Len(todo) - 1
  OBVIOUS
<1>2. \A k \in 1..(Len(todo) - 1) : Tail(todo)[k] = todo[k + 1]
  OBVIOUS
<1>3. CASE i = 1
  BY <1>1, <1>3
<1>4. CASE i # 1
  <2>1. i - 1 \in 1..(Len(todo) - 1) /\ (i - 1) + 1 = i
    BY <1>1, <1>4
  <2>2. Tail(todo)[i - 1] = todo[i] /\ i - 1 \in 1..Len(Tail(todo))
    BY <1>1, <1>2, <2>1
  <2>. QED BY <2>2 DEF Loop!Ahead
<1>. QED BY <1>3, <1>4

LEMMA NothingAhead == Loop!Ahead(<<>>) = {}
BY DEF Loop!Ahead

LEMMA TickStages ==
  /\ {"monthly", "sim", "daily"} \subseteq Loop!Ahead(Loop!Tick)
  /\ \A todo \in {Loop!Tick, Tail(Loop!Tick), Tail(Tail(Loop!Tick))} :
       /\ todo # <<>> /\ todo \in Seq(Loop!Ops) /\ Head(todo).kind = "cycle"
       /\ Tail(todo) \in {<<>>, Loop!Tick, Tail(Loop!Tick), Tail(Tail(Loop!Tick))}
<1> DEFINE a == Loop!Cycle("monthly")
           b == Loop!Cycle("sim")
           c == Loop!Cycle("daily")
<1>1. a.kind = "cycle" /\ b.kind = "cycle" /\ c.kind = "cycle"
      /\ a.of = "monthly" /\ b.of = "sim" /\ c.of = "daily"
  BY DEF Loop!Cycle, Loop!Op
<1>2. a \in Loop!Ops /\ b \in Loop!Ops /\ c \in Loop!Ops
  BY OpsAre DEF Loop!Portfolios
<1>3. Loop!Tick = <<a, b, c>>
  BY DEF Loop!Tick
<1>. HIDE DEF a, b, c
<1>4. Tail(Loop!Tick) = <<b, c>> /\ Tail(Tail(Loop!Tick)) = <<c>> /\ Tail(Tail(Tail(Loop!Tick))) = <<>>
  BY <1>3
<1>5. {"monthly", "sim", "daily"} \subseteq Loop!Ahead(Loop!Tick)
  <2>1. Len(Loop!Tick) = 3 /\ Loop!Tick[1] = a /\ Loop!Tick[2] = b /\ Loop!Tick[3] = c
    BY <1>3
  <2>. QED BY <1>1, <2>1 DEF Loop!Ahead
<1>6. \A x, y, z \in Loop!Ops : /\ <<x>> \in Seq(Loop!Ops) /\ <<x, y>> \in Seq(Loop!Ops) /\ <<x, y, z>> \in Seq(Loop!Ops)
                                /\ <<x>> # <<>> /\ <<x, y>> # <<>> /\ <<x, y, z>> # <<>>
  OBVIOUS
<1>. QED BY <1>1, <1>2, <1>3, <1>4, <1>5, <1>6

LEMMA BulkStages ==
  /\ Loop!Portfolios \subseteq Loop!Ahead(Loop!BackfillAll)
  /\ \A todo \in {Loop!BackfillAll, Tail(Loop!BackfillAll), Tail(Tail(Loop!BackfillAll)), Tail(Tail(Tail(Loop!BackfillAll)))} :
       /\ todo # <<>> /\ todo \in Seq(Loop!Ops) /\ Head(todo).kind = "backfill"
       /\ Tail(todo) \in {<<>>, Tail(Loop!BackfillAll), Tail(Tail(Loop!BackfillAll)), Tail(Tail(Tail(Loop!BackfillAll)))}
  /\ \A todo \in {Loop!ResetAll, Tail(Loop!ResetAll), Tail(Tail(Loop!ResetAll))} :
       /\ todo # <<>> /\ todo \in Seq(Loop!Ops) /\ Head(todo).kind = "reset"
       /\ Tail(todo) \in {<<>>, Tail(Loop!ResetAll), Tail(Tail(Loop!ResetAll))}
<1> DEFINE a == Loop!Backfill("sim")
           b == Loop!Backfill("monthly")
           c == Loop!Backfill("daily")
           d == Loop!Backfill("bench")
           x == Loop!Reset("sim")
           y == Loop!Reset("monthly")
           z == Loop!Reset("daily")
<1>1. /\ a.kind = "backfill" /\ b.kind = "backfill" /\ c.kind = "backfill" /\ d.kind = "backfill"
      /\ a.of = "sim" /\ b.of = "monthly" /\ c.of = "daily" /\ d.of = "bench"
      /\ x.kind = "reset" /\ y.kind = "reset" /\ z.kind = "reset"
  BY DEF Loop!Backfill, Loop!Reset, Loop!Op
<1>2. a \in Loop!Ops /\ b \in Loop!Ops /\ c \in Loop!Ops /\ d \in Loop!Ops /\ x \in Loop!Ops /\ y \in Loop!Ops /\ z \in Loop!Ops
  BY OpsAre DEF Loop!Portfolios
<1>3. Loop!BackfillAll = <<a, b, c, d>> /\ Loop!ResetAll = <<x, y, z>>
  BY DEF Loop!BackfillAll, Loop!ResetAll
<1>. HIDE DEF a, b, c, d, x, y, z
<1>4. /\ Tail(Loop!BackfillAll) = <<b, c, d>> /\ Tail(Tail(Loop!BackfillAll)) = <<c, d>>
      /\ Tail(Tail(Tail(Loop!BackfillAll))) = <<d>> /\ Tail(Tail(Tail(Tail(Loop!BackfillAll)))) = <<>>
  BY <1>3
<1>5. Tail(Loop!ResetAll) = <<y, z>> /\ Tail(Tail(Loop!ResetAll)) = <<z>> /\ Tail(Tail(Tail(Loop!ResetAll))) = <<>>
  BY <1>3
<1>6. Loop!Portfolios \subseteq Loop!Ahead(Loop!BackfillAll)
  <2>1. Len(Loop!BackfillAll) = 4 /\ Loop!BackfillAll[1] = a /\ Loop!BackfillAll[2] = b
        /\ Loop!BackfillAll[3] = c /\ Loop!BackfillAll[4] = d
    BY <1>3
  <2>. QED BY <1>1, <2>1 DEF Loop!Ahead, Loop!Portfolios
<1>7. \A p, q, r, s \in Loop!Ops :
        /\ <<p>> \in Seq(Loop!Ops) /\ <<p, q>> \in Seq(Loop!Ops) /\ <<p, q, r>> \in Seq(Loop!Ops) /\ <<p, q, r, s>> \in Seq(Loop!Ops)
        /\ <<p>> # <<>> /\ <<p, q>> # <<>> /\ <<p, q, r>> # <<>> /\ <<p, q, r, s>> # <<>>
        /\ Head(<<p>>) = p /\ Head(<<p, q>>) = p /\ Head(<<p, q, r>>) = p /\ Head(<<p, q, r, s>>) = p
  OBVIOUS
<1>8. \A todo \in {Loop!BackfillAll, Tail(Loop!BackfillAll), Tail(Tail(Loop!BackfillAll)), Tail(Tail(Tail(Loop!BackfillAll)))} :
        /\ todo # <<>> /\ todo \in Seq(Loop!Ops) /\ Head(todo).kind = "backfill"
        /\ Tail(todo) \in {<<>>, Tail(Loop!BackfillAll), Tail(Tail(Loop!BackfillAll)), Tail(Tail(Tail(Loop!BackfillAll)))}
  <2>1. Loop!BackfillAll # <<>> /\ Loop!BackfillAll \in Seq(Loop!Ops) /\ Head(Loop!BackfillAll) = a
    BY <1>2, <1>3, <1>7
  <2>2. <<b, c, d>> # <<>> /\ <<b, c, d>> \in Seq(Loop!Ops) /\ Head(<<b, c, d>>) = b
    BY <1>2, <1>7
  <2>3. <<c, d>> # <<>> /\ <<c, d>> \in Seq(Loop!Ops) /\ Head(<<c, d>>) = c
    BY <1>2, <1>7
  <2>4. <<d>> # <<>> /\ <<d>> \in Seq(Loop!Ops) /\ Head(<<d>>) = d
    BY <1>2, <1>7
  <2>. QED BY <1>1, <1>4, <2>1, <2>2, <2>3, <2>4
<1>9. \A todo \in {Loop!ResetAll, Tail(Loop!ResetAll), Tail(Tail(Loop!ResetAll))} :
        /\ todo # <<>> /\ todo \in Seq(Loop!Ops) /\ Head(todo).kind = "reset"
        /\ Tail(todo) \in {<<>>, Tail(Loop!ResetAll), Tail(Tail(Loop!ResetAll))}
  <2>1. Loop!ResetAll # <<>> /\ Loop!ResetAll \in Seq(Loop!Ops) /\ Head(Loop!ResetAll) = x
    BY <1>2, <1>3, <1>7
  <2>2. <<y, z>> # <<>> /\ <<y, z>> \in Seq(Loop!Ops) /\ Head(<<y, z>>) = y
    BY <1>2, <1>7
  <2>3. <<z>> # <<>> /\ <<z>> \in Seq(Loop!Ops) /\ Head(<<z>>) = z
    BY <1>2, <1>7
  <2>. QED BY <1>1, <1>5, <2>1, <2>2, <2>3
<1>. QED BY <1>6, <1>8, <1>9

\* A task goes on through its list; only a reset that failed drops the rest.
LEMMA GoesOn ==
  ASSUME Loop!TypeOK, Loop!LockInv, NEW t \in Loop!Tasks, Loop!Step(t)
  PROVE  /\ UNCHANGED <<date, ticked, spent>> /\ \A s \in Loop!Tasks : s # t => task'[s] = task[s]
         /\ task[t].todo # <<>>
         /\ \/ task'[t].todo = task[t].todo /\ reached' = reached
            \/ /\ task'[t].todo = Tail(task[t].todo)
               /\ \/ reached' = Loop!Noted(t)
                  \/ /\ reached' = reached
                     /\ t = "tick" /\ Loop!Current(t).of = "monthly" /\ date \notin RebalanceDays
            \/ /\ Loop!Current(t).kind = "reset" /\ task'[t].todo = <<>> /\ reached' = Loop!Noted(t)
<1>1. CASE Loop!Skip(t)
  <2>1. task[t].at # "idle"
    BY <1>1 DEF Loop!Skip
  <2>2. Tail(task[t].todo) \in Seq(Loop!Ops) /\ task[t].todo # <<>>
    BY <2>1, Occupied
  <2>3. task'[t].todo = Tail(task[t].todo) /\ \A s \in Loop!Tasks : s # t => task'[s] = task[s]
    BY <1>1, <2>2, OnwardTyped DEF Loop!Skip
  <2>4. \/ reached' = Loop!Noted(t)
        \/ /\ reached' = reached
           /\ t = "tick" /\ Loop!Current(t).of = "monthly" /\ date \notin RebalanceDays
    BY <1>1 DEF Loop!Skip, Loop!Skipped
  <2>. QED BY <1>1, <2>2, <2>3, <2>4 DEF Loop!Skip
<1>2. CASE Loop!Enter(t)
  <2>1. task[t].at # "idle"
    BY <1>2 DEF Loop!Enter
  <2>2. task'[t].todo = task[t].todo /\ \A s \in Loop!Tasks : s # t => task'[s] = task[s]
    BY <1>2 DEF Loop!Enter, Loop!TypeOK, Loop!TaskStates
  <2>. QED BY <1>2, <2>1, <2>2, Occupied DEF Loop!Enter
<1>3. ASSUME NEW failed \in BOOLEAN, Loop!Finish(t, failed) PROVE
         /\ UNCHANGED <<date, ticked, spent>> /\ \A s \in Loop!Tasks : s # t => task'[s] = task[s]
         /\ task[t].todo # <<>> /\ reached' = Loop!Noted(t)
         /\ \/ task'[t].todo = Tail(task[t].todo)
            \/ Loop!Current(t).kind = "reset" /\ task'[t].todo = <<>>
  <2>1. task[t].at # "idle"
    BY <1>3 DEF Loop!Finish
  <2>2. Tail(task[t].todo) \in Seq(Loop!Ops) /\ task[t].todo # <<>>
    BY <2>1, Occupied
  <2>3. Loop!Remaining(t, failed) \in Seq(Loop!Ops)
        /\ (\/ Loop!Remaining(t, failed) = Tail(task[t].todo)
            \/ Loop!Current(t).kind = "reset" /\ Loop!Remaining(t, failed) = <<>>)
    BY <2>2 DEF Loop!Remaining
  <2>4. task'[t].todo = Loop!Remaining(t, failed) /\ \A s \in Loop!Tasks : s # t => task'[s] = task[s]
    BY <1>3, <2>3, OnwardTyped DEF Loop!Finish
  <2>. QED BY <1>3, <2>2, <2>3, <2>4 DEF Loop!Finish
<1>. QED BY <1>1, <1>2, <1>3 DEF Loop!Step

-----------------------------------------------------------------------------
(* The tick.                                                               *)

LEMMA NotesMore ==
  ASSUME Loop!TypeOK, NEW t \in Loop!Tasks
  PROVE  /\ Loop!Noted(t).cut = reached.cut
         /\ reached.served \subseteq Loop!Noted(t).served /\ reached.attempted \subseteq Loop!Noted(t).attempted
         /\ t = "tick" => Loop!Noted(t).served = reached.served \cup {Loop!Current(t).of}
         /\ t = "bulk" => Loop!Noted(t).attempted = reached.attempted \cup {Loop!Current(t).of}
<1>1. reached \in Loop!Memory
  BY DEF Loop!TypeOK
<1>2. CASE t = "tick"
  BY <1>1, <1>2 DEF Loop!Noted, Loop!TaskStates, Loop!Memory
<1>3. CASE t = "bulk"
  BY <1>1, <1>3 DEF Loop!Noted, Loop!TaskStates, Loop!Memory
<1>4. CASE t # "tick" /\ t # "bulk"
  BY <1>1, <1>4 DEF Loop!Noted
<1>. QED BY <1>2, <1>3, <1>4

LEMMA TickAside ==
  ASSUME Loop!TickInv, task'["tick"].todo = task["tick"].todo, date' = date,
         "tick" \in ticked' <=> "tick" \in ticked, reached.served \subseteq reached'.served,
         "tick" \in reached'.cut <=> "tick" \in reached.cut
  PROVE  Loop!TickInv'
BY DEF Loop!TickInv, Loop!DueToday, Loop!Ahead

LEMMA TickGoesOn ==
  ASSUME Loop!TypeOK, Loop!TickInv, task["tick"].todo # <<>>, task'["tick"].todo = Tail(task["tick"].todo),
         UNCHANGED <<date, ticked>>, reached'.cut = reached.cut, reached.served \subseteq reached'.served,
         Loop!Current("tick").of \in reached'.served \/ Loop!Current("tick").of \notin Loop!DueToday
  PROVE  Loop!TickInv'
<1> DEFINE todo == task["tick"].todo
<1>1. todo \in {Loop!Tick, Tail(Loop!Tick), Tail(Tail(Loop!Tick))}
  BY DEF Loop!TickInv
<1>2. todo \in Seq(Loop!Ops) /\ Tail(todo) \in {<<>>, Loop!Tick, Tail(Loop!Tick), Tail(Tail(Loop!Tick))}
  BY <1>1, TickStages
<1>3. Loop!Ahead(todo) \subseteq {Loop!Current("tick").of} \cup Loop!Ahead(Tail(todo))
  BY <1>2, AheadOfTail DEF Loop!Current
<1>4. "tick" \in ticked /\ date \in TradingDays
  BY DEF Loop!TickInv
<1>5. Loop!DueToday' = Loop!DueToday /\ Loop!Ahead(task["tick"].todo)' = Loop!Ahead(Tail(todo))
  BY DEF Loop!DueToday, Loop!Ahead
<1>6. "tick" \notin reached.cut => Loop!DueToday \ Loop!Ahead(todo) \subseteq reached.served
  BY <1>4 DEF Loop!TickInv
<1>7. "tick" \notin reached'.cut => Loop!DueToday \ Loop!Ahead(Tail(todo)) \subseteq reached'.served
  BY <1>3, <1>6
<1>. QED BY <1>2, <1>4, <1>5, <1>7 DEF Loop!TickInv

LEMMA TickKept ==
  ASSUME Loop!Calendar, Loop!TypeOK, Loop!LockInv, Loop!TickInv, [Loop!Next]_Loop!vars
  PROVE  Loop!TickInv'
<1>0. /\ "tick" \in Loop!Tasks /\ "mark" \in Loop!Tasks /\ "bulk" \in Loop!Tasks
      /\ reached \in Loop!Memory
      /\ task \in [Loop!Tasks -> Loop!TaskStates]
  BY TasksAre DEF Loop!TypeOK
<1>1. CASE Loop!WakeMark
  <2>1. task'["tick"].todo = task["tick"].todo
    BY <1>0, <1>1 DEF Loop!WakeMark, Loop!Wake, Loop!Launch
  <2>2. date' = date /\ reached' = reached /\ ("tick" \in ticked' <=> "tick" \in ticked)
    BY <1>1 DEF Loop!WakeMark, Loop!Wake
  <2>. QED BY <2>1, <2>2, TickAside
<1>2. CASE Loop!WakeTick
  <2>1. "tick" \notin ticked /\ "tick" \in ticked' /\ date' = date
    BY <1>2 DEF Loop!WakeTick, Loop!Wake
  <2>2. task["tick"].todo = <<>>
    BY <2>1 DEF Loop!TickInv
  <2>3. CASE date \in TradingDays
    <3>1. task'["tick"].todo = Loop!Tick
      BY <1>0, <1>2, <2>3 DEF Loop!WakeTick, Loop!Wake, Loop!Launch
    <3>2. Loop!DueToday' \subseteq Loop!Ahead(Loop!Tick)
      BY <2>1, TickStages DEF Loop!DueToday
    <3>. QED BY <2>1, <2>3, <3>1, <3>2 DEF Loop!TickInv, Loop!Ahead
  <2>4. CASE date \notin TradingDays
    <3>1. task'["tick"].todo = <<>>
      BY <1>2, <2>2, <2>4 DEF Loop!WakeTick, Loop!Wake
    <3>. QED BY <2>1, <2>4, <3>1 DEF Loop!TickInv
  <2>. QED BY <2>3, <2>4
<1>3. ASSUME NEW u \in Users, Loop!Request(u) PROVE Loop!TickInv'
  <2>1. task'["tick"].todo = task["tick"].todo
    BY <1>0, <1>3, TasksAre DEF Loop!Request, Loop!Launch
  <2>. QED BY <1>3, <2>1, TickAside DEF Loop!Request
<1>4. CASE Loop!Coordinate(Loop!BackfillAll) \/ Loop!Coordinate(Loop!ResetAll)
  <2>1. task'["tick"].todo = task["tick"].todo
    BY <1>0, <1>4 DEF Loop!Coordinate, Loop!Launch
  <2>2. reached' = [reached EXCEPT !.attempted = {}, !.cut = @ \ {"bulk"}] /\ date' = date /\ ticked' = ticked
    BY <1>4 DEF Loop!Coordinate
  <2>3. reached'.served = reached.served /\ ("tick" \in reached'.cut <=> "tick" \in reached.cut)
    BY <1>0, <2>2
  <2>. QED BY <2>1, <2>2, <2>3, TickAside
<1>5. ASSUME NEW t \in Loop!Tasks, Loop!Step(t) PROVE Loop!TickInv'
  <2>1. UNCHANGED <<date, ticked>> /\ reached'.cut = reached.cut /\ reached.served \subseteq reached'.served
    <3>1. UNCHANGED <<date, ticked>> /\ (reached' = Loop!Noted(t) \/ reached' = reached)
      BY <1>5, GoesOn
    <3>2. Loop!Noted(t).cut = reached.cut /\ reached.served \subseteq Loop!Noted(t).served
      BY <1>0, NotesMore
    <3>. QED BY <3>1, <3>2
  <2>2. CASE t # "tick"
    BY <1>0, <1>5, <2>1, <2>2, GoesOn, TickAside
  <2>3. CASE t = "tick"
    <3>1. task["tick"].todo # <<>>
      BY <1>5, <2>3, GoesOn
    <3>2. Loop!Current("tick").kind = "cycle"
      BY <3>1, TickStages DEF Loop!TickInv, Loop!Current
    <3>3. CASE task'["tick"].todo = task["tick"].todo
      BY <2>1, <3>3, TickAside
    <3>4. CASE /\ task'["tick"].todo = Tail(task["tick"].todo)
               /\ \/ reached' = Loop!Noted(t)
                  \/ t = "tick" /\ Loop!Current(t).of = "monthly" /\ date \notin RebalanceDays
      <4>1. Loop!Current("tick").of \in reached'.served \/ Loop!Current("tick").of \notin Loop!DueToday
        BY <1>0, <2>3, <3>4 DEF Loop!Noted, Loop!DueToday, Loop!TaskStates, Loop!Memory
      <4>. QED BY <2>1, <3>1, <3>4, <4>1, TickGoesOn
    <3>. QED BY <1>5, <2>3, <3>2, <3>3, <3>4, GoesOn
  <2>. QED BY <2>2, <2>3
<1>6. ASSUME NEW l \in Loop!Locks, Loop!Grant(l) PROVE Loop!TickInv'
  <2>1. task'["tick"].todo = task["tick"].todo
    BY <1>0, <1>6 DEF Loop!Grant
  <2>. QED BY <1>6, <2>1, TickAside DEF Loop!Grant
<1>7. CASE Loop!NextDay
  <2>1. task'["tick"].todo = <<>> /\ ticked' = {}
    BY <1>7 DEF Loop!NextDay, Loop!Idle
  <2>. QED BY <2>1 DEF Loop!TickInv
<1>8. CASE Loop!Crash
  <2>1. task'["tick"].todo = <<>> /\ date' = date /\ ticked' = ticked /\ reached'.served = reached.served
        /\ ("tick" \in reached'.cut <=> "tick" \in reached.cut \/ task["tick"] # Loop!Idle)
    BY <1>0, <1>8 DEF Loop!Crash, Loop!Idle
  <2>2. CASE task["tick"] = Loop!Idle
    BY <2>1, <2>2, TickAside DEF Loop!Idle
  <2>3. CASE task["tick"] # Loop!Idle
    BY <2>1, <2>3 DEF Loop!TickInv
  <2>. QED BY <2>2, <2>3
<1>9. CASE UNCHANGED Loop!vars
  BY <1>9, TickAside DEF Loop!vars
<1>. QED BY <1>1, <1>2, <1>3, <1>4, <1>5, <1>6, <1>7, <1>8, <1>9 DEF Loop!Next, Loop!Done

-----------------------------------------------------------------------------
(* The coordinator.                                                        *)

LEMMA BulkAside ==
  ASSUME Loop!BulkInv, task'["bulk"].todo = task["bulk"].todo, reached.attempted \subseteq reached'.attempted
  PROVE  Loop!BulkInv'
BY DEF Loop!BulkInv, Loop!Replaying, Loop!Current, Loop!Ahead

LEMMA BulkGoesOn ==
  ASSUME Loop!TypeOK, Loop!BulkInv, task["bulk"].todo # <<>>,
         \/ task'["bulk"].todo = Tail(task["bulk"].todo)
         \/ Loop!Current("bulk").kind = "reset" /\ task'["bulk"].todo = <<>>,
         reached'.attempted = reached.attempted \cup {Loop!Current("bulk").of}
  PROVE  Loop!BulkInv' /\ (Loop!Replaying /\ task'["bulk"] = Loop!Idle => Loop!Portfolios \subseteq reached'.attempted)
<1> DEFINE todo == task["bulk"].todo
           Replays == {Loop!BackfillAll, Tail(Loop!BackfillAll), Tail(Tail(Loop!BackfillAll)), Tail(Tail(Tail(Loop!BackfillAll)))}
           Resets == {Loop!ResetAll, Tail(Loop!ResetAll), Tail(Tail(Loop!ResetAll))}
<1>1. todo \in Replays \cup Resets
  BY DEF Loop!BulkInv
<1>2. CASE todo \in Replays
  <2>1. /\ todo \in Seq(Loop!Ops) /\ Head(todo).kind = "backfill"
        /\ Tail(todo) \in {<<>>} \cup Replays
    BY <1>2, BulkStages
  <2>2. Loop!Current("bulk").kind = "backfill" /\ Loop!Replaying
    BY <2>1 DEF Loop!Current, Loop!Replaying
  <2>3. task'["bulk"].todo = Tail(todo)
    BY <2>2
  <2>4. Loop!Ahead(todo) \subseteq {Loop!Current("bulk").of} \cup Loop!Ahead(Tail(todo))
    BY <2>1, AheadOfTail DEF Loop!Current
  <2>5. Loop!Portfolios \ Loop!Ahead(todo) \subseteq reached.attempted
    BY <2>2 DEF Loop!BulkInv
  <2>6. Loop!Portfolios \ Loop!Ahead(Tail(todo)) \subseteq reached'.attempted
    BY <2>4, <2>5
  <2>7. Loop!BulkInv'
    BY <2>1, <2>3, <2>6 DEF Loop!BulkInv, Loop!Ahead
  <2>8. ASSUME task'["bulk"] = Loop!Idle PROVE Loop!Portfolios \subseteq reached'.attempted
    <3>1. Tail(todo) = <<>>
      BY <2>3, <2>8 DEF Loop!Idle
    <3>. QED BY <2>6, <3>1, NothingAhead
  <2>. QED BY <2>7, <2>8
<1>3. CASE todo \in Resets
  <2>1. Head(todo).kind = "reset" /\ Tail(todo) \in {<<>>} \cup Resets
    BY <1>3, BulkStages
  <2>2. ~Loop!Replaying
    BY <2>1 DEF Loop!Replaying, Loop!Current
  <2>3. task'["bulk"].todo \in {<<>>} \cup Resets
    BY <2>1
  <2>4. ~Loop!Replaying'
    <3>1. task'["bulk"].todo # <<>> => Head(task'["bulk"].todo).kind = "reset"
      BY <2>3, BulkStages
    <3>. QED BY <3>1 DEF Loop!Replaying, Loop!Current
  <2>. QED BY <2>2, <2>3, <2>4 DEF Loop!BulkInv
<1>. QED BY <1>1, <1>2, <1>3

LEMMA BulkKept ==
  ASSUME Loop!Calendar, Loop!TypeOK, Loop!LockInv, Loop!BulkInv, [Loop!Next]_Loop!vars
  PROVE  Loop!BulkInv' /\ Loop!EndsComplete
<1> USE DEF Loop!EndsComplete
<1>0. /\ "tick" \in Loop!Tasks /\ "mark" \in Loop!Tasks /\ "bulk" \in Loop!Tasks
      /\ reached \in Loop!Memory
      /\ task \in [Loop!Tasks -> Loop!TaskStates]
  BY TasksAre DEF Loop!TypeOK
<1>1. ASSUME task'["bulk"].todo = task["bulk"].todo, reached.attempted \subseteq reached'.attempted
      PROVE  Loop!BulkInv' /\ Loop!EndsComplete
  BY <1>1, BulkAside DEF Loop!Replaying, Loop!Idle
<1>2. CASE Loop!WakeMark \/ Loop!WakeTick
  <2>1. task'["bulk"].todo = task["bulk"].todo
    BY <1>0, <1>2 DEF Loop!WakeMark, Loop!WakeTick, Loop!Wake, Loop!Launch
  <2>2. \/ reached' = reached
        \/ reached' = [reached EXCEPT !.served = {}, !.cut = @ \ {"mark"}]
        \/ reached' = [reached EXCEPT !.served = {}, !.cut = @ \ {"tick"}]
    BY <1>2 DEF Loop!WakeMark, Loop!WakeTick, Loop!Wake
  <2>3. reached'.attempted = reached.attempted
    BY <1>0, <2>2 DEF Loop!TaskStates, Loop!Memory
  <2>. QED BY <1>1, <2>1, <2>3
<1>3. ASSUME NEW u \in Users, Loop!Request(u) PROVE Loop!BulkInv' /\ Loop!EndsComplete
  <2>1. task'["bulk"].todo = task["bulk"].todo
    BY <1>0, <1>3, TasksAre DEF Loop!Request, Loop!Launch
  <2>. QED BY <1>1, <1>3, <2>1 DEF Loop!Request
<1>4. ASSUME NEW ops \in {Loop!BackfillAll, Loop!ResetAll}, Loop!Coordinate(ops) PROVE Loop!BulkInv' /\ Loop!EndsComplete
  <2>1. task["bulk"] = Loop!Idle /\ task'["bulk"] = [at |-> "next", todo |-> ops]
    BY <1>0, <1>4 DEF Loop!Coordinate, Loop!Launch
  <2>2. ~Loop!Replaying
    BY <2>1 DEF Loop!Replaying, Loop!Idle
  <2>3. CASE ops = Loop!BackfillAll
    <3>1. Loop!Portfolios \ Loop!Ahead(Loop!BackfillAll) = {}
      BY BulkStages
    <3>. QED BY <2>1, <2>2, <2>3, <3>1 DEF Loop!BulkInv, Loop!Ahead
  <2>4. CASE ops = Loop!ResetAll
    <3>1. Head(Loop!ResetAll).kind = "reset"
      BY BulkStages
    <3>2. ~Loop!Replaying'
      BY <2>1, <2>4, <3>1 DEF Loop!Replaying, Loop!Current
    <3>. QED BY <2>1, <2>2, <2>4, <3>2 DEF Loop!BulkInv
  <2>. QED BY <2>3, <2>4
<1>5. ASSUME NEW t \in Loop!Tasks, Loop!Step(t) PROVE Loop!BulkInv' /\ Loop!EndsComplete
  <2>1. reached' = Loop!Noted(t) \/ reached' = reached
    BY <1>5, GoesOn
  <2>2. reached.attempted \subseteq reached'.attempted
    BY <2>1, NotesMore
  <2>3. CASE t # "bulk"
    <3>1. task'["bulk"].todo = task["bulk"].todo
      BY <1>0, <1>5, <2>3, GoesOn
    <3>. QED BY <1>1, <2>2, <3>1
  <2>4. CASE t = "bulk"
    <3>1. task["bulk"].todo # <<>>
      BY <1>5, <2>4, GoesOn
    <3>2. CASE task'["bulk"].todo = task["bulk"].todo
      BY <1>1, <2>2, <3>2
    <3>3. CASE /\ reached' = Loop!Noted(t)
               /\ \/ task'["bulk"].todo = Tail(task["bulk"].todo)
                  \/ Loop!Current("bulk").kind = "reset" /\ task'["bulk"].todo = <<>>
      <4>1. reached'.attempted = reached.attempted \cup {Loop!Current("bulk").of}
        BY <2>4, <3>3, NotesMore
      <4>2. Loop!BulkInv' /\ (Loop!Replaying /\ task'["bulk"] = Loop!Idle => Loop!Portfolios \subseteq reached'.attempted)
        BY <3>1, <3>3, <4>1, BulkGoesOn
      <4>3. reached'.attempted \subseteq Loop!Portfolios
        BY <1>0, <1>5, <4>1, Occupied, <3>1 DEF Loop!LockInv, Loop!TaskStates, Loop!Memory
      <4>. QED BY <4>2, <4>3
    <3>. QED BY <1>5, <2>4, <3>2, <3>3, GoesOn
  <2>. QED BY <2>3, <2>4
<1>6. ASSUME NEW l \in Loop!Locks, Loop!Grant(l) PROVE Loop!BulkInv' /\ Loop!EndsComplete
  <2>1. task'["bulk"].todo = task["bulk"].todo
    BY <1>0, <1>6 DEF Loop!Grant
  <2>. QED BY <1>1, <1>6, <2>1 DEF Loop!Grant
<1>7. CASE Loop!NextDay \/ UNCHANGED Loop!vars
  BY <1>1, <1>7 DEF Loop!NextDay, Loop!vars
<1>8. CASE Loop!Crash
  <2>1. task'["bulk"] = Loop!Idle /\ reached'.attempted = reached.attempted
        /\ (task["bulk"] # Loop!Idle => "bulk" \in reached'.cut)
    BY <1>0, <1>8 DEF Loop!Crash
  <2>2. Loop!BulkInv'
    BY <2>1 DEF Loop!BulkInv, Loop!Replaying, Loop!Idle
  <2>3. Loop!Replaying => task["bulk"] # Loop!Idle
    BY DEF Loop!Replaying, Loop!Idle
  <2>. QED BY <2>1, <2>2, <2>3
<1>. QED BY <1>2, <1>3, <1>4, <1>5, <1>6, <1>7, <1>8 DEF Loop!Next, Loop!Done

-----------------------------------------------------------------------------
(* The theorems.                                                           *)

LoopInv == Loop!TypeOK /\ Loop!LockInv /\ Loop!TickInv /\ Loop!BulkInv

LEMMA LoopAtFirst ==
  ASSUME Loop!Calendar, Loop!Init
  PROVE  LoopInv
<1>1. Loop!TypeOK
  BY TasksAre DEF Loop!Init, Loop!TypeOK, Loop!TaskStates, Loop!Memory, Loop!Idle, Loop!Free
<1>2. /\ \A t \in Loop!Tasks : task[t].at = "idle" /\ task[t].todo = <<>>
      /\ \A l \in Loop!Locks : lock[l].owner = Loop!Nobody /\ lock[l].queue = <<>>
      /\ ticked = {}
  BY DEF Loop!Init, Loop!Idle, Loop!Free
<1>3. Loop!Once(<<>>) /\ \A t : ~Loop!Contains(<<>>, t)
  BY DEF Loop!Once, Loop!Contains
<1>4. Loop!LockInv
  BY <1>2, <1>3, TasksAre DEF Loop!LockInv, Loop!Runs, Loop!Waits
<1>5. Loop!TickInv
  BY <1>2, TasksAre DEF Loop!TickInv
<1>6. Loop!BulkInv
  BY <1>2, TasksAre DEF Loop!BulkInv, Loop!Replaying
<1>. QED BY <1>1, <1>4, <1>5, <1>6 DEF LoopInv

LEMMA LoopKeeps ==
  ASSUME Loop!Calendar, LoopInv, [Loop!Next]_Loop!vars
  PROVE  LoopInv' /\ Loop!EndsComplete
BY LoopTypesKept, LocksKept, TickKept, BulkKept DEF LoopInv

LEMMA LoopInvImplies ==
  ASSUME Loop!Calendar, LoopInv
  PROVE  Loop!EveryStageReached /\ Loop!OneUnderEachLock
<1>1. Loop!EveryStageReached
  BY NothingAhead DEF LoopInv, Loop!TickInv, Loop!EveryStageReached, Loop!Idle
<1>2. Loop!OneUnderEachLock
  BY DEF LoopInv, Loop!LockInv, Loop!OneUnderEachLock
<1>. QED BY <1>1, <1>2

\* A scheduler tick is not over before every portfolio that is due today was
\* served or found its own lock taken, whatever the endpoints, the mark loop and
\* a backfill-all do meanwhile and whatever raises (sim.py:2739-2740,
\* 2768-2770), unless a restart cut it off.
THEOREM EveryStageIsReached ==
  ASSUME Loop!Calendar
  PROVE  Loop!Spec => []EveryStageReached
<1>1. Loop!Init => LoopInv
  BY LoopAtFirst
<1>2. LoopInv /\ [Loop!Next]_Loop!vars => LoopInv'
  BY LoopKeeps
<1>3. LoopInv => EveryStageReached
  BY LoopInvImplies
    DEF EveryStageReached, DueToday, Idle, Loop!EveryStageReached, Loop!DueToday, Loop!Idle
<1>. QED BY <1>1, <1>2, <1>3, PTL DEF Loop!Spec

\* Two tasks never work on one portfolio under its lock at once, and a lock is
\* never left to a task that has gone: it is held exactly by the task that runs
\* under it, and its queue holds exactly, and once, the tasks that wait for it.
THEOREM OneTaskPerLock ==
  ASSUME Loop!Calendar
  PROVE  Loop!Spec => [](Loop!LockInv /\ Loop!OneUnderEachLock)
<1>1. Loop!Init => LoopInv
  BY LoopAtFirst
<1>2. LoopInv /\ [Loop!Next]_Loop!vars => LoopInv'
  BY LoopKeeps
<1>3. LoopInv => Loop!LockInv /\ Loop!OneUnderEachLock
  BY LoopInvImplies DEF LoopInv
<1>. QED BY <1>1, <1>2, <1>3, PTL DEF Loop!Spec

\* A backfill-all that comes to its end has attempted all four replays, also
\* when one of them raises (main.py:633-717), unless a restart cut it off: that
\* it comes to its end is liveness, and left to BackfillAllEnds.
THEOREM ReplaysAreComplete ==
  ASSUME Loop!Calendar
  PROVE  Loop!Spec => [][Loop!EndsComplete]_Loop!vars
<1>1. Loop!Init => LoopInv
  BY LoopAtFirst
<1>2. LoopInv /\ [Loop!Next]_Loop!vars => LoopInv'
  BY LoopKeeps
<1>3. LoopInv /\ [Loop!Next]_Loop!vars => [Loop!EndsComplete]_Loop!vars
  BY LoopKeeps
<1>. QED BY <1>1, <1>2, <1>3, PTL DEF Loop!Spec

=============================================================================
