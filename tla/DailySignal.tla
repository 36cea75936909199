---------------------------- MODULE DailySignal ----------------------------
(***************************************************************************)
(* What the daily-core portfolio decides from: the stored ranking and the  *)
(* protection overlays (app/daily_core.py), with the runtime selections    *)
(* that steer both (app/main.py:846-947).                                  *)
(*                                                                         *)
(* A selection is a universe and a momentum variant.  Switching either one *)
(* drops the basket chain in the state file and, in a later step, the      *)
(* stored ranking; the daily cycle and the status endpoint compute         *)
(* rankings meanwhile.  The state file is read and written without an      *)
(* await in between, so each of its updates is one step.                   *)
(*                                                                         *)
(* Prices are reduced to what the overlays read from them: the sign of the *)
(* basket's slope and whether the market is above its average, both fixed  *)
(* for a day.  A streak is cut off at Confirm, which is all that is asked  *)
(* of it.  Operators introduced by "Mutant:" are plausible bugs in the     *)
(* definition that follows them; no action uses them.                      *)
(***************************************************************************)
EXTENDS Integers, FiniteSets

CONSTANTS
  Universes,   \* the constituent files
  Variants,    \* STRATEGY_VARIANTS
  Readers,     \* concurrent status requests
  Confirm,     \* _GRADIENT_CONFIRM
  Gates,       \* the gate modes tried, "off" among them
  Gradients,   \* the gradient modes tried, "off" among them
  Legacy,      \* what a state file from before the split may hold
  DefaultUniverse, DefaultVariant,
  LastDay,     \* bound: days are 1..LastDay
  MaxSwitches, \* bound: selections
  MaxModes,    \* bound: changes of a protection mode
  MaxCycles,   \* bound: cycles per day, 0 for none
  MaxRestarts  \* bound: restarts

Cycle == "cycle"     \* the daily cycle, as a caller of compute_targets
Callers == Readers \cup {Cycle}
Absent == "absent"
Days == 1..LastDay
Selection == [universe: Universes, variant: Variants]

ASSUME ConstantAssumption ==
  /\ Cycle \notin Readers
  /\ DefaultUniverse \in Universes /\ DefaultVariant \in Variants
  /\ Confirm \in Nat \ {0} /\ LastDay \in Nat \ {0}
  /\ MaxSwitches \in Nat /\ MaxModes \in Nat /\ MaxCycles \in Nat
  /\ MaxRestarts \in Nat
  /\ Gates \subseteq {"off", "200", "100", "50"} /\ "off" \in Gates
  /\ Gradients \subseteq {"off", "always", "200", "100", "50"} /\ "off" \in Gradients
  /\ Legacy \subseteq {Absent, "none", "trend200", "gradient200"}
  /\ Legacy \cap {"trend200", "gradient200"} # {} => "200" \in Gates
  /\ "gradient200" \in Legacy => "200" \in Gradients

VARIABLES
  day,       \* the trading day
  slope,     \* sign of the basket's 10-day slope at today's close
  above,     \* whether the market index is above its average
  file,      \* the state file
  ranking,   \* the DailyCoreRanking row
  targets,   \* who holds _targets_lock
  caller,    \* compute_targets under way, by caller
  cycle,     \* the daily cycle under way
  switch,    \* the selection endpoint still has to delete the ranking
  count,     \* what the bounds count
  history    \* what the properties remember; no action reads it

vars == <<day, slope, above, file, ranking, targets, caller, cycle, switch, count, history>>
market == <<day, slope, above>>

-----------------------------------------------------------------------------
(* The state file.                                                         *)

Signs == {-1, 0, 1}
Streak == 0..Confirm
AtMost(n) == IF n > Confirm THEN Confirm ELSE n

\* chain: the selections whose bands' returns were folded into basket_hist;
\* closes: the last folded day, basket_day.
File ==
  [selected: Selection, gate: Gates \cup {Absent}, gradient: Gradients \cup {Absent},
   legacy: Legacy \cup {Absent}, chain: SUBSET Selection, closes: 0..LastDay,
   neg: Streak, pos: Streak, out: BOOLEAN]

\* _protection_settings: the pair, else what the legacy key stood for.
LegacyGate(old) == IF old \in {"trend200", "gradient200"} THEN "200" ELSE "off"
LegacyGradient(old) == IF old = "gradient200" THEN "200" ELSE "off"

Paired(f) == f.gate # Absent /\ f.gradient # Absent
GateOf(f) == IF Paired(f) THEN f.gate ELSE LegacyGate(f.legacy)
GradientOf(f) == IF Paired(f) THEN f.gradient ELSE LegacyGradient(f.legacy)

\* Mutant: basket_hist is not among the keys that are dropped.
SeriesKept(f) == [f EXCEPT !.closes = 0, !.neg = 0, !.pos = 0, !.out = FALSE]

\* _reset_basket_state
WithoutBasket(f) ==
  [f EXCEPT !.chain = {}, !.closes = 0, !.neg = 0, !.pos = 0, !.out = FALSE]

Selected(f, s) == WithoutBasket([f EXCEPT !.selected = s])

WithGate(f, mode) ==
  [f EXCEPT !.gate = mode, !.gradient = GradientOf(f), !.legacy = Absent]

WithGradient(f, mode) ==
  [f EXCEPT !.gate = GateOf(f), !.gradient = mode, !.legacy = Absent]

-----------------------------------------------------------------------------
(* The gradient signal.                                                    *)

Signal == [neg: Streak, pos: Streak, out: BOOLEAN]
Quiet == [neg |-> 0, pos |-> 0, out |-> FALSE]
SignalOf(f) == [neg |-> f.neg, pos |-> f.pos, out |-> f.out]

\* Mutant: a rising close does not end the negative streak.
NegativeStreakKept(g, sign) ==
  [g EXCEPT !.neg = IF sign < 0 THEN AtMost(@ + 1) ELSE @,
            !.pos = IF sign > 0 THEN AtMost(@ + 1) ELSE IF sign < 0 THEN 0 ELSE @]

Counted(g, sign) ==
  [g EXCEPT !.neg = IF sign < 0 THEN AtMost(@ + 1) ELSE IF sign > 0 THEN 0 ELSE @,
            !.pos = IF sign > 0 THEN AtMost(@ + 1) ELSE IF sign < 0 THEN 0 ELSE @]

Flipped(g, armed) ==
  [g EXCEPT !.out = IF @ THEN g.pos < Confirm ELSE armed /\ g.neg >= Confirm]

Evaluated(g, sign, armed) == Flipped(Counted(g, sign), armed)

\* The same rule as the backfill replays it, one close after the other.
ReplayedClose(g, sign, armed) ==
  LET neg == CASE sign < 0 -> AtMost(g.neg + 1) [] sign > 0 -> 0 [] OTHER -> g.neg
      pos == CASE sign < 0 -> 0 [] sign > 0 -> AtMost(g.pos + 1) [] OTHER -> g.pos
  IN  [neg |-> neg, pos |-> pos,
       out |-> \/ ~g.out /\ armed /\ neg >= Confirm
               \/ g.out /\ ~(pos >= Confirm)]

Armed(gradient) == gradient = "always" \/ above

-----------------------------------------------------------------------------
(* Stored ranking and callers.                                             *)

\* at: the day it was stored; a ranking is fresh for a day.
NoRanking == [at |-> 0, by |-> [universe |-> DefaultUniverse, variant |-> DefaultVariant]]
Ranking == [at: 0..LastDay, by: Selection]
Stored == ranking.at > 0
Fresh == Stored /\ day - ranking.at <= 1

\* by: the selection a computation has read so far.
CallerState == [at: {"idle", "queued", "loading", "ranking"}, by: Selection]
NotCalling == [at |-> "idle", by |-> NoRanking.by]

\* band: the selection the band was ranked for; gate, gradient: the modes
\* the deployment has read.
CycleState ==
  [at: {"idle", "targets", "priced", "protect"}, band: Selection,
   gate: Gates, gradient: Gradients]
NoCycle == [at |-> "idle", band |-> NoRanking.by, gate |-> "off", gradient |-> "off"]

\* stored: unforced rankings stored since the last invalidation or day;
\* evaluated: today's close was evaluated; ref: what the replay's rule makes
\* of the evaluated closes since the gradient was switched on; repeated: one
\* of them was evaluated again; frozen: streaks or a flag from before it was
\* switched off were there when it was switched on; late: the last switch of
\* the selection fell into a running cycle.
History == [stored: Nat, evaluated: BOOLEAN, ref: Signal,
            repeated: BOOLEAN, frozen: BOOLEAN, late: BOOLEAN]
Counts == [switches: 0..MaxSwitches, modes: 0..MaxModes, cycles: 0..MaxCycles,
           restarts: 0..MaxRestarts]

TypeOK ==
  /\ day \in Days /\ slope \in Signs /\ above \in BOOLEAN
  /\ file \in File
  /\ ranking \in Ranking
  /\ targets \in SUBSET Callers /\ Cardinality(targets) <= 1
  /\ caller \in [Callers -> CallerState]
  /\ cycle \in CycleState
  /\ switch \in BOOLEAN
  /\ count \in Counts
  /\ history \in History

\* An empty file, one from before the split, or one with both modes.
Init ==
  /\ day = 1 /\ slope \in Signs /\ above \in BOOLEAN
  /\ \E gate \in Gates, gradient \in Gradients, old \in Legacy :
       \E modes \in {<<Absent, Absent, old>>, <<gate, gradient, Absent>>} :
         file = [selected |-> NoRanking.by, gate |-> modes[1], gradient |-> modes[2],
                 legacy |-> modes[3], chain |-> {}, closes |-> 0, neg |-> 0, pos |-> 0,
                 out |-> FALSE]
  /\ ranking = NoRanking
  /\ targets = {}
  /\ caller = [c \in Callers |-> NotCalling]
  /\ cycle = NoCycle
  /\ switch = FALSE
  /\ count = [switches |-> 0, modes |-> 0, cycles |-> 0, restarts |-> 0]
  /\ history = [stored |-> 0, evaluated |-> FALSE, ref |-> Quiet,
                repeated |-> FALSE, frozen |-> FALSE, late |-> FALSE]

-----------------------------------------------------------------------------
(* compute_targets.  The cycle forces a computation; a status request      *)
(* takes a fresh ranking if there is one, and looks again when it has got  *)
(* the lock.                                                               *)

Read(c) ==
  /\ c \in Readers
  /\ caller[c].at = "idle"
  /\ ~Fresh
  /\ caller' = [caller EXCEPT ![c].at = "queued"]
  /\ UNCHANGED <<market, file, ranking, targets, cycle, switch, count, history>>

\* Mutant: no second look under the lock.
ServedUnforced(c) == FALSE

\* Mutant: the cycle takes the stored ranking as well.
ServedAlways(c) == Fresh

Served(c) == c # Cycle /\ Fresh

Leave(c) == caller' = [caller EXCEPT ![c] = NotCalling]

\* The universe is read at once, the variant after the frames are loaded.
TargetsEnter(c) ==
  /\ caller[c].at = "queued"
  /\ targets = {}
  /\ IF Served(c)
     THEN Leave(c) /\ UNCHANGED targets
     ELSE /\ caller' = [caller EXCEPT ![c].at = "loading",
                                      ![c].by.universe = file.selected.universe]
          /\ targets' = {c}
  /\ cycle' = IF c = Cycle /\ Served(c)
              THEN [cycle EXCEPT !.at = "priced", !.band = ranking.by] ELSE cycle
  /\ UNCHANGED <<market, file, ranking, switch, count, history>>

TargetsRank(c) ==
  /\ caller[c].at = "loading"
  /\ caller' = [caller EXCEPT ![c].at = "ranking", ![c].by.variant = file.selected.variant]
  /\ UNCHANGED <<market, file, ranking, targets, cycle, switch, count, history>>

\* No fundamentals, no candles, nobody eligible: a cycle ends there.
TargetsEmpty(c) ==
  /\ caller[c].at \in {"loading", "ranking"}
  /\ Leave(c)
  /\ targets' = {}
  /\ cycle' = IF c = Cycle THEN NoCycle ELSE cycle
  /\ UNCHANGED <<market, file, ranking, switch, count, history>>

TargetsStore(c) ==
  /\ caller[c].at = "ranking"
  /\ Leave(c)
  /\ targets' = {}
  /\ ranking' = [at |-> day, by |-> caller[c].by]
  /\ cycle' = IF c = Cycle THEN [cycle EXCEPT !.at = "priced", !.band = caller[c].by] ELSE cycle
  /\ history' = [history EXCEPT !.stored = IF c = Cycle THEN @ ELSE @ + 1]
  /\ UNCHANGED <<market, file, switch, count>>

ComputeTargets(c) == TargetsEnter(c) \/ TargetsRank(c) \/ TargetsEmpty(c) \/ TargetsStore(c)

-----------------------------------------------------------------------------
(* The daily cycle, as far as it decides; run_deployment's trades are in   *)
(* DailyCore.                                                              *)

CycleStart ==
  /\ cycle.at = "idle"
  /\ MaxCycles = 0 \/ count.cycles < MaxCycles
  /\ count' = [count EXCEPT !.cycles = IF MaxCycles = 0 THEN 0 ELSE @ + 1]
  /\ cycle' = [NoCycle EXCEPT !.at = "targets"]
  /\ caller' = [caller EXCEPT ![Cycle].at = "queued"]
  /\ UNCHANGED <<market, file, ranking, targets, switch, history>>

\* The modes are read, and the frames loaded, before the file is.
ReadModes ==
  /\ cycle.at = "priced"
  /\ cycle' = IF GateOf(file) = "off" /\ GradientOf(file) = "off"
              THEN NoCycle
              ELSE [cycle EXCEPT !.at = "protect", !.gate = GateOf(file),
                                 !.gradient = GradientOf(file)]
  /\ UNCHANGED <<market, file, ranking, targets, caller, switch, count, history>>

\* _protection_decision: the closes not folded yet join the chain by the
\* band's names; the slope is evaluated every time.
Decision(f) ==
  LET g == IF cycle.gradient = "off" THEN Quiet
           ELSE Evaluated(SignalOf(f), slope, Armed(cycle.gradient))
  IN  [f EXCEPT !.chain = IF f.closes < day THEN @ \cup {cycle.band} ELSE @,
                !.closes = day, !.neg = g.neg, !.pos = g.pos, !.out = g.out]

\* The streaks and the flag begin anew.
Forgotten == [history EXCEPT !.ref = Quiet, !.evaluated = FALSE,
                             !.repeated = FALSE, !.frozen = FALSE]

\* The replay evaluates each close once.
Noted ==
  CASE cycle.gradient = "off" -> Forgotten
    [] cycle.gradient # "off" /\ history.evaluated -> [history EXCEPT !.repeated = TRUE]
    [] OTHER -> [history EXCEPT !.ref = ReplayedClose(@, slope, Armed(cycle.gradient)),
                                !.evaluated = TRUE]

\* Without candles nothing is decided.
Decide ==
  /\ cycle.at = "protect"
  /\ cycle' = NoCycle
  /\ \/ UNCHANGED <<file, history>>
     \/ file' = Decision(file) /\ history' = Noted
  /\ UNCHANGED <<market, ranking, targets, caller, switch, count>>

CycleStep == ComputeTargets(Cycle) \/ ReadModes \/ Decide

-----------------------------------------------------------------------------
(* The operator.                                                           *)

\* One of the two is chosen; the basket that is chained next is another one,
\* so its slope today is another one too.
Select(s) ==
  /\ count.switches < MaxSwitches /\ ~switch
  /\ s.universe = file.selected.universe \/ s.variant = file.selected.variant
  /\ count' = [count EXCEPT !.switches = @ + 1]
  /\ file' = Selected(file, s)
  /\ switch' = TRUE
  /\ slope' \in Signs
  /\ history' = [Forgotten EXCEPT !.late = cycle.at # "idle"]
  /\ UNCHANGED <<day, above, ranking, targets, caller, cycle>>

\* The endpoint's own transaction, an await later.
DropRanking ==
  /\ switch
  /\ switch' = FALSE
  /\ ranking' = NoRanking
  /\ history' = [history EXCEPT !.stored = 0]
  /\ UNCHANGED <<market, file, targets, caller, cycle, count>>

ChangeMode ==
  /\ count.modes < MaxModes
  /\ count' = [count EXCEPT !.modes = @ + 1]
  /\ \/ \E mode \in Gates : file' = WithGate(file, mode)
     \/ \E mode \in Gradients : file' = WithGradient(file, mode)
  /\ history' = IF GradientOf(file) = "off"
                THEN [Forgotten EXCEPT !.frozen = SignalOf(file) # Quiet] ELSE history
  /\ UNCHANGED <<market, ranking, targets, caller, cycle, switch>>

\* reset_daily_core's last step, under the cycle's lock.
ResetBasket ==
  /\ cycle.at = "idle"
  /\ file' = WithoutBasket(file)
  /\ history' = [Forgotten EXCEPT !.late = FALSE]
  /\ slope' \in Signs
  /\ UNCHANGED <<day, above, ranking, targets, caller, cycle, switch, count>>

-----------------------------------------------------------------------------
(* The environment.                                                        *)

\* A cycle is over before the next close.
Tick ==
  /\ day < LastDay
  /\ cycle.at = "idle"
  /\ day' = day + 1
  /\ slope' \in Signs /\ above' \in BOOLEAN
  /\ count' = [count EXCEPT !.cycles = 0]
  /\ history' = [history EXCEPT !.stored = 0, !.evaluated = FALSE]
  /\ UNCHANGED <<file, ranking, targets, caller, cycle, switch>>

\* File and row survive, a selection's pending deletion does not.
Restart ==
  /\ count.restarts < MaxRestarts
  /\ count' = [count EXCEPT !.restarts = @ + 1]
  /\ targets' = {}
  /\ caller' = [c \in Callers |-> NotCalling]
  /\ cycle' = NoCycle
  /\ switch' = FALSE
  /\ UNCHANGED <<market, file, ranking, history>>

Next ==
  \/ \E c \in Callers : Read(c) \/ ComputeTargets(c)
  \/ CycleStart \/ ReadModes \/ Decide
  \/ \E s \in Selection : Select(s)
  \/ DropRanking \/ ChangeMode \/ ResetBasket \/ Tick \/ Restart

Spec == Init /\ [][Next]_vars

\* The scheduler starts a cycle every day, the event loop resumes what can go
\* on, and the day passes; a computation finds data again and again.
FairSpec ==
  /\ Spec
  /\ WF_vars(CycleStart) /\ WF_vars(Tick) /\ WF_vars(DropRanking)
  /\ WF_vars(ReadModes) /\ WF_vars(Decide)
  /\ \A c \in Callers :
       SF_vars(TargetsEnter(c)) /\ SF_vars(TargetsRank(c)) /\ SF_vars(TargetsStore(c))

-----------------------------------------------------------------------------
(* Properties.                                                             *)

\* Two status requests that both find no fresh ranking make one computation,
\* not two, whatever cycles and switches come between ("the loser now reads
\* the winner's freshly stored ranking").
RankedOnce == history.stored <= 1

\* The streaks and the cash-out flag the live engine keeps across cycles are
\* those the backfill's replay derives from the same closes.  They part in two
\* ways only: by a close evaluated again, for which run_daily_cycle calls a
\* re-run harmless, or by what _protection_decision, not called while both
\* overlays are off, left in the file for the next switch of the gradient.
SignalMatchesReplay ==
  ~history.repeated /\ ~history.frozen => SignalOf(file) = history.ref

\* The chain holds the closes of the running selection's band alone ("a switch
\* must not splice the old price series"), whatever cycles fail or are repeated,
\* unless the switch fell into a running cycle.
ChainOfOneBasket == ~history.late => file.chain \subseteq {file.selected}

\* The stored ranking is one of the running selection once cycles went on
\* after a switch.
RankingCatchesUp ==
  (Stored /\ ranking.by # file.selected) ~> (~Stored \/ ranking.by = file.selected)

-----------------------------------------------------------------------------
(* Inductive invariants.                                                   *)

\* Who computes a ranking holds the lock; a status request does so only when
\* none was stored since the last deletion or day, and one that was is fresh.
QueueInv ==
  /\ \A c \in Callers : caller[c].at \in {"loading", "ranking"} => targets = {c}
  /\ \A c \in Readers : caller[c].at \in {"loading", "ranking"} => history.stored = 0
  /\ history.stored > 0 => Fresh

\* Where no switch came between, a cycle ranks and decides for the running
\* selection; it computes its ranking before anything else.
BandInv ==
  /\ caller[Cycle].at # "idle" => cycle.at = "targets"
  /\ ~history.late =>
       /\ caller[Cycle].at \in {"loading", "ranking"} =>
            caller[Cycle].by.universe = file.selected.universe
       /\ caller[Cycle].at = "ranking" => caller[Cycle].by = file.selected
       /\ cycle.at \in {"priced", "protect"} => cycle.band = file.selected

=============================================================================
