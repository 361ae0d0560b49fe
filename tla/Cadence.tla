------------------------------- MODULE Cadence -------------------------------
(***************************************************************************)
(* What a tick does to the orchestrator's own pacing state: the overrun    *)
(* counter, the graduated safety level, the runtime pressure, the optional *)
(* stages it sheds, and the adaptive interval (tick and adaptInterval in   *)
(* internal/runtime/orchestrator.go).  The gate of TickLoop lets one tick  *)
(* run at a time, so a tick is one step here, for the code of the whole    *)
(* tick, in its order.                                                     *)
(*                                                                         *)
(* What the clock and the telemetry do to a tick is its Conditions: how    *)
(* long it takes, how late it started, how fresh the windows are.          *)
(***************************************************************************)
EXTENDS Integers

CONSTANTS TickInterval,         (* the nominal interval                      *)
          MinTickInterval,      (* not above the nominal one                 *)
          MaxTickInterval,      (* not below it                              *)
          StepNum, StepDen,     (* TickAdaptStep, as a fraction              *)
          SoftNum, SoftDen,     (* its square root, as a fraction            *)
          SafetyModeThreshold,
          MaxOverruns           (* bound: consecutive overruns               *)

ASSUME IntervalAssumption ==
  /\ {TickInterval, MinTickInterval, MaxTickInterval} \subseteq Nat \ {0}
  /\ MinTickInterval <= TickInterval /\ TickInterval <= MaxTickInterval
ASSUME StepAssumption ==
  /\ {StepNum, StepDen, SoftNum, SoftDen} \subseteq Nat \ {0}
  /\ StepNum > StepDen /\ SoftNum > SoftDen
ASSUME ThresholdAssumption ==
  SafetyModeThreshold \in Nat \ {0} /\ MaxOverruns \in Nat

VARIABLES
  tickCount,            (* 0 to 10, then 11 and 12 in turn: only the parity  *)
                        (* of a count above 10 matters                       *)
  consecutiveOverruns,
  safetyLevel,
  safetyMode,
  pressureLevel,
  currentInterval,
  stableTickCount,      (* 0, then 1 to 5 in turn: only the residue modulo 5 *)
                        (* of a positive count matters                       *)
  ran,                  (* the optional stages the last tick ran             *)
  calm,                 (* history: the last tick neither overran nor was    *)
                        (* predicted to                                      *)
  stretchDue,           (* history: the last tick was predicted to overrun   *)
                        (* at the nominal interval with no overrun counted   *)
  cleanTicks            (* history: the clean ticks since the level moved,   *)
                        (* at most 5                                         *)

vars == <<tickCount, consecutiveOverruns, safetyLevel, safetyMode, pressureLevel,
          currentInterval, stableTickCount, ran, calm, stretchDue, cleanTicks>>

Init ==
  /\ tickCount = 0
  /\ consecutiveOverruns = 0
  /\ safetyLevel = 0
  /\ safetyMode = FALSE
  /\ pressureLevel = 0
  /\ currentInterval = TickInterval
  /\ stableTickCount = 0
  /\ ran = {}
  /\ calm = TRUE
  /\ stretchDue = FALSE
  /\ cleanTicks = 0

-------------------------------------------------------------------------------
(* What happens to a tick *)

(* services: the store holds a service; windows: one of them is fresh;     *)
(* strain: the pressure of the jitter and of the windows with few samples; *)
(* staleness: 1 above 0.5, 2 above 0.7; forced: a simulation is forced;    *)
(* late: the deadline has passed before the optional stages; overran: it   *)
(* has passed at the end; heavy: the forecast of the critical stages is    *)
(* above 85% of the deadline.                                              *)
Conditions ==
  {c \in [services : BOOLEAN, windows : BOOLEAN, strain : 0 .. 2, staleness : 0 .. 2,
          forced : BOOLEAN, late : BOOLEAN, overran : BOOLEAN, heavy : BOOLEAN] :
     /\ c.windows => c.services
     /\ ~c.windows => c.staleness = 0
     /\ c.late => c.overran}

Highest(S) == CHOOSE x \in S : \A y \in S : y <= x
AtMost(x, bound) == IF x < bound THEN x ELSE bound

-------------------------------------------------------------------------------
(* The tick *)

(* The first tick that finds windows jumps over the warm-up. *)
Jumps(c) == tickCount = 0 /\ c.windows
NextTick == IF tickCount = 12 THEN 11 ELSE tickCount + 1
CountTick(c) == tickCount' = IF Jumps(c) THEN 10 ELSE NextTick

(* The highest of the pressure signals; the overruns are those before this *)
(* tick.                                                                   *)
ComputePressure(c) ==
  pressureLevel' = Highest({AtMost(consecutiveOverruns, 3), c.strain, c.staleness})

(* The gates of the optional stages. *)
skipSim(c)      == ~c.forced /\ (c.late \/ pressureLevel' >= 2 \/ c.staleness > 0)
skipPredDiff(c) == ~c.forced /\ (c.late \/ pressureLevel' >= 1)
skipPersist(c)  == c.late /\ consecutiveOverruns > 0

OptionalStages(c) ==
  ran' = {stage \in {"sim", "predDiff", "persist"} :
            \/ stage = "sim" /\ ~skipSim(c) /\ (tickCount' % 2 = 0 \/ c.forced)
            \/ stage = "predDiff" /\ ~skipPredDiff(c)
            \/ stage = "persist" /\ ~skipPersist(c)}

CountOverrun(c) ==
  consecutiveOverruns' = IF c.overran THEN consecutiveOverruns + 1
                         ELSE IF consecutiveOverruns > 0 THEN consecutiveOverruns - 1 ELSE 0

(* Slip: the level is computed before the overrun is counted.              *)
Escalate_StaleCount(c) ==
  /\ c.overran
  /\ LET newLevel == AtMost(consecutiveOverruns \div SafetyModeThreshold, 3)
     IN  IF newLevel > safetyLevel
         THEN safetyLevel' = newLevel /\ safetyMode' = (newLevel >= 2)
         ELSE UNCHANGED <<safetyLevel, safetyMode>>

(* The level rises with each threshold multiple of the counter. *)
Escalate(c) ==
  /\ c.overran
  /\ LET newLevel == AtMost(consecutiveOverruns' \div SafetyModeThreshold, 3)
     IN  IF newLevel > safetyLevel
         THEN safetyLevel' = newLevel /\ safetyMode' = (newLevel >= 2)
         ELSE UNCHANGED <<safetyLevel, safetyMode>>

(* The count of stable ticks this tick starts with, or jumps to: 10. *)
StableAtTick(c) == IF Jumps(c) THEN 5 ELSE stableTickCount

(* Slip: one quiet spell clears the level altogether.                      *)
Deescalate_Clears(c) ==
  /\ ~c.overran
  /\ IF safetyLevel > 0 /\ consecutiveOverruns' = 0 /\ StableAtTick(c) = 5
     THEN safetyLevel' = 0 /\ safetyMode' = FALSE
     ELSE UNCHANGED <<safetyLevel, safetyMode>>

(* Slip: the level comes down only while the loop is stretched.            *)
Deescalate_WhileStretched(c) ==
  /\ ~c.overran
  /\ IF safetyLevel > 0 /\ consecutiveOverruns' = 0 /\ StableAtTick(c) = 5
        /\ currentInterval > TickInterval
     THEN safetyLevel' = safetyLevel - 1 /\ safetyMode' = (safetyLevel' >= 2)
     ELSE UNCHANGED <<safetyLevel, safetyMode>>

Deescalate(c) ==
  /\ ~c.overran
  /\ IF safetyLevel > 0 /\ consecutiveOverruns' = 0 /\ StableAtTick(c) = 5
     THEN safetyLevel' = safetyLevel - 1 /\ safetyMode' = (safetyLevel' >= 2)
     ELSE UNCHANGED <<safetyLevel, safetyMode>>

-------------------------------------------------------------------------------
(* adaptInterval, after the tick *)

(* The interval stretched by num/den, in whole units of the clock. *)
Stretched(num, den) == AtMost((currentInterval * num) \div den, MaxTickInterval)

(* Each stable tick closes a fixed share of the gap to the nominal interval. *)
Decayed ==
  Highest({TickInterval + ((currentInterval - TickInterval) * StepDen) \div StepNum,
           MinTickInterval})

HeavyAtNominal(c) ==
  c.heavy /\ currentInterval = TickInterval /\ consecutiveOverruns' = 0 /\ tickCount' > 10

(* A service in the store calls the proactive stretch off. *)
Proactive(c) == HeavyAtNominal(c) /\ ~c.services

(* Slip: the decay is rounded up.                                          *)
Contract_RoundsUp(c) ==
  /\ consecutiveOverruns' < 2 /\ ~Proactive(c)
  /\ currentInterval' =
       IF currentInterval > TickInterval
       THEN TickInterval + ((currentInterval - TickInterval) * StepDen + StepNum - 1) \div StepNum
       ELSE currentInterval
  /\ stableTickCount' = IF currentInterval > TickInterval /\ currentInterval' = TickInterval THEN 0
                        ELSE IF StableAtTick(c) = 5 THEN 1 ELSE StableAtTick(c) + 1

Contract(c) ==
  /\ consecutiveOverruns' < 2 /\ ~Proactive(c)
  /\ currentInterval' = IF currentInterval > TickInterval THEN Decayed ELSE currentInterval
  /\ stableTickCount' = IF currentInterval > TickInterval /\ currentInterval' = TickInterval THEN 0
                        ELSE IF StableAtTick(c) = 5 THEN 1 ELSE StableAtTick(c) + 1

StretchReactive ==
  /\ consecutiveOverruns' >= 2
  /\ currentInterval' = Stretched(StepNum, StepDen)
  /\ stableTickCount' = 0

StretchProactive(c) ==
  /\ consecutiveOverruns' < 2 /\ Proactive(c)
  /\ currentInterval' = Stretched(SoftNum, SoftDen)
  /\ stableTickCount' = 0

adaptInterval(c) == StretchReactive \/ StretchProactive(c) \/ Contract(c)

-------------------------------------------------------------------------------
Witness(c) ==
  /\ calm' = (~c.overran /\ ~c.heavy)
  /\ stretchDue' = HeavyAtNominal(c)
  /\ cleanTicks' = IF c.overran \/ safetyLevel' # safetyLevel THEN 0
                   ELSE AtMost(cleanTicks + 1, 5)

Tick(c) ==
  /\ c.overran => consecutiveOverruns < MaxOverruns
  /\ CountTick(c)
  /\ ComputePressure(c)
  /\ OptionalStages(c)
  /\ CountOverrun(c)
  /\ Escalate(c) \/ Deescalate(c)
  /\ adaptInterval(c)
  /\ Witness(c)

Next == \E c \in Conditions : Tick(c)

(* The loop goes on ticking. *)
Fairness == WF_vars(Next)

SafeSpec == Init /\ [][Next]_vars
Spec == SafeSpec /\ Fairness

-------------------------------------------------------------------------------
(* Properties *)

(* The interval stays between the nominal one and the configured maximum,  *)
(* whatever sequence of stretches and decays produced it.                  *)
TypeOK ==
  /\ tickCount \in 0 .. 12
  /\ consecutiveOverruns \in 0 .. MaxOverruns
  /\ safetyLevel \in 0 .. 3
  /\ safetyMode \in BOOLEAN
  /\ pressureLevel \in 0 .. 3
  /\ currentInterval \in TickInterval .. MaxTickInterval
  /\ stableTickCount \in 0 .. 5
  /\ ran \subseteq {"sim", "predDiff", "persist"}
  /\ calm \in BOOLEAN
  /\ stretchDue \in BOOLEAN
  /\ cleanTicks \in 0 .. 5

(* The safety level is never below what the overruns still counted call    *)
(* for: de-escalation cannot overtake the counter.                         *)
LevelCoversOverruns ==
  /\ safetyLevel >= AtMost(consecutiveOverruns \div SafetyModeThreshold, 3)
  /\ safetyMode <=> safetyLevel >= 2

(* The level moves by one at a time ("level rises by 1 at each threshold   *)
(* multiple", orchestrator.go:1175), also after partial recoveries.        *)
GradualStep == safetyLevel' - safetyLevel \in {-1, 0, 1}
EscalatesGradually == [][GradualStep]_vars

(* The contraction is "monotone, zero oscillation" (orchestrator.go:283):  *)
(* a stretched loop that is not overrunning comes strictly closer to the   *)
(* nominal interval with every tick, and never goes below it.              *)
ContractStep ==
  currentInterval > TickInterval /\ consecutiveOverruns' < 2
    => currentInterval' < currentInterval /\ currentInterval' >= TickInterval
ContractsMonotonically == [][ContractStep]_vars

(* The pacing never jumps: neither the level nor, on the way back, the     *)
(* interval.                                                               *)
NeverJumps == EscalatesGradually /\ ContractsMonotonically

(* When the ticks stay calm for good, the loop recovers completely: level  *)
(* 0, the nominal interval, no overrun remembered.                         *)
Recovered == safetyLevel = 0 /\ currentInterval = TickInterval /\ consecutiveOverruns = 0
Recovers == <>[]calm => <>[]Recovered

(* "safetyMode additionally forces all optional stages off"                *)
(* (orchestrator.go:405).                                                  *)
SafetyModeSheds == [][safetyMode => ran' = {}]_vars

(* "De-escalate one level per 5 clean ticks" (orchestrator.go:1189).       *)
DeescalatesInFive == safetyLevel > 0 => cleanTicks < 5

(* "when EWMA-predicted critical-stage cost > 85% of TickDeadline and no   *)
(* overrun has occurred yet, pre-emptively stretch"                        *)
(* (orchestrator.go:278-280).                                              *)
StretchesAhead == [][stretchDue' => currentInterval' > currentInterval]_vars
===============================================================================
