------------------------------- MODULE Autopilot ------------------------------
(***************************************************************************)
(* The autopilot of one service (internal/autopilot), ticked by the phase  *)
(* runtime: a model predictive optimiser plans a capacity, a safety engine *)
(* may override the plan, and a rollout controller ramps the capacity, the *)
(* retry factor and the cache relief towards what is asked for.  Plan,     *)
(* override and ramp feed on each other's results of the ticks before.     *)
(*                                                                         *)
(* Capacities are whole units and retries are tenths.  Costs, forecasts    *)
(* and energies only choose among the values a stage may return, so every  *)
(* value in the range the stage guarantees may be returned.                *)
(***************************************************************************)
EXTENDS Integers, Sequences

CONSTANTS Required,        (* (arrivals + backlog) / service rate, per tick  *)
          Needs,           (* 1.3 * the upper bound of arrivals / rate       *)
          Seeds,           (* capacities the directives start it with        *)
          MinCapacity, MaxCapacity,   (* bounds of the search: the policy's  *)
          Backlogs,        (* measured backlogs                              *)
          Arrivals,        (* work that arrives in a tick, as capacity       *)
          RetryFactors,    (* factors the plan asks for, in tenths           *)
          UpNormal, UpEmergency, Down,   (* ramps of the capacity            *)
          RetryUp, RetryDown,            (* ramps of the retry factor        *)
          Pressures,       (* percentages by which pressure speeds ramps up  *)
          MaxCapacityRamp, (* what an override adds at most                  *)
          EmergencyBacklog, DegradedBacklog,
          OverrideWindow,  (* ticks the override rate is taken over          *)
          MaxBacklog       (* bound: physical backlogs are counted to it     *)

Lesser(a, b)  == IF a < b THEN a ELSE b
Greater(a, b) == IF a > b THEN a ELSE b
Least(S)    == CHOOSE x \in S : \A y \in S : x <= y
Greatest(S) == CHOOSE x \in S : \A y \in S : x >= y

Asked == Required \cup Needs \cup Seeds \cup {MinCapacity, MaxCapacity}

ASSUME CapacityAssumption ==
  /\ Asked \subseteq Nat /\ Required # {} /\ Needs # {} /\ Seeds # {}
  /\ \E lo, hi \in Asked : \A x \in Asked : lo <= x /\ x <= hi
ASSUME RampAssumption ==
  /\ {UpNormal, UpEmergency, Down, RetryUp, RetryDown, MaxCapacityRamp, OverrideWindow} \subseteq Nat \ {0}
  /\ Pressures \subseteq Nat \ {0} /\ Backlogs \subseteq Nat /\ Arrivals \subseteq Nat
  /\ RetryFactors \subseteq Nat /\ \E hi \in RetryFactors : \A x \in RetryFactors : x <= hi
  /\ {EmergencyBacklog, DegradedBacklog, MaxBacklog} \subseteq Nat

VARIABLES
  capacity,    (* Rollout.CapacityActive; 0 until the first tick            *)
  retry,       (* Rollout.RetryActive                                       *)
  plan,        (* the first capacity target of LastPlan; 0 before           *)
  lastUnsafe,  (* the safety engine's hysteresis                            *)
  history,     (* OverrideHistory                                           *)
  physical,    (* PhysicalBacklog                                           *)
  mid,         (* the memory's midRangeCap; 0 before it is set              *)
  queue        (* history: the queue that arrivals and capacity leave       *)

vars == <<capacity, retry, plan, lastUnsafe, history, physical, mid, queue>>

Init ==
  /\ capacity = 0
  /\ retry = 0
  /\ plan = 0
  /\ lastUnsafe = FALSE
  /\ history = <<>>
  /\ physical = 0
  /\ mid = 0
  /\ queue = 0

-------------------------------------------------------------------------------
(* The phase runtime seeds the capacity when it finds it zero. *)
Seeded == IF capacity = 0 THEN Seeds ELSE {capacity}

Span(a, b) == Lesser(a, b) .. Greater(a, b)

(* The memory keeps a capacity for services that oscillate: the first one, *)
(* then a mean with each later one.                                        *)
MidRange(active) == {mid} \cup (IF mid = 0 THEN {active} ELSE Span(mid, active))

(* The capacity the plan starts from. *)
Starts(active) == {active} \cup (IF mid = 0 THEN {} ELSE Span(active, mid))

(* A mutation moves the capacity, and stays within the bounds. *)
mutate == MinCapacity .. MaxCapacity

(* Optimise: the warm start asks for the required capacity, or, while the  *)
(* backlog is small and the load has not shifted, for a mean of the last   *)
(* plan, the capacity and the required one.  The search may keep the warm  *)
(* start, which is not bounded.                                            *)
Planned(active, required, backlog) ==
  {required} \cup mutate
    \cup (IF plan = 0 \/ backlog > 10 THEN {}
          ELSE UNION {Span(plan, x) \cup Span(required, x) : x \in Starts(active)})

(* Slip: the smaller of the two bounds is mixed up with the greater. *)
fallbackCapacity_Greater(active, target, need) == Greater(need, Greater(active, target) + MaxCapacityRamp)

(* fallbackCapacity: what the upper bound of arrivals needs, but at most   *)
(* one ramp above the capacity and the target.                             *)
fallbackCapacity(active, target, need) == Lesser(need, Greater(active, target) + MaxCapacityRamp)

(* The trajectory looked at starts at a mean of the capacity and the plan. *)
TrajectoryStart(active, target) == Span(active, target)

(* Slip: without the hysteresis an unsafe trajectory overrides each time.  *)
EmergencyOverride_Always(unsafe) == unsafe

(* EmergencyOverride: limits of backlog, latency and energy along the plan *)
(* tell whether it is unsafe; only the first of a row of unsafe ticks      *)
(* overrides.                                                              *)
EmergencyOverride(unsafe) == unsafe /\ ~lastUnsafe

(* The rollout's target: the plan, or the fallback when that is higher.    *)
(* The fallback is taken from the target of the directive.                 *)
EffectiveTargets(active, target, overridden) ==
  IF ~overridden THEN {target}
  ELSE {Greater(target, fallbackCapacity(start, base, need)) :
          start \in TrajectoryStart(active, target), base \in Seeds, need \in Needs}

-------------------------------------------------------------------------------
(* RolloutController.Step.  The queue of intents is emptied each time, so  *)
(* that its pressure is constant; it is part of Pressures.                 *)

modeNext(backlog) ==
  IF backlog > EmergencyBacklog THEN "emergency"
  ELSE IF backlog > DegradedBacklog THEN "degraded" ELSE "normal"

Rate(err, mode) ==
  LET up == IF mode = "normal" THEN UpNormal ELSE UpEmergency
      boosted == IF err > 5 THEN up + Lesser((3 * err) \div 10, up) ELSE up
  IN  IF err < 0 THEN Down ELSE boosted

rampCap(active, target, mode, pressure) ==
  LET rate == (Rate(target - active, mode) * pressure) \div 100
      err == target - active
  IN  active + Greater(-rate, Lesser(rate, err))

(* The ramp of the retry factor does not stop at its target. *)
RetryStep(wish) == IF wish > retry THEN retry + RetryUp ELSE retry - RetryDown

(* The pacing of the ramps is saved and restored unchanged. *)
StepAdaptive(active, target, mode) == {rampCap(active, target, mode, p) : p \in Pressures}

-------------------------------------------------------------------------------
(* RuntimeOrchestrator.Tick *)

(* Slip: every tick starts from the backlog measured. *)
PhysicalStep_Measured(measured, arrival, service) ==
  Lesser(Greater(0, measured + arrival - service), MaxBacklog)

(* The backlog is measured anew whenever the physical one is zero. *)
PhysicalStep(measured, arrival, service) ==
  LET base == IF physical = 0 THEN measured ELSE physical
  IN  Lesser(Greater(0, base + arrival - service), MaxBacklog)

(* The override rate is over the last ticks, this one included. *)
Recorded(flag) ==
  LET h == Append(history, flag) IN IF Len(h) > OverrideWindow THEN Tail(h) ELSE h

Tick(required, measured, arrival, unsafe) ==
  \E active \in Seeded :
    /\ plan' \in Planned(active, required, measured)
    /\ lastUnsafe' = unsafe
    /\ history' = Recorded(IF EmergencyOverride(unsafe) THEN 1 ELSE 0)
    /\ \E target \in EffectiveTargets(active, plan', EmergencyOverride(unsafe)) :
         capacity' \in StepAdaptive(active, target, modeNext(measured))
    /\ \E wish \in RetryFactors : retry' = RetryStep(wish)
    /\ physical' = PhysicalStep(measured, arrival, capacity')
    /\ queue' = Lesser(Greater(0, queue + arrival - capacity'), MaxBacklog)
    /\ mid' \in MidRange(active)

Next ==
  \E required \in Required, measured \in Backlogs, arrival \in Arrivals, unsafe \in BOOLEAN :
     Tick(required, measured, arrival, unsafe)

Spec == Init /\ [][Next]_vars

-------------------------------------------------------------------------------
(* Properties *)

(* The capacity never leaves the range of what was ever asked for: seeds,  *)
(* required capacities, bounds of the search and needs of an override.     *)
(* Plans start from the capacity, overrides add to the larger of both and  *)
(* the ramp is sped up under pressure, yet none of them runs away.  The    *)
(* retry factor, whose ramp stops at no target, stays within one ramp of   *)
(* the factors asked for.                                                  *)
CapacityInRange ==
  /\ capacity # 0 => Least(Asked) <= capacity /\ capacity <= Greatest(Asked)
  /\ -RetryDown <= retry /\ retry <= Greatest(RetryFactors) + RetryUp

(* At most every other tick overrides, so that the override rate, which    *)
(* raises the autonomy mode and tightens the safety margin, stays at or    *)
(* below one half of a full window however long a service is unsafe.       *)
OverridesSpaced ==
  \A i \in 1 .. Len(history) - 1 : history[i] = 0 \/ history[i + 1] = 0

(* The physical backlog, "the ground truth" for the service level, is      *)
(* never below what arrivals and capacity leave, although it is seeded     *)
(* from the measured backlog each time it has reached zero.                *)
NeverUnderstates == queue <= physical

(* What the actuation of a plan must keep, in every tick: the three above. *)
AutopilotSafe == CapacityInRange /\ OverridesSpaced /\ NeverUnderstates

(* Type correctness. *)
TypeOK ==
  /\ capacity \in Int /\ retry \in Int /\ plan \in Int
  /\ lastUnsafe \in BOOLEAN
  /\ history \in Seq({0, 1}) /\ Len(history) <= OverrideWindow
  /\ physical \in 0 .. MaxBacklog /\ queue \in 0 .. MaxBacklog /\ mid \in Int
===============================================================================
