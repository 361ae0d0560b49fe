---------------------------- MODULE ForecastProofs -----------------------------
(***************************************************************************)
(* Proofs about what the engine works out beside its ticks, for every      *)
(* value of the constants and any number of steps.  The autopilot's loop   *)
(* of plan, override and ramp does not run away, and overrides do not      *)
(* follow on each other; a simulated request is never lost and its         *)
(* verdict agrees with its services; a batch of experiments hands on every *)
(* result in order and none twice; a record whose call returned is kept;   *)
(* what is learned is learned once; full autonomy is a matter of the first *)
(* ticks; and every service is modelled once a tick.                       *)
(***************************************************************************)
EXTENDS Forecast, FiniteSetTheorems, SequenceTheorems, WellFoundedInduction, TLAPS

-------------------------------------------------------------------------------
(* The inductive invariant, in parts *)

(* In the range of what was ever asked for. *)
InRange(x) == Least(Asked) <= x /\ x <= Greatest(Asked)

(* CapacityInRange alone is not inductive: the next plan starts from the   *)
(* last one and from the memory's capacity, which must be in range as well. *)
LoopInv ==
  /\ capacity # 0 => InRange(capacity)
  /\ plan # 0 => InRange(plan)
  /\ mid # 0 => InRange(mid)

RetryInv == -RetryDown <= retry /\ retry <= Greatest(RetryFactors) + RetryUp

(* An override is recorded last only while the hysteresis holds. *)
HysteresisInv ==
  /\ history # <<>> /\ history[Len(history)] = 1 => lastUnsafe
  /\ OverridesSpaced

IInv == TypeOK /\ LoopInv /\ RetryInv /\ HysteresisInv /\ NeverUnderstates

-------------------------------------------------------------------------------
(* What the stages of a tick keep *)

(* The bounds exist and enclose everything that is asked for. *)
LEMMA AskedInRange ==
  /\ Least(Asked) \in Nat /\ Greatest(Asked) \in Nat
  /\ \A x \in Asked : x \in Nat /\ InRange(x)
<1>1. PICK lo \in Asked, hi \in Asked : \A x \in Asked : lo <= x /\ x <= hi
  BY CapacityAssumption
<1>2. Asked \subseteq Nat
  BY CapacityAssumption
<1>3. Least(Asked) \in Asked /\ \A x \in Asked : Least(Asked) <= x
  BY <1>1 DEF Least
<1>4. Greatest(Asked) \in Asked /\ \A x \in Asked : Greatest(Asked) >= x
  BY <1>1, <1>2 DEF Greatest
<1> QED BY <1>2, <1>3, <1>4 DEF InRange

(* The factors the plan asks for have a greatest one. *)
LEMMA GreatestFactor ==
  /\ Greatest(RetryFactors) \in Nat
  /\ \A x \in RetryFactors : x \in Nat /\ x <= Greatest(RetryFactors)
<1>1. PICK hi \in RetryFactors : \A x \in RetryFactors : x <= hi
  BY RampAssumption
<1>2. RetryFactors \subseteq Nat
  BY RampAssumption
<1>3. Greatest(RetryFactors) \in RetryFactors /\ \A x \in RetryFactors : Greatest(RetryFactors) >= x
  BY <1>1, <1>2 DEF Greatest
<1> QED BY <1>2, <1>3

(* A mean of two capacities in range is in range. *)
LEMMA SpanInRange ==
  ASSUME NEW a \in Int, NEW b \in Int, InRange(a), InRange(b), NEW x \in Span(a, b)
  PROVE  x \in Int /\ InRange(x)
BY AskedInRange DEF Span, Lesser, Greater, InRange

(* The warm start and its mutations stay in range. *)
LEMMA PlannedInRange ==
  ASSUME TypeOK, LoopInv, NEW active \in Int, InRange(active),
         NEW required \in Required, NEW backlog, NEW x \in Planned(active, required, backlog)
  PROVE  x \in Int /\ InRange(x)
<1>1. required \in Asked /\ MinCapacity \in Asked /\ MaxCapacity \in Asked
  BY DEF Asked
<1>2. CASE x = required
  BY <1>1, <1>2, AskedInRange
<1>3. CASE x \in mutate
  BY <1>1, <1>3, AskedInRange DEF mutate, InRange
<1>4. ASSUME plan # 0, NEW y \in Starts(active), x \in Span(plan, y) \cup Span(required, y)
      PROVE  x \in Int /\ InRange(x)
  <2>1. y \in Int /\ InRange(y)
    <3>1. CASE y = active
      BY <3>1
    <3>2. CASE mid # 0 /\ y \in Span(active, mid)
      BY <3>2, SpanInRange DEF TypeOK, LoopInv
    <3> QED BY <1>4, <3>1, <3>2 DEF Starts
  <2>2. plan \in Int /\ InRange(plan)
    BY <1>4 DEF TypeOK, LoopInv
  <2>3. required \in Int /\ InRange(required)
    BY <1>1, AskedInRange
  <2>4. CASE x \in Span(plan, y)
    BY <2>1, <2>2, <2>4, SpanInRange
  <2>5. CASE x \in Span(required, y)
    BY <2>1, <2>3, <2>5, SpanInRange
  <2> QED BY <1>4, <2>4, <2>5
<1> QED BY <1>2, <1>3, <1>4 DEF Planned

(* An override adds to the larger of capacity and target, yet never more   *)
(* than the upper bound of arrivals needs.                                 *)
LEMMA TargetInRange ==
  ASSUME NEW active \in Int, InRange(active), NEW target \in Int, InRange(target),
         NEW overridden \in BOOLEAN, NEW x \in EffectiveTargets(active, target, overridden)
  PROVE  x \in Int /\ InRange(x)
<1>1. CASE ~overridden
  BY <1>1 DEF EffectiveTargets
<1>2. CASE overridden
  <2>1. PICK start \in TrajectoryStart(active, target), base \in Seeds, need \in Needs :
          x = Greater(target, fallbackCapacity(start, base, need))
    BY <1>2 DEF EffectiveTargets
  <2>2. start \in Int /\ InRange(start)
    BY SpanInRange DEF TrajectoryStart
  <2>3. base \in Asked /\ need \in Asked
    BY DEF Asked
  <2>4. base \in Int /\ need \in Int /\ InRange(need)
    BY <2>3, AskedInRange
  <2>5. fallbackCapacity(start, base, need) \in Int /\ fallbackCapacity(start, base, need) <= need
    BY <2>2, <2>4, RampAssumption DEF fallbackCapacity, Lesser, Greater
  <2> QED BY <2>1, <2>4, <2>5, AskedInRange DEF InRange, Greater
<1> QED BY <1>1, <1>2

(* However pressure speeds a ramp up, its rate is not negative. *)
LEMMA RatePositive ==
  ASSUME NEW err \in Int, NEW mode, NEW p \in Pressures
  PROVE  (Rate(err, mode) * p) \div 100 \in Nat
<1>1. {UpNormal, UpEmergency, Down} \subseteq Nat /\ p \in Nat
  BY RampAssumption
<1>2. err > 5 => (3 * err) \div 10 \in Nat
  OBVIOUS
<1>3. Rate(err, mode) \in Nat
  BY <1>1, <1>2 DEF Rate, Lesser
<1>4. \A m, n \in Nat : m * n \in Nat
  OBVIOUS
<1>5. Rate(err, mode) * p \in Nat
  BY <1>1, <1>3, <1>4
<1>6. \A n \in Nat : n \div 100 \in Nat
  OBVIOUS
<1> QED BY <1>5, <1>6

(* A ramp stops at its target: it moves the capacity towards it and never  *)
(* past it.                                                                *)
LEMMA RampInRange ==
  ASSUME NEW active \in Int, InRange(active), NEW target \in Int, InRange(target),
         NEW mode, NEW p \in Pressures
  PROVE  /\ rampCap(active, target, mode, p) \in Int
         /\ InRange(rampCap(active, target, mode, p))
<1> DEFINE rate == (Rate(target - active, mode) * p) \div 100
           err  == target - active
           move == Greater(-rate, Lesser(rate, err))
<1>1. rate \in Nat
  BY RatePositive
<1>2. rampCap(active, target, mode, p) = active + move
  BY DEF rampCap
<1>3. \A r \in Nat, e \in Int :
        /\ Greater(-r, Lesser(r, e)) \in Int
        /\ e >= 0 => 0 <= Greater(-r, Lesser(r, e)) /\ Greater(-r, Lesser(r, e)) <= e
        /\ e < 0 => e <= Greater(-r, Lesser(r, e)) /\ Greater(-r, Lesser(r, e)) <= 0
  BY DEF Greater, Lesser
<1>e. err \in Int
  OBVIOUS
<1> HIDE DEF rate, err
<1>4. move \in Int /\ (err >= 0 => 0 <= move /\ move <= err) /\ (err < 0 => err <= move /\ move <= 0)
  BY <1>1, <1>3, <1>e
<1> HIDE DEF move
<1> QED BY <1>2, <1>4, AskedInRange DEF InRange, err

-------------------------------------------------------------------------------
(* Each part of the invariant is preserved *)

(* What Tick does, stage by stage, from an invariant state. *)
LEMMA TickStages ==
  ASSUME IInv, NEW required \in Required, NEW measured \in Backlogs,
         NEW arrival \in Arrivals, NEW unsafe \in BOOLEAN,
         Tick(required, measured, arrival, unsafe)
  PROVE  /\ plan' \in Int /\ InRange(plan')
         /\ capacity' \in Int /\ InRange(capacity')
         /\ mid' \in Int /\ (mid' # 0 => InRange(mid'))
<1>1. PICK active \in Seeded :
        /\ plan' \in Planned(active, required, measured)
        /\ \E target \in EffectiveTargets(active, plan', EmergencyOverride(unsafe)) :
             capacity' \in StepAdaptive(active, target, modeNext(measured))
        /\ mid' \in MidRange(active)
  BY DEF Tick
<1>2. active \in Int /\ InRange(active)
  BY AskedInRange DEF IInv, TypeOK, LoopInv, Seeded, Asked
<1>3. plan' \in Int /\ InRange(plan')
  BY <1>1, <1>2, PlannedInRange DEF IInv
<1>4. capacity' \in Int /\ InRange(capacity')
  <2>1. PICK target \in EffectiveTargets(active, plan', EmergencyOverride(unsafe)) :
          capacity' \in StepAdaptive(active, target, modeNext(measured))
    BY <1>1
  <2>2. EmergencyOverride(unsafe) \in BOOLEAN
    BY DEF EmergencyOverride, IInv, TypeOK
  <2>3. target \in Int /\ InRange(target)
    BY <1>2, <1>3, <2>2, TargetInRange
  <2>4. PICK p \in Pressures : capacity' = rampCap(active, target, modeNext(measured), p)
    BY <2>1 DEF StepAdaptive
  <2> QED BY <1>2, <2>3, <2>4, RampInRange
<1>5. mid' \in Int /\ (mid' # 0 => InRange(mid'))
  <2>1. CASE mid' = mid
    BY <2>1 DEF IInv, TypeOK, LoopInv
  <2>2. CASE mid = 0 /\ mid' = active
    BY <1>2, <2>2
  <2>3. CASE mid # 0 /\ mid' \in Span(mid, active)
    BY <1>2, <2>3, SpanInRange DEF IInv, TypeOK, LoopInv
  <2> QED BY <1>1, <2>1, <2>2, <2>3 DEF MidRange
<1> QED BY <1>3, <1>4, <1>5

(* The ramp of the retry factor overshoots its target by one step at most. *)
LEMMA RetryStays ==
  ASSUME retry \in Int, RetryInv, NEW wish \in RetryFactors, retry' = RetryStep(wish)
  PROVE  retry' \in Int /\ RetryInv'
<1>1. RetryUp \in Nat /\ RetryDown \in Nat
  BY RampAssumption
<1> QED BY <1>1, GreatestFactor DEF RetryInv, RetryStep

(* A row of unsafe ticks overrides once. *)
LEMMA HistoryStep ==
  ASSUME TypeOK, HysteresisInv, NEW unsafe \in BOOLEAN, lastUnsafe' = unsafe,
         history' = Recorded(IF EmergencyOverride(unsafe) THEN 1 ELSE 0)
  PROVE  /\ history' \in Seq({0, 1}) /\ Len(history') <= OverrideWindow
         /\ HysteresisInv'
<1> DEFINE flag == IF EmergencyOverride(unsafe) THEN 1 ELSE 0
           h == Append(history, flag)
<1>1. flag \in {0, 1} /\ (flag = 1 => unsafe /\ ~lastUnsafe)
  BY DEF EmergencyOverride
<1>2. history \in Seq({0, 1}) /\ Len(history) \in Nat /\ Len(history) <= OverrideWindow
  BY DEF TypeOK
<1> HIDE DEF flag
<1>3. /\ h \in Seq({0, 1}) /\ Len(h) = Len(history) + 1 /\ h # <<>>
      /\ \A i \in 1 .. Len(history) : h[i] = history[i]
      /\ h[Len(h)] = flag
  BY SMTT(30), <1>1, <1>2
<1>4. \A i \in 1 .. Len(h) - 1 : h[i] = 0 \/ h[i + 1] = 0
  <2> SUFFICES ASSUME NEW i \in 1 .. Len(h) - 1 PROVE h[i] = 0 \/ h[i + 1] = 0
    OBVIOUS
  <2>1. CASE i < Len(history)
    BY <1>2, <1>3, <2>1 DEF HysteresisInv, OverridesSpaced
  <2>2. CASE i = Len(history)
    <3>1. history[i] \in {0, 1} /\ history # <<>>
      BY <1>2, <1>3, <2>2
    <3> QED BY <1>1, <1>2, <1>3, <2>2, <3>1 DEF HysteresisInv
  <2> QED BY <1>2, <1>3, <2>1, <2>2
<1>5. history' = IF Len(h) > OverrideWindow THEN Tail(h) ELSE h
  BY DEF Recorded, flag
<1> HIDE DEF h
<1>6. OverrideWindow \in Nat \ {0}
  BY RampAssumption
<1>7. CASE Len(h) > OverrideWindow
  <2>1. /\ history' \in Seq({0, 1}) /\ Len(history') = Len(h) - 1 /\ Len(history') \in Nat
        /\ \A i \in 1 .. Len(h) - 1 : history'[i] = h[i + 1]
    BY <1>3, <1>5, <1>7
  <2>2. history' # <<>> /\ history'[Len(history')] = h[Len(h)]
    BY <1>2, <1>3, <1>6, <1>7, <2>1
  <2>3. OverridesSpaced'
    BY <1>4, <2>1 DEF OverridesSpaced
  <2> QED BY <1>1, <1>2, <1>3, <2>1, <2>2, <2>3 DEF HysteresisInv
<1>8. CASE ~(Len(h) > OverrideWindow)
  <2>1. history' = h
    BY <1>5, <1>8
  <2>2. OverridesSpaced'
    BY <1>4, <2>1 DEF OverridesSpaced
  <2> QED BY <1>1, <1>2, <1>3, <1>6, <1>8, <2>1, <2>2 DEF HysteresisInv
<1> QED BY <1>7, <1>8

(* Both backlogs lose what the capacity serves and gain what arrives; the  *)
(* measurement is taken only where the physical one has nothing to lose.   *)
LEMMA BacklogStep ==
  ASSUME TypeOK, NeverUnderstates, NEW measured \in Backlogs, NEW arrival \in Arrivals,
         capacity' \in Int, physical' = PhysicalStep(measured, arrival, capacity'),
         queue' = Lesser(Greater(0, queue + arrival - capacity'), MaxBacklog)
  PROVE  physical' \in 0 .. MaxBacklog /\ queue' \in 0 .. MaxBacklog /\ NeverUnderstates'
<1>1. measured \in Nat /\ arrival \in Nat /\ MaxBacklog \in Nat
  BY RampAssumption
<1>2. physical \in Nat /\ queue \in Nat
  BY <1>1 DEF TypeOK
<1> DEFINE base == IF physical = 0 THEN measured ELSE physical
<1>3. base \in Nat /\ queue <= base
  BY <1>1, <1>2 DEF NeverUnderstates
<1>4. physical' = Lesser(Greater(0, base + arrival - capacity'), MaxBacklog)
  BY DEF PhysicalStep
<1> HIDE DEF base
<1>5. \A q, b, a \in Nat, c \in Int :
        LET left(x) == Lesser(Greater(0, x + a - c), MaxBacklog)
        IN  q <= b => left(q) \in 0 .. MaxBacklog /\ left(b) \in 0 .. MaxBacklog /\ left(q) <= left(b)
  BY <1>1 DEF Lesser, Greater
<1> QED BY <1>1, <1>2, <1>3, <1>4, <1>5 DEF NeverUnderstates

-------------------------------------------------------------------------------
(* The inductive invariant and what follows from it *)

LEMMA InitIInv == Init => IInv
<1> SUFFICES ASSUME Init PROVE IInv
  OBVIOUS
<1>1. RetryDown \in Nat /\ RetryUp \in Nat /\ OverrideWindow \in Nat /\ MaxBacklog \in Nat
  BY RampAssumption
<1>2. TypeOK
  <2>1. history \in Seq({0, 1}) /\ Len(history) <= OverrideWindow
    BY <1>1 DEF Init
  <2>2. /\ capacity \in Int /\ retry \in Int /\ plan \in Int /\ mid \in Int
        /\ physical \in 0 .. MaxBacklog /\ queue \in 0 .. MaxBacklog
    BY <1>1 DEF Init
  <2>3. lastUnsafe \in BOOLEAN
    BY DEF Init
  <2> QED BY <2>1, <2>2, <2>3 DEF TypeOK
<1>3. LoopInv /\ RetryInv /\ NeverUnderstates
  BY <1>1, GreatestFactor DEF Init, LoopInv, RetryInv, NeverUnderstates
<1>4. HysteresisInv
  BY DEF Init, HysteresisInv, OverridesSpaced
<1> QED BY <1>2, <1>3, <1>4 DEF IInv

LEMMA Inductive == Spec => []IInv
<1>1. IInv /\ [Next]_vars => IInv'
  <2>1. ASSUME IInv, NEW required \in Required, NEW measured \in Backlogs,
               NEW arrival \in Arrivals, NEW unsafe \in BOOLEAN,
               Tick(required, measured, arrival, unsafe)
        PROVE  IInv'
    <3>1. /\ plan' \in Int /\ InRange(plan')
          /\ capacity' \in Int /\ InRange(capacity')
          /\ mid' \in Int /\ (mid' # 0 => InRange(mid'))
      BY <2>1, TickStages
    <3>2. LoopInv'
      BY <3>1 DEF LoopInv, InRange
    <3>3. retry' \in Int /\ RetryInv'
      <4>1. PICK wish \in RetryFactors : retry' = RetryStep(wish)
        BY <2>1 DEF Tick
      <4> QED BY <2>1, <4>1, RetryStays DEF IInv, TypeOK
    <3>4. /\ history' \in Seq({0, 1}) /\ Len(history') <= OverrideWindow
          /\ lastUnsafe' \in BOOLEAN /\ HysteresisInv'
      <4>1. /\ lastUnsafe' = unsafe
            /\ history' = Recorded(IF EmergencyOverride(unsafe) THEN 1 ELSE 0)
        BY <2>1 DEF Tick
      <4> QED BY <2>1, <4>1, HistoryStep DEF IInv
    <3>5. physical' \in 0 .. MaxBacklog /\ queue' \in 0 .. MaxBacklog /\ NeverUnderstates'
      <4>1. /\ physical' = PhysicalStep(measured, arrival, capacity')
            /\ queue' = Lesser(Greater(0, queue + arrival - capacity'), MaxBacklog)
        BY <2>1 DEF Tick
      <4> QED BY <2>1, <3>1, <4>1, BacklogStep DEF IInv
    <3> QED BY <3>1, <3>2, <3>3, <3>4, <3>5 DEF IInv, TypeOK
  <2>2. ASSUME IInv, UNCHANGED vars PROVE IInv'
    BY <2>2
    DEF vars, IInv, TypeOK, LoopInv, InRange, RetryInv, HysteresisInv, OverridesSpaced,
        NeverUnderstates
  <2> QED BY <2>1, <2>2 DEF Next
<1> QED BY <1>1, InitIInv, PTL DEF Spec

(* The autopilot's variables keep their types, and the history of          *)
(* overrides its window.                                                   *)
THEOREM TypeCorrect == Spec => []TypeOK
<1>1. IInv => TypeOK
  BY DEF IInv
<1> QED BY <1>1, Inductive, PTL

(* Plans, overrides and ramps of the capacity never take it out of the     *)
(* range of what was asked for, whatever the costs prefer and however far  *)
(* pressure speeds the ramps up, and no ramp of the retry factor goes more *)
(* than one step past the factors asked for (rampCap and RolloutController *)
(* .Step, fallbackCapacity of the safety engine).                          *)
THEOREM CapacityStaysInRange == Spec => []CapacityInRange
<1>1. IInv => CapacityInRange
  BY DEF IInv, LoopInv, RetryInv, InRange, CapacityInRange
<1> QED BY <1>1, Inductive, PTL

(* The override of one tick is never followed by another: the hysteresis   *)
(* of EmergencyOverride spends a row of unsafe ticks on one override.      *)
THEOREM OverridesAlternate == Spec => []OverridesSpaced
<1>1. IInv => OverridesSpaced
  BY DEF IInv, HysteresisInv
<1> QED BY <1>1, Inductive, PTL

(* What the actuation of a plan must keep, it keeps in every tick. *)
THEOREM AutopilotStaysSafe == Spec => []AutopilotSafe
<1>1. IInv => NeverUnderstates
  BY DEF IInv
<1> QED BY <1>1, Inductive, CapacityStaysInRange, OverridesAlternate, PTL DEF AutopilotSafe

-------------------------------------------------------------------------------
(* The simulation of a request *)

ServiceStates ==
  [inService : Nat, queued : Nat, queueLen : Nat, maxQueueLen : Nat, queueMass : Nat,
   arrived : Nat, served : Nat, dropped : Nat, rate : Runner!Rates,
   shocked : BOOLEAN, peak : BOOLEAN, steps : Nat, converged : BOOLEAN]

Verdicts ==
  [stable : BOOLEAN, saturated : SUBSET Services, dropping : SUBSET Services,
   convergence : {"none", "converged", "not"}]

RunnerTypes ==
  /\ pending \in [Runner!Kinds -> [Services -> Int]]
  /\ st \in [Services -> ServiceStates]
  /\ collapseDetected \in BOOLEAN
  /\ runs \in Seq(Verdicts)

(* One service, of which departures are scheduled: requests are conserved, *)
(* and the longest queue noted is no shorter than any that has been.       *)
ServiceInv(q, departures) ==
  /\ q.arrived = q.served + q.dropped + q.inService + q.queued
  /\ departures = q.inService
  /\ q.inService <= Concurrency
  /\ q.queued > 0 => q.inService = Concurrency
  /\ q.queued <= q.maxQueueLen /\ q.queueMass <= q.maxQueueLen /\ q.queueLen <= q.maxQueueLen
  /\ q.dropped > 0 => q.maxQueueLen >= maxQueueDepth

(* The shock is still to come, for one service, and then nobody is shocked; *)
(* or it has been, and every shocked service has its next recovery step.   *)
ShockInv ==
  /\ \A s \in Services : pending["recovery"][s] = IF st[s].shocked THEN 1 ELSE 0
  /\ \A s, t \in Services : pending["shock"][s] > 0 /\ pending["shock"][t] > 0 => s = t
  /\ \A s, t \in Services : pending["shock"][s] > 0 => ~st[t].shocked

RunsAgree ==
  \A i \in 1 .. Len(runs) :
    /\ runs[i].stable <=> runs[i].saturated = {}
    /\ runs[i].dropping \subseteq runs[i].saturated

RunnerInv ==
  /\ RunnerTypes
  /\ \A s \in Services : ServiceInv(st[s], pending["departure"][s])
  /\ collapseDetected <=> \E s \in Services : st[s].maxQueueLen >= maxQueueDepth
  /\ ShockInv /\ RunsAgree

(* Steps of one service, which change neither the shock to come nor the    *)
(* events of another.                                                      *)
LEMMA OneService ==
  ASSUME RunnerInv, NEW s \in Services, NEW q \in ServiceStates,
         st' = [st EXCEPT ![s] = q], runs' = runs,
         pending' \in [Runner!Kinds -> [Services -> Int]],
         pending'["shock"] = pending["shock"],
         \A t \in Services \ {s} : pending'["departure"][t] = pending["departure"][t],
         \A t \in Services \ {s} : pending'["recovery"][t] = pending["recovery"][t],
         ServiceInv(q, pending'["departure"][s]),
         pending'["recovery"][s] = IF q.shocked THEN 1 ELSE 0,
         q.shocked => st[s].shocked,
         q.maxQueueLen >= st[s].maxQueueLen,
         q.maxQueueLen >= maxQueueDepth => st[s].maxQueueLen >= maxQueueDepth \/ q.queueLen >= maxQueueDepth,
         collapseDetected' <=> (collapseDetected \/ q.queueLen >= maxQueueDepth)
  PROVE  RunnerInv'
<1> USE SimulationAssumption
<1>0. /\ RunnerTypes /\ ShockInv /\ RunsAgree
      /\ \A t \in Services : ServiceInv(st[t], pending["departure"][t])
      /\ collapseDetected <=> \E t \in Services : st[t].maxQueueLen >= maxQueueDepth
  BY DEF RunnerInv
<1>1. st' \in [Services -> ServiceStates] /\ st'[s] = q /\ \A t \in Services \ {s} : st'[t] = st[t]
  BY <1>0 DEF RunnerTypes
<1>2. collapseDetected' \in BOOLEAN
  OBVIOUS
<1>3. RunnerTypes'
  BY <1>0, <1>1, <1>2 DEF RunnerTypes
<1>4. \A t \in Services : ServiceInv(st'[t], pending'["departure"][t])
  <2> SUFFICES ASSUME NEW t \in Services PROVE ServiceInv(st'[t], pending'["departure"][t])
    OBVIOUS
  <2>1. CASE t = s
    BY <1>1, <2>1
  <2>2. CASE t # s
    <3>1. st'[t] = st[t] /\ pending'["departure"][t] = pending["departure"][t]
      BY <1>1, <2>2
    <3> QED BY <1>0, <3>1
  <2> QED BY <2>1, <2>2
<1>n. q.maxQueueLen \in Nat /\ q.queueLen \in Nat /\ st[s].maxQueueLen \in Nat /\ q.queueLen <= q.maxQueueLen
  <2>1. st[s] \in ServiceStates
    BY <1>0 DEF RunnerTypes
  <2>2. q.queueLen <= q.maxQueueLen
    BY DEF ServiceInv
  <2> QED BY <2>1, <2>2 DEF ServiceStates
<1>5. collapseDetected' <=> \E t \in Services : st'[t].maxQueueLen >= maxQueueDepth
  <2>1. ASSUME collapseDetected' PROVE \E t \in Services : st'[t].maxQueueLen >= maxQueueDepth
    <3>1. CASE q.queueLen >= maxQueueDepth
      BY <1>1, <1>n, <3>1
    <3>2. CASE collapseDetected
      <4>1. PICK t \in Services : st[t].maxQueueLen >= maxQueueDepth
        BY <1>0, <3>2
      <4>2. CASE t = s
        BY <1>1, <1>n, <4>1, <4>2
      <4>3. CASE t # s
        BY <1>1, <4>1, <4>3
      <4> QED BY <4>2, <4>3
    <3> QED BY <2>1, <3>1, <3>2
  <2>2. ASSUME NEW t \in Services, st'[t].maxQueueLen >= maxQueueDepth PROVE collapseDetected'
    <3>1. CASE t = s
      BY <1>0, <1>1, <2>2, <3>1
    <3>2. CASE t # s
      BY <1>0, <1>1, <2>2, <3>2
    <3> QED BY <3>1, <3>2
  <2> QED BY <2>1, <2>2
<1>6. ShockInv'
  <2>1. \A t \in Services : pending'["recovery"][t] = IF st'[t].shocked THEN 1 ELSE 0
    BY <1>0, <1>1 DEF ShockInv
  <2>2. \A t \in Services : st'[t].shocked => st[t].shocked
    BY <1>1
  <2> QED BY <1>0, <2>1, <2>2 DEF ShockInv
<1>7. RunsAgree'
  BY <1>0 DEF RunsAgree
<1> QED BY <1>3, <1>4, <1>5, <1>6, <1>7 DEF RunnerInv

(* What a change of the schedule of one service leaves. *)
LEMMA ScheduledBoth ==
  ASSUME RunnerTypes, NEW s \in Services, NEW a \in Int, NEW d \in Int,
         Runner!Schedule(s, [arrival |-> a, departure |-> d])
  PROVE  /\ pending' \in [Runner!Kinds -> [Services -> Int]]
         /\ pending'["shock"] = pending["shock"] /\ pending'["recovery"] = pending["recovery"]
         /\ pending'["departure"] = [pending["departure"] EXCEPT ![s] = @ + d]
<1>0. /\ pending \in [Runner!Kinds -> [Services -> Int]]
      /\ Runner!Kinds = {"arrival", "departure", "shock", "recovery"}
  BY DEF RunnerTypes, Runner!Kinds
<1>1. \A k \in Runner!Kinds, n \in Int : [pending[k] EXCEPT ![s] = @ + n] \in [Services -> Int]
  BY <1>0
<1>2. pending' = [k \in Runner!Kinds |->
        CASE k = "arrival" -> [pending[k] EXCEPT ![s] = @ + a]
          [] k = "departure" -> [pending[k] EXCEPT ![s] = @ + d]
          [] OTHER -> pending[k]]
  BY DEF Runner!Schedule
<1> QED BY <1>0, <1>1, <1>2

LEMMA ScheduledDeparture ==
  ASSUME RunnerTypes, NEW s \in Services, NEW d \in Int,
         Runner!Schedule(s, [departure |-> d])
  PROVE  /\ pending' \in [Runner!Kinds -> [Services -> Int]]
         /\ pending'["shock"] = pending["shock"] /\ pending'["recovery"] = pending["recovery"]
         /\ pending'["departure"] = [pending["departure"] EXCEPT ![s] = @ + d]
<1>0. /\ pending \in [Runner!Kinds -> [Services -> Int]]
      /\ Runner!Kinds = {"arrival", "departure", "shock", "recovery"}
  BY DEF RunnerTypes, Runner!Kinds
<1>1. \A k \in Runner!Kinds, n \in Int : [pending[k] EXCEPT ![s] = @ + n] \in [Services -> Int]
  BY <1>0
<1>2. pending' = [k \in Runner!Kinds |->
        CASE k = "departure" -> [pending[k] EXCEPT ![s] = @ + d]
          [] OTHER -> pending[k]]
  BY DEF Runner!Schedule
<1> QED BY <1>0, <1>1, <1>2

LEMMA ScheduledRecovery ==
  ASSUME RunnerTypes, NEW s \in Services, NEW r \in Int, NEW a \in Int,
         Runner!Schedule(s, [recovery |-> r, arrival |-> a])
  PROVE  /\ pending' \in [Runner!Kinds -> [Services -> Int]]
         /\ pending'["shock"] = pending["shock"] /\ pending'["departure"] = pending["departure"]
         /\ pending'["recovery"] = [pending["recovery"] EXCEPT ![s] = @ + r]
<1>0. /\ pending \in [Runner!Kinds -> [Services -> Int]]
      /\ Runner!Kinds = {"arrival", "departure", "shock", "recovery"}
  BY DEF RunnerTypes, Runner!Kinds
<1>1. \A k \in Runner!Kinds, n \in Int : [pending[k] EXCEPT ![s] = @ + n] \in [Services -> Int]
  BY <1>0
<1>2. pending' = [k \in Runner!Kinds |->
        CASE k = "arrival" -> [pending[k] EXCEPT ![s] = @ + a]
          [] k = "recovery" -> [pending[k] EXCEPT ![s] = @ + r]
          [] OTHER -> pending[k]]
  BY DEF Runner!Schedule
<1> QED BY <1>0, <1>1, <1>2

LEMMA ArrivalStep ==
  ASSUME RunnerInv, NEW s \in Services, Runner!handleArrival(s)
  PROVE  RunnerInv'
<1> USE SimulationAssumption
<1> DEFINE p == [st[s] EXCEPT !.arrived = @ + 1]
           q == Runner!Admitted(p)
           begun == q.inService - st[s].inService
<1>0. RunnerTypes /\ ShockInv /\ ServiceInv(st[s], pending["departure"][s])
  BY DEF RunnerInv
<1>1. st[s] \in ServiceStates /\ pending["departure"][s] \in Int
  BY <1>0 DEF RunnerTypes, Runner!Kinds
<1>2. /\ p \in ServiceStates /\ p.arrived = st[s].arrived + 1
      /\ p.inService = st[s].inService /\ p.queued = st[s].queued /\ p.queueLen = st[s].queueLen
      /\ p.maxQueueLen = st[s].maxQueueLen /\ p.queueMass = st[s].queueMass
      /\ p.served = st[s].served /\ p.dropped = st[s].dropped /\ p.shocked = st[s].shocked
  BY <1>1 DEF ServiceStates
<1> HIDE DEF p
<1>d. p.inService \in Nat /\ p.queued \in Nat /\ p.queueLen \in Nat /\ p.maxQueueLen \in Nat /\ p.dropped \in Nat
  BY <1>2 DEF ServiceStates
<1> DEFINE len == Runner!Larger(p.queueLen, p.queued + 1)
           top == Runner!Larger(p.maxQueueLen, len)
<1>l. len \in Nat /\ len >= p.queued + 1 /\ len >= p.queueLen /\ (len = p.queued + 1 \/ len = p.queueLen)
  BY <1>d DEF Runner!Larger
<1>t. top \in Nat /\ top >= len /\ top >= p.maxQueueLen /\ (top = len \/ top = p.maxQueueLen)
  <2> HIDE DEF len
  <2> QED BY <1>d, <1>l DEF Runner!Larger
<1> HIDE DEF len, top
<1>a. \/ p.queued >= maxQueueDepth /\ q = [p EXCEPT !.dropped = @ + 1]
      \/ p.inService < Concurrency /\ q = [p EXCEPT !.inService = @ + 1]
      \/ /\ ~(p.inService < Concurrency)
         /\ q = [p EXCEPT !.queued = @ + 1, !.queueLen = len, !.maxQueueLen = top]
  <2>1. CASE p.queued >= maxQueueDepth
    BY <1>d, <2>1 DEF Runner!Admitted
  <2>2. CASE p.queued < maxQueueDepth /\ p.inService < Concurrency
    BY <1>d, <2>2 DEF Runner!Admitted
  <2>3. CASE p.queued < maxQueueDepth /\ ~(p.inService < Concurrency)
    BY <1>d, <2>3 DEF Runner!Admitted, len, top
  <2> QED BY <1>d, <2>1, <2>2, <2>3
<1>3. q \in ServiceStates
  <2> HIDE DEF q
  <2>1. CASE q = [p EXCEPT !.dropped = @ + 1]
    BY <1>2, <2>1 DEF ServiceStates
  <2>2. CASE q = [p EXCEPT !.inService = @ + 1]
    BY <1>2, <2>2 DEF ServiceStates
  <2>3. CASE q = [p EXCEPT !.queued = @ + 1, !.queueLen = len, !.maxQueueLen = top]
    <3>1. p.queued + 1 \in Nat
      BY <1>d
    <3> QED BY <1>2, <1>l, <1>t, <2>3, <3>1 DEF ServiceStates
  <2> QED BY <1>a, <2>1, <2>2, <2>3
<1> HIDE DEF q
<1>4. /\ st' = [st EXCEPT ![s] = q] /\ st'[s] = q /\ runs' = runs
      /\ Runner!Schedule(s, [arrival |-> Runner!NextArrival(s) - 1, departure |-> begun])
      /\ collapseDetected' <=> (collapseDetected \/ q.queueLen >= maxQueueDepth)
  <2>1. st' = [st EXCEPT ![s] = q]
    <3>1. st' = [st EXCEPT ![s] = Runner!Admitted([st[s] EXCEPT !.arrived = @ + 1])]
      BY DEF Runner!handleArrival
    <3> QED BY <3>1 DEF p, q
  <2>2. st'[s] = q
    BY <1>0, <2>1 DEF RunnerTypes
  <2> QED BY <2>1, <2>2 DEF Runner!handleArrival, Runner!NoteCollapse
<1>5. Runner!NextArrival(s) - 1 \in Int /\ begun \in Int
  BY <1>1, <1>3 DEF Runner!NextArrival, ServiceStates
<1>6. /\ pending' \in [Runner!Kinds -> [Services -> Int]]
      /\ pending'["shock"] = pending["shock"] /\ pending'["recovery"] = pending["recovery"]
      /\ pending'["departure"] = [pending["departure"] EXCEPT ![s] = @ + begun]
  <2> HIDE DEF begun
  <2>1. PICK a \in Int : a = Runner!NextArrival(s) - 1
    BY <1>5
  <2>2. Runner!Schedule(s, [arrival |-> a, departure |-> begun])
    BY <1>4, <2>1
  <2> QED BY <1>0, <1>5, <2>2, ScheduledBoth
<1>7. pending'["departure"][s] = pending["departure"][s] + begun
  BY <1>0, <1>6 DEF RunnerTypes, Runner!Kinds
<1>8. /\ ServiceInv(q, pending'["departure"][s]) /\ q.shocked = st[s].shocked
      /\ q.maxQueueLen >= st[s].maxQueueLen
      /\ q.maxQueueLen >= maxQueueDepth => st[s].maxQueueLen >= maxQueueDepth \/ q.queueLen >= maxQueueDepth
  <2>1. CASE p.queued >= maxQueueDepth /\ q = [p EXCEPT !.dropped = @ + 1]
    BY <1>0, <1>1, <1>2, <1>7, <2>1 DEF ServiceInv, ServiceStates
  <2>2. CASE p.inService < Concurrency /\ q = [p EXCEPT !.inService = @ + 1]
    BY <1>0, <1>1, <1>2, <1>7, <2>2 DEF ServiceInv, ServiceStates
  <2>3. CASE /\ ~(p.inService < Concurrency)
             /\ q = [p EXCEPT !.queued = @ + 1, !.queueLen = len, !.maxQueueLen = top]
    <3>1. /\ q.queued = p.queued + 1 /\ q.queueLen = len /\ q.maxQueueLen = top
          /\ q.arrived = p.arrived /\ q.served = p.served /\ q.dropped = p.dropped
          /\ q.inService = p.inService /\ q.queueMass = p.queueMass /\ q.shocked = p.shocked
      BY <1>2, <2>3 DEF ServiceStates
    <3>2. begun = 0
      BY <1>1, <1>2, <3>1 DEF ServiceStates
    <3>3. /\ st[s].served \in Nat /\ st[s].inService \in Nat /\ st[s].arrived \in Nat
          /\ st[s].queueMass \in Nat
      BY <1>1 DEF ServiceStates
    <3>4. q.queued > 0 => q.inService = Concurrency
      BY <1>0, <1>2, <2>3, <3>1, <3>3 DEF ServiceInv
    <3>5. q.arrived = q.served + q.dropped + q.inService + q.queued
      BY <1>0, <1>2, <1>d, <3>1, <3>3 DEF ServiceInv
    <3>6. q.dropped > 0 => q.maxQueueLen >= maxQueueDepth
      BY <1>0, <1>2, <1>d, <1>t, <3>1 DEF ServiceInv
    <3>7. /\ q.queued <= q.maxQueueLen /\ q.queueMass <= q.maxQueueLen /\ q.queueLen <= q.maxQueueLen
      BY <1>0, <1>2, <1>d, <1>l, <1>t, <3>1, <3>3 DEF ServiceInv
    <3>8. pending'["departure"][s] = q.inService /\ q.inService <= Concurrency
      BY <1>0, <1>2, <1>7, <1>d, <3>1, <3>2 DEF ServiceInv
    <3>9. /\ q.maxQueueLen >= st[s].maxQueueLen
          /\ q.maxQueueLen >= maxQueueDepth => st[s].maxQueueLen >= maxQueueDepth \/ q.queueLen >= maxQueueDepth
      BY <1>2, <1>d, <1>l, <1>t, <3>1
    <3> QED BY <1>2, <3>1, <3>4, <3>5, <3>6, <3>7, <3>8, <3>9 DEF ServiceInv
  <2> QED BY <1>a, <2>1, <2>2, <2>3
<1>9. /\ \A t \in Services \ {s} : pending'["departure"][t] = pending["departure"][t]
      /\ \A t \in Services \ {s} : pending'["recovery"][t] = pending["recovery"][t]
      /\ pending'["recovery"][s] = IF q.shocked THEN 1 ELSE 0
  BY <1>0, <1>6, <1>8 DEF RunnerTypes, Runner!Kinds, ShockInv
<1> QED BY <1>3, <1>4, <1>6, <1>8, <1>9, OneService

LEMMA DepartureStep ==
  ASSUME RunnerInv, NEW s \in Services, Runner!handleDeparture(s)
  PROVE  RunnerInv'
<1> USE SimulationAssumption
<1> DEFINE p == st[s]
           q == Runner!Left(p)
           begun == IF p.queued > 0 THEN 0 ELSE -1
<1>0. RunnerTypes /\ ShockInv /\ ServiceInv(st[s], pending["departure"][s])
  BY DEF RunnerInv
<1>1. p \in ServiceStates /\ pending["departure"][s] \in Int /\ pending["departure"][s] > 0
  BY <1>0 DEF RunnerTypes, Runner!Kinds, Runner!handleDeparture
<1> DEFINE len == Runner!Larger(p.queueMass, p.queued - 1)
<1>d. p.queued \in Nat /\ p.queueMass \in Nat
  BY <1>1 DEF ServiceStates
<1>l. p.queued > 0 => len \in Nat /\ (len = p.queueMass \/ len = p.queued - 1)
  BY <1>d DEF Runner!Larger
<1> HIDE DEF len
<1>a. \/ p.queued = 0 /\ q = [p EXCEPT !.served = @ + 1, !.inService = @ - 1]
      \/ p.queued > 0 /\ q = [p EXCEPT !.served = @ + 1, !.queued = @ - 1, !.queueLen = len]
  <2>1. CASE p.queued = 0
    BY <2>1 DEF Runner!Left
  <2>2. CASE p.queued > 0
    BY <2>2 DEF Runner!Left, len
  <2> QED BY <1>d, <2>1, <2>2
<1>4. /\ st' = [st EXCEPT ![s] = q] /\ st'[s] = q /\ runs' = runs
      /\ Runner!Schedule(s, [departure |-> begun])
      /\ collapseDetected' <=> (collapseDetected \/ q.queueLen >= maxQueueDepth)
  <2>1. st' = [st EXCEPT ![s] = q]
    BY DEF Runner!handleDeparture
  <2>2. st'[s] = q
    BY <1>0, <2>1 DEF RunnerTypes
  <2> QED BY <2>1, <2>2 DEF Runner!handleDeparture, Runner!NoteCollapse
<1> HIDE DEF q, p
<1>i. p.inService > 0 /\ p.inService = st[s].inService
  BY <1>0, <1>1 DEF ServiceInv, ServiceStates, p
<1>3. q \in ServiceStates
  <2>1. p.inService - 1 \in Nat /\ (p.queued > 0 => p.queued - 1 \in Nat)
    BY <1>1, <1>i DEF ServiceStates
  <2>2. CASE q = [p EXCEPT !.served = @ + 1, !.inService = @ - 1]
    <3>1. p.served + 1 \in Nat
      BY <1>1 DEF ServiceStates
    <3> QED BY <1>1, <2>1, <2>2, <3>1 DEF ServiceStates
  <2>3. CASE p.queued > 0 /\ q = [p EXCEPT !.served = @ + 1, !.queued = @ - 1, !.queueLen = len]
    <3>1. p.served + 1 \in Nat
      BY <1>1 DEF ServiceStates
    <3> QED BY <1>1, <1>l, <2>1, <2>3, <3>1 DEF ServiceStates
  <2> QED BY <1>a, <2>2, <2>3
<1>6. /\ pending' \in [Runner!Kinds -> [Services -> Int]]
      /\ pending'["shock"] = pending["shock"] /\ pending'["recovery"] = pending["recovery"]
      /\ pending'["departure"] = [pending["departure"] EXCEPT ![s] = @ + begun]
  <2>1. begun \in Int
    OBVIOUS
  <2> HIDE DEF begun
  <2> QED BY <1>0, <1>4, <2>1, ScheduledDeparture
<1>7. pending'["departure"][s] = pending["departure"][s] + begun
  BY <1>0, <1>6 DEF RunnerTypes, Runner!Kinds
<1>8. /\ ServiceInv(q, pending'["departure"][s]) /\ q.shocked = st[s].shocked
      /\ q.maxQueueLen >= st[s].maxQueueLen
      /\ q.maxQueueLen >= maxQueueDepth => st[s].maxQueueLen >= maxQueueDepth \/ q.queueLen >= maxQueueDepth
  <2>0. ServiceInv(p, pending["departure"][s])
    BY <1>0 DEF p
  <2>1. CASE p.queued = 0 /\ q = [p EXCEPT !.served = @ + 1, !.inService = @ - 1]
    BY <1>1, <1>i, <1>7, <2>0, <2>1 DEF ServiceInv, ServiceStates, p
  <2>2. CASE p.queued > 0 /\ q = [p EXCEPT !.served = @ + 1, !.queued = @ - 1, !.queueLen = len]
    BY <1>1, <1>i, <1>l, <1>7, <2>0, <2>2 DEF ServiceInv, ServiceStates, p
  <2> QED BY <1>a, <2>1, <2>2
<1>9. /\ \A t \in Services \ {s} : pending'["departure"][t] = pending["departure"][t]
      /\ \A t \in Services \ {s} : pending'["recovery"][t] = pending["recovery"][t]
      /\ pending'["recovery"][s] = IF q.shocked THEN 1 ELSE 0
  BY <1>0, <1>6, <1>8 DEF RunnerTypes, Runner!Kinds, ShockInv
<1> QED BY <1>3, <1>4, <1>6, <1>8, <1>9, OneService

LEMMA PlantStep ==
  ASSUME RunnerInv, NEW s \in Services, Runner!PhysicsStep(s)
  PROVE  RunnerInv'
<1> USE SimulationAssumption
<1>0. RunnerTypes /\ ShockInv /\ ServiceInv(st[s], pending["departure"][s])
  BY DEF RunnerInv
<1>1. st[s] \in ServiceStates
  BY <1>0 DEF RunnerTypes
<1>d. /\ st[s].queued \in Nat /\ st[s].maxQueueLen \in Nat
  BY <1>1 DEF ServiceStates
<1>2. PICK mass \in 0 .. maxQueueDepth, r \in {"base", "over"} :
        st' = [st EXCEPT ![s].queueMass = mass, ![s].rate = r,
                         ![s].queueLen = Runner!Larger(mass, st[s].queued),
                         ![s].maxQueueLen = Runner!Larger(@, Runner!Larger(mass, st[s].queued))]
  BY DEF Runner!PhysicsStep
<1> DEFINE len == Runner!Larger(mass, st[s].queued)
           top == Runner!Larger(st[s].maxQueueLen, len)
           q == [st[s] EXCEPT !.queueMass = mass, !.rate = r, !.queueLen = len, !.maxQueueLen = top]
<1>3. len \in Nat /\ len >= mass /\ len >= st[s].queued /\ (len = mass \/ len = st[s].queued)
  BY <1>d DEF Runner!Larger
<1>4. st' = [st EXCEPT ![s] = q]
  BY <1>0, <1>2 DEF RunnerTypes
<1> HIDE DEF len
<1>5. top \in Nat /\ top >= len /\ top >= st[s].maxQueueLen /\ (top = len \/ top = st[s].maxQueueLen)
  BY <1>d, <1>3 DEF Runner!Larger
<1> HIDE DEF top
<1>6. r \in Runner!Rates /\ mass \in Nat
  BY DEF Runner!Rates
<1>7. /\ q \in ServiceStates /\ q.queueLen = len /\ q.maxQueueLen = top /\ q.queueMass = mass
      /\ q.queued = st[s].queued /\ q.arrived = st[s].arrived /\ q.served = st[s].served
      /\ q.dropped = st[s].dropped /\ q.inService = st[s].inService /\ q.shocked = st[s].shocked
  BY <1>1, <1>3, <1>5, <1>6 DEF ServiceStates
<1>8. /\ st'[s] = q /\ runs' = runs /\ pending' = pending
      /\ collapseDetected' <=> (collapseDetected \/ q.queueLen >= maxQueueDepth)
  <2>1. st'[s] = q
    BY <1>0, <1>4 DEF RunnerTypes
  <2> QED BY <2>1 DEF Runner!PhysicsStep, Runner!NoteCollapse
<1> HIDE DEF q
<1>9. ServiceInv(q, pending["departure"][s])
  BY <1>0, <1>1, <1>3, <1>5, <1>7 DEF ServiceInv, ServiceStates
<1>10. /\ q.maxQueueLen >= st[s].maxQueueLen
       /\ q.maxQueueLen >= maxQueueDepth => st[s].maxQueueLen >= maxQueueDepth \/ q.queueLen >= maxQueueDepth
  BY <1>5, <1>7
<1>11. pending["recovery"][s] = (IF q.shocked THEN 1 ELSE 0) /\ pending \in [Runner!Kinds -> [Services -> Int]]
  BY <1>0, <1>7 DEF ShockInv, RunnerTypes
<1> QED BY <1>4, <1>7, <1>8, <1>9, <1>10, <1>11, OneService

LEMMA RecoveryStep ==
  ASSUME RunnerInv, NEW s \in Services, Runner!handleRecovery(s)
  PROVE  RunnerInv'
<1> USE SimulationAssumption
<1>0. RunnerTypes /\ ShockInv /\ ServiceInv(st[s], pending["departure"][s])
  BY DEF RunnerInv
<1>1. /\ st[s] \in ServiceStates /\ pending["recovery"][s] \in Int
      /\ pending["recovery"][s] > 0
  BY <1>0 DEF RunnerTypes, Runner!Kinds, Runner!handleRecovery
<1>2. st[s].shocked /\ pending["recovery"][s] = 1
  BY <1>0, <1>1 DEF ShockInv
<1>3. PICK over \in BOOLEAN :
        /\ st' = [st EXCEPT ![s] =
             IF over THEN [st[s] EXCEPT !.steps = @ + 1]
             ELSE [st[s] EXCEPT !.rate = IF s \in idle THEN "zero" ELSE "base",
                            !.shocked = FALSE, !.converged = TRUE]]
        /\ Runner!Schedule(s, [recovery |-> IF over THEN 0 ELSE -1, arrival |-> Runner!NextArrival(s)])
  BY DEF Runner!handleRecovery
<1> DEFINE q == IF over THEN [st[s] EXCEPT !.steps = @ + 1]
                ELSE [st[s] EXCEPT !.rate = IF s \in idle THEN "zero" ELSE "base",
                                   !.shocked = FALSE, !.converged = TRUE]
           step1 == IF over THEN 0 ELSE -1
<1>4. /\ q \in ServiceStates /\ q.queueLen = st[s].queueLen /\ q.maxQueueLen = st[s].maxQueueLen
      /\ q.queueMass = st[s].queueMass
      /\ q.queued = st[s].queued /\ q.arrived = st[s].arrived /\ q.served = st[s].served
      /\ q.dropped = st[s].dropped /\ q.inService = st[s].inService /\ (q.shocked <=> over)
  <2>1. CASE over
    BY <1>1, <1>2, <2>1 DEF ServiceStates
  <2>2. CASE ~over
    <3> DEFINE r == IF s \in idle THEN "zero" ELSE "base"
    <3>1. r \in Runner!Rates
      BY DEF Runner!Rates
    <3>2. q = [st[s] EXCEPT !.rate = r, !.shocked = FALSE, !.converged = TRUE]
      BY <2>2
    <3> HIDE DEF r, q
    <3> QED BY <1>1, <2>2, <3>1, <3>2 DEF ServiceStates
  <2> QED BY <2>1, <2>2
<1>5. st' = [st EXCEPT ![s] = q] /\ st'[s] = q
  <2>1. st' = [st EXCEPT ![s] = q]
    <3>1. CASE over
      BY <1>1, <1>3, <3>1 DEF ServiceStates
    <3>2. CASE ~over
      BY <1>3, <3>2
    <3> QED BY <3>1, <3>2
  <2> QED BY <1>0, <2>1 DEF RunnerTypes
<1> HIDE DEF q
<1>6. runs' = runs /\ (collapseDetected' <=> (collapseDetected \/ q.queueLen >= maxQueueDepth))
  BY <1>5 DEF Runner!handleRecovery, Runner!NoteCollapse
<1>7. /\ pending' \in [Runner!Kinds -> [Services -> Int]]
      /\ pending'["shock"] = pending["shock"] /\ pending'["departure"] = pending["departure"]
      /\ pending'["recovery"] = [pending["recovery"] EXCEPT ![s] = @ + step1]
  <2>1. step1 \in Int /\ Runner!NextArrival(s) \in Int
    BY DEF Runner!NextArrival
  <2>2. Runner!Schedule(s, [recovery |-> step1, arrival |-> Runner!NextArrival(s)])
    BY <1>3
  <2> HIDE DEF step1
  <2>3. PICK a \in Int : a = Runner!NextArrival(s)
    BY <2>1
  <2>4. Runner!Schedule(s, [recovery |-> step1, arrival |-> a])
    BY <2>2, <2>3
  <2> QED BY <1>0, <2>1, <2>4, ScheduledRecovery
<1>8. /\ pending'["recovery"][s] = IF q.shocked THEN 1 ELSE 0
      /\ \A t \in Services \ {s} : pending'["recovery"][t] = pending["recovery"][t]
  <2>1. pending["recovery"] \in [Services -> Int]
    BY <1>0 DEF RunnerTypes, Runner!Kinds
  <2> QED BY <1>2, <1>4, <1>7, <2>1
<1>9. ServiceInv(q, pending'["departure"][s])
  BY <1>0, <1>4, <1>7 DEF ServiceInv
<1>10. /\ q.shocked => st[s].shocked
       /\ q.maxQueueLen >= st[s].maxQueueLen
       /\ q.maxQueueLen >= maxQueueDepth => st[s].maxQueueLen >= maxQueueDepth \/ q.queueLen >= maxQueueDepth
  <2>1. st[s].maxQueueLen \in Nat
    BY <1>1 DEF ServiceStates
  <2> QED BY <1>2, <1>4, <2>1
<1> QED BY <1>4, <1>5, <1>6, <1>7, <1>8, <1>9, <1>10, OneService

(* The shock strikes some services, none of which was shocked before. *)
LEMMA ShockStep ==
  ASSUME RunnerInv, NEW s \in Services, Runner!applyShock(s)
  PROVE  RunnerInv'
<1> USE SimulationAssumption
<1>0. /\ RunnerTypes /\ ShockInv /\ RunsAgree
      /\ \A t \in Services : ServiceInv(st[t], pending["departure"][t])
      /\ collapseDetected <=> \E t \in Services : st[t].maxQueueLen >= maxQueueDepth
  BY DEF RunnerInv
<1>1. PICK hit \in SUBSET Services :
        /\ st' = [t \in Services |-> IF t \in hit THEN Runner!Struck(t) ELSE st[t]]
        /\ pending' = [pending EXCEPT
             !["shock"][s] = 0,
             !["recovery"] = [t \in Services |-> IF t \in hit THEN @[t] + 1 ELSE @[t]],
             !["arrival"][s] = @ + Runner!NextArrival(s)]
  BY DEF Runner!applyShock, Runner!Reached, Runner!RecoveryOf
<1>2. /\ pending["shock"][s] > 0 /\ runs' = runs
      /\ collapseDetected' <=> (collapseDetected \/ st'[s].queueLen >= maxQueueDepth)
  BY DEF Runner!applyShock, Runner!NoteCollapse
<1>3. /\ pending["shock"] \in [Services -> Int] /\ pending["recovery"] \in [Services -> Int]
      /\ pending["departure"] \in [Services -> Int] /\ pending["arrival"] \in [Services -> Int]
      /\ DOMAIN pending = Runner!Kinds
      /\ Runner!Kinds = {"arrival", "departure", "shock", "recovery"}
  BY <1>0 DEF RunnerTypes, Runner!Kinds
<1>4. Runner!NextArrival(s) \in Int
  BY DEF Runner!NextArrival
<1>5. /\ pending'["departure"] = pending["departure"]
      /\ pending'["shock"] = [pending["shock"] EXCEPT ![s] = 0]
      /\ pending'["recovery"] = [t \in Services |->
           IF t \in hit THEN pending["recovery"][t] + 1 ELSE pending["recovery"][t]]
      /\ pending'["arrival"] = [pending["arrival"] EXCEPT ![s] = @ + Runner!NextArrival(s)]
      /\ DOMAIN pending' = Runner!Kinds
      /\ pending' = [k \in Runner!Kinds |-> pending'[k]]
  BY <1>1, <1>3
<1>6. pending' \in [Runner!Kinds -> [Services -> Int]]
  <2>1. /\ pending'["shock"] \in [Services -> Int] /\ pending'["departure"] \in [Services -> Int]
    BY <1>3, <1>5
  <2>2. pending'["recovery"] \in [Services -> Int]
    BY <1>3, <1>5
  <2>3. pending'["arrival"] \in [Services -> Int]
    BY <1>3, <1>4, <1>5
  <2>4. \A k \in Runner!Kinds : pending'[k] \in [Services -> Int]
    BY <1>3, <2>1, <2>2, <2>3
  <2> QED BY <1>5, <2>4
<1>7. \A t \in Services :
        /\ st'[t] \in ServiceStates
        /\ st'[t].queueLen = st[t].queueLen /\ st'[t].maxQueueLen = st[t].maxQueueLen
        /\ st'[t].queueMass = st[t].queueMass
        /\ st'[t].queued = st[t].queued /\ st'[t].arrived = st[t].arrived /\ st'[t].served = st[t].served
        /\ st'[t].dropped = st[t].dropped /\ st'[t].inService = st[t].inService
        /\ st'[t].shocked <=> (t \in hit \/ st[t].shocked)
  <2> SUFFICES ASSUME NEW t \in Services
               PROVE  /\ st'[t] \in ServiceStates
                      /\ st'[t].queueLen = st[t].queueLen /\ st'[t].maxQueueLen = st[t].maxQueueLen
                      /\ st'[t].queueMass = st[t].queueMass
                      /\ st'[t].queued = st[t].queued /\ st'[t].arrived = st[t].arrived
                      /\ st'[t].served = st[t].served
                      /\ st'[t].dropped = st[t].dropped /\ st'[t].inService = st[t].inService
                      /\ st'[t].shocked <=> (t \in hit \/ st[t].shocked)
    OBVIOUS
  <2>1. st[t] \in ServiceStates
    BY <1>0 DEF RunnerTypes
  <2>2. CASE t \in hit
    <3> DEFINE r == IF t \in idle THEN "zero" ELSE "over"
               pk == (t \notin idle)
    <3>1. r \in Runner!Rates /\ pk \in BOOLEAN
      BY DEF Runner!Rates
    <3>2. st'[t] = [st[t] EXCEPT !.shocked = TRUE, !.rate = r, !.peak = pk]
      BY <1>1, <2>2 DEF Runner!Struck
    <3> HIDE DEF r, pk
    <3> QED BY <2>1, <2>2, <3>1, <3>2 DEF ServiceStates
  <2>3. CASE t \notin hit
    BY <1>1, <2>1, <2>3
  <2> QED BY <2>2, <2>3
<1>8. RunnerTypes'
  <2>1. st' \in [Services -> ServiceStates]
    BY <1>1, <1>7
  <2>2. collapseDetected' \in BOOLEAN
    BY DEF Runner!applyShock, Runner!NoteCollapse
  <2> QED BY <1>0, <1>2, <1>6, <2>1, <2>2 DEF RunnerTypes
<1>9. \A t \in Services : ServiceInv(st'[t], pending'["departure"][t])
  BY <1>0, <1>5, <1>7 DEF ServiceInv
<1>10. collapseDetected' <=> \E t \in Services : st'[t].maxQueueLen >= maxQueueDepth
  <2>1. st[s].queueLen >= maxQueueDepth => st[s].maxQueueLen >= maxQueueDepth
    <3>1. st[s].queueLen \in Nat /\ st[s].maxQueueLen \in Nat
      BY <1>0 DEF RunnerTypes, ServiceStates
    <3> QED BY <1>0, <3>1 DEF ServiceInv
  <2> QED BY <1>0, <1>2, <1>7, <2>1
<1>11. ShockInv'
  <2>1. \A t \in Services : ~st[t].shocked /\ pending["recovery"][t] = 0
    BY <1>0, <1>2 DEF ShockInv
  <2>2. \A t \in Services : pending'["recovery"][t] = IF st'[t].shocked THEN 1 ELSE 0
    BY <1>5, <1>7, <2>1
  <2>3. \A t \in Services : ~(pending'["shock"][t] > 0)
    <3> SUFFICES ASSUME NEW t \in Services PROVE ~(pending'["shock"][t] > 0)
      OBVIOUS
    <3>1. CASE t = s
      BY <1>3, <1>5, <3>1
    <3>2. CASE t # s
      <4>1. pending'["shock"][t] = pending["shock"][t]
        BY <1>3, <1>5, <3>2
      <4>2. ~(pending["shock"][t] > 0)
        BY <1>0, <1>2, <3>2 DEF ShockInv
      <4> QED BY <4>1, <4>2
    <3> QED BY <3>1, <3>2
  <2> QED BY <2>2, <2>3 DEF ShockInv
<1>12. RunsAgree'
  BY <1>0, <1>2 DEF RunsAgree
<1> QED BY <1>8, <1>9, <1>10, <1>11, <1>12 DEF RunnerInv

(* The state every scenario begins in. *)
LEMMA ScenarioBegins ==
  ASSUME NEW target
  PROVE  LET first == Runner!FirstEvents(target)
             new   == [s \in Services |-> Runner!NewState(s)]
         IN  /\ first \in [Runner!Kinds -> [Services -> Int]]
             /\ new \in [Services -> ServiceStates]
             /\ \A s \in Services :
                  /\ ServiceInv(new[s], first["departure"][s])
                  /\ new[s].maxQueueLen = 0 /\ ~new[s].shocked
                  /\ first["recovery"][s] = 0
             /\ \A s, t \in Services : first["shock"][s] > 0 /\ first["shock"][t] > 0 => s = t
<1> USE SimulationAssumption
<1> DEFINE first == Runner!FirstEvents(target)
           new == [s \in Services |-> Runner!NewState(s)]
<1>1. /\ first \in [Runner!Kinds -> [Services -> Int]]
      /\ \A s \in Services : first["departure"][s] = 0 /\ first["recovery"][s] = 0
      /\ \A s \in Services : first["shock"][s] = IF s = target THEN 1 ELSE 0
  BY DEF Runner!FirstEvents, Runner!Kinds
<1> HIDE DEF first
<1>2. ASSUME NEW s \in Services
      PROVE  /\ Runner!NewState(s) \in ServiceStates
             /\ ServiceInv(Runner!NewState(s), 0)
             /\ Runner!NewState(s).maxQueueLen = 0 /\ ~Runner!NewState(s).shocked
  <2> DEFINE r == IF s \in idle THEN "zero" ELSE "base"
  <2>1. r \in Runner!Rates
    BY DEF Runner!Rates
  <2>2. Runner!NewState(s) =
          [inService |-> 0, queued |-> 0, queueLen |-> 0, maxQueueLen |-> 0, queueMass |-> 0,
           arrived |-> 0, served |-> 0, dropped |-> 0, rate |-> r,
           shocked |-> FALSE, peak |-> FALSE, steps |-> 0, converged |-> FALSE]
    BY DEF Runner!NewState
  <2> HIDE DEF r
  <2> QED BY <2>1, <2>2 DEF ServiceStates, ServiceInv
<1>3. new \in [Services -> ServiceStates] /\ \A s \in Services : new[s] = Runner!NewState(s)
  BY <1>2
<1> HIDE DEF new
<1>4. /\ \A s \in Services :
           /\ ServiceInv(new[s], first["departure"][s])
           /\ new[s].maxQueueLen = 0 /\ ~new[s].shocked
           /\ first["recovery"][s] = 0
      /\ \A s, t \in Services : first["shock"][s] > 0 /\ first["shock"][t] > 0 => s = t
  BY <1>1, <1>2, <1>3
<1> QED BY <1>1, <1>3, <1>4 DEF first, new

LEMMA FreshScenario ==
  ASSUME NEW target,
         pending = Runner!FirstEvents(target), st = [s \in Services |-> Runner!NewState(s)],
         collapseDetected = FALSE, runs \in Seq(Verdicts), RunsAgree
  PROVE  RunnerInv
<1> USE SimulationAssumption
<1>1. /\ pending \in [Runner!Kinds -> [Services -> Int]] /\ st \in [Services -> ServiceStates]
      /\ \A s \in Services :
           /\ ServiceInv(st[s], pending["departure"][s])
           /\ st[s].maxQueueLen = 0 /\ ~st[s].shocked
           /\ pending["recovery"][s] = 0
      /\ \A s, t \in Services : pending["shock"][s] > 0 /\ pending["shock"][t] > 0 => s = t
  BY ScenarioBegins
<1>2. RunnerTypes
  BY <1>1 DEF RunnerTypes
<1>3. ShockInv
  BY <1>1 DEF ShockInv
<1>4. collapseDetected <=> \E s \in Services : st[s].maxQueueLen >= maxQueueDepth
  BY <1>1
<1> QED BY <1>1, <1>2, <1>3, <1>4 DEF RunnerInv

(* The verdict of a scenario agrees with its services. *)
LEMMA EndStep ==
  ASSUME RunnerInv, Runner!EndScenario
  PROVE  RunnerInv'
<1> USE SimulationAssumption
<1>0. /\ RunnerTypes /\ RunsAgree
      /\ \A t \in Services : ServiceInv(st[t], pending["departure"][t])
      /\ collapseDetected <=> \E t \in Services : st[t].maxQueueLen >= maxQueueDepth
  BY DEF RunnerInv
<1>1. PICK c \in Runner!Convergences : runs' = Append(runs, Runner!Result(c))
  BY DEF Runner!EndScenario
<1>2. PICK target \in Runner!Targets : Runner!StartScenario(target)
  BY DEF Runner!EndScenario
<1>3. c \in {"none", "converged", "not"}
  BY DEF Runner!Convergences
<1> DEFINE v == Runner!Result(c)
<1>4. /\ v.stable = ~collapseDetected
      /\ v.saturated = {s \in Services : st[s].maxQueueLen >= maxQueueDepth}
      /\ v.dropping = {s \in Services : st[s].dropped > 0}
  BY DEF Runner!Result
<1>5. v \in Verdicts
  <2>1. /\ (~collapseDetected) \in BOOLEAN
        /\ {s \in Services : st[s].maxQueueLen >= maxQueueDepth} \in SUBSET Services
        /\ {s \in Services : st[s].dropped > 0} \in SUBSET Services
    OBVIOUS
  <2> QED BY <1>3, <2>1 DEF Runner!Result, Verdicts
<1> HIDE DEF v
<1>6. (v.stable <=> v.saturated = {}) /\ v.dropping \subseteq v.saturated
  <2>1. v.stable <=> v.saturated = {}
    BY <1>0, <1>4
  <2>2. v.dropping \subseteq v.saturated
    BY <1>0, <1>4 DEF ServiceInv
  <2> QED BY <2>1, <2>2
<1>7. runs \in Seq(Verdicts)
  BY <1>0 DEF RunnerTypes
<1>8. /\ runs' \in Seq(Verdicts) /\ Len(runs') = Len(runs) + 1
      /\ \A i \in 1 .. Len(runs) : runs'[i] = runs[i]
      /\ runs'[Len(runs) + 1] = v
  BY <1>1, <1>5, <1>7 DEF v
<1>9. RunsAgree'
  <2>1. \A i \in 1 .. Len(runs) + 1 : i \in 1 .. Len(runs) \/ i = Len(runs) + 1
    BY <1>7
  <2> QED BY <1>0, <1>6, <1>8, <2>1 DEF RunsAgree
<1>10. /\ pending' = Runner!FirstEvents(target) /\ st' = [s \in Services |-> Runner!NewState(s)]
       /\ collapseDetected' = FALSE /\ UNCHANGED idle
  BY <1>2 DEF Runner!StartScenario, Runner!EndScenario
<1>11. /\ pending' \in [Runner!Kinds -> [Services -> Int]] /\ st' \in [Services -> ServiceStates]
       /\ \A s \in Services :
            /\ ServiceInv(st'[s], pending'["departure"][s])
            /\ st'[s].maxQueueLen = 0 /\ ~st'[s].shocked
            /\ pending'["recovery"][s] = 0
       /\ \A s, t \in Services : pending'["shock"][s] > 0 /\ pending'["shock"][t] > 0 => s = t
  BY <1>10, ScenarioBegins
<1>12. RunnerTypes'
  BY <1>8, <1>10, <1>11 DEF RunnerTypes
<1>13. ShockInv'
  BY <1>11 DEF ShockInv
<1>14. collapseDetected' <=> \E s \in Services : st'[s].maxQueueLen >= maxQueueDepth
  BY <1>10, <1>11
<1> QED BY <1>9, <1>11, <1>12, <1>13, <1>14 DEF RunnerInv

LEMMA RunnerInvIsInductive == Runner!Spec => []RunnerInv
<1>1. Runner!Init => RunnerInv
  <2> SUFFICES ASSUME Runner!Init PROVE RunnerInv
    OBVIOUS
  <2>1. PICK target \in Runner!Targets : pending = Runner!FirstEvents(target)
    BY DEF Runner!Init
  <2>2. /\ st = [s \in Services |-> Runner!NewState(s)] /\ collapseDetected = FALSE /\ runs = <<>>
    BY DEF Runner!Init
  <2>3. <<>> \in Seq(Verdicts) /\ Len(<<>>) = 0
    OBVIOUS
  <2>4. runs \in Seq(Verdicts) /\ RunsAgree
    BY <2>2, <2>3 DEF RunsAgree
  <2> QED BY <2>1, <2>2, <2>4, FreshScenario
<1>2. RunnerInv /\ [Runner!Next]_Runner!vars => RunnerInv'
  <2> SUFFICES ASSUME RunnerInv, [Runner!Next]_Runner!vars PROVE RunnerInv'
    OBVIOUS
  <2>1. CASE Runner!Next
    BY <2>1, ArrivalStep, DepartureStep, PlantStep, ShockStep, RecoveryStep, EndStep DEF Runner!Next
  <2>2. CASE UNCHANGED Runner!vars
    BY <2>2 DEF Runner!vars, RunnerInv, RunnerTypes, ServiceInv, ShockInv, RunsAgree
  <2> QED BY <2>1, <2>2
<1> QED BY <1>1, <1>2, PTL DEF Runner!Spec

(* For every set of services and of cascade edges, every limit of the      *)
(* queues and every order of the events, no simulated request is lost and  *)
(* no server idles beside a queue; the verdict on the system agrees with   *)
(* the outcomes of the services, in every scenario and merged; and every   *)
(* shocked service has exactly one recovery step ahead of it.              *)
THEOREM SimulationIsSound == Runner!Spec => []SimulationSound
<1>1. RunnerInv => Runner!Conserved
  BY DEF RunnerInv, ServiceInv, Runner!Conserved
<1>2. RunnerInv => Runner!RecoveryScheduled
  BY DEF RunnerInv, ShockInv, Runner!RecoveryScheduled
<1>3. RunnerInv => Runner!VerdictsAgree
  <2> SUFFICES ASSUME RunnerInv PROVE Runner!VerdictsAgree
    OBVIOUS
  <2>1. runs \in Seq(Verdicts) /\ RunsAgree
    BY DEF RunnerInv, RunnerTypes
  <2>2. DOMAIN runs = 1 .. Len(runs) /\ Len(runs) \in Nat
    BY <2>1
  <2>3. ASSUME Runner!mergeScenarios(runs).stable
        PROVE  Runner!mergeScenarios(runs).saturated = {}
    <3>1. \A i \in 1 .. Len(runs) : runs[i].stable
      BY <2>3 DEF Runner!mergeScenarios
    <3>2. \A i \in 1 .. Len(runs) : runs[i].saturated = {}
      BY <2>1, <3>1 DEF RunsAgree
    <3>3. ASSUME NEW s PROVE ~(2 * Runner!Cardinality({i \in 1 .. Len(runs) : s \in runs[i].saturated}) > Len(runs))
      <4>1. {i \in 1 .. Len(runs) : s \in runs[i].saturated} = {}
        BY <3>2
      <4>2. Runner!Cardinality({}) = 0
        <5>1. Runner!Cardinality({}) = Cardinality({})
          BY DEF Runner!Cardinality, Cardinality, Runner!IsFiniteSet, IsFiniteSet
        <5> QED BY <5>1, FS_EmptySet
      <4>3. Runner!Cardinality({i \in 1 .. Len(runs) : s \in runs[i].saturated}) = 0
        BY Zenon, <4>1, <4>2
      <4> QED BY <2>2, <4>3
    <3>4. Runner!mergeScenarios(runs).saturated =
            {s \in Services : 2 * Runner!Cardinality({i \in 1 .. Len(runs) : s \in runs[i].saturated}) > Len(runs)}
      BY DEF Runner!mergeScenarios
    <3> QED BY <3>3, <3>4
  <2> QED BY <2>1, <2>2, <2>3 DEF RunsAgree, Runner!VerdictsAgree
<1>4. RunnerInv => SimulationSound
  BY <1>1, <1>2, <1>3 DEF SimulationSound
<1> QED BY <1>4, RunnerInvIsInductive, PTL

-------------------------------------------------------------------------------
(* The least element of a set of naturals *)

Smaller == {p \in Nat \X Nat : p[1] < p[2]}

LEMMA SmallerWellFounded == IsWellFoundedOn(Smaller, Nat)
BY Zenon, NatLessThanWellFounded DEF OpToRel, Smaller

LEMMA LeastNatural ==
  ASSUME NEW S \in SUBSET Nat, S # {}
  PROVE  \E m \in S : \A k \in S : m <= k
<1>1. PICK m \in S : \A k \in S : ~ (<<k, m>> \in Smaller)
  BY SmallerWellFounded, WFMin
<1>2. ASSUME NEW k \in S, k < m PROVE FALSE
  <2>1. <<k, m>> \in Nat \X Nat /\ <<k, m>>[1] = k /\ <<k, m>>[2] = m
    OBVIOUS
  <2>2. <<k, m>> \in Smaller
    BY <1>2, <2>1 DEF Smaller
  <2> QED BY <1>1, <2>2
<1> QED BY <1>2

-------------------------------------------------------------------------------
(* A batch of experiments *)

(* What is in a sequence, and that nothing is in it twice.                 *)
Items(q) == {q[i] : i \in 1 .. Len(q)}
Once(q) == \A i, j \in 1 .. Len(q) : q[i] = q[j] => i = j

BatchTypes ==
  /\ cancelled \in BOOLEAN /\ feeder \in BOOLEAN /\ launching \in BOOLEAN /\ resClosed \in BOOLEAN
  /\ fed \in 0 .. NJobs /\ dispatched \in 0 .. fed
  /\ resting \in Nat /\ retiring \in Nat /\ next \in Nat
  /\ resCh \in Seq(Nat) /\ delivered \in Seq(Nat)
  /\ reducer \in {"reduce", "flush", "returned"}

Apart(a, b, c, d, e) ==
  /\ a \cap b = {} /\ a \cap c = {} /\ a \cap d = {} /\ a \cap e = {}
  /\ b \cap c = {} /\ b \cap d = {} /\ b \cap e = {}
  /\ c \cap d = {} /\ c \cap e = {}
  /\ d \cap e = {}

(* A job that was taken is in one place at most: with a worker, before or  *)
(* after its run, in the channel, in the window or with the sink.          *)
PlacesInv ==
  /\ Apart(busy, sending, Items(resCh), held, Items(delivered))
  /\ busy \cup sending \cup Items(resCh) \cup held \cup Items(delivered) \subseteq 0 .. dispatched - 1
  /\ Once(resCh) /\ Once(delivered)

(* The workers of a pool that does not scale stay until the jobs are done, *)
(* and the channel of the results is closed after the last has left.       *)
WorkersInv ==
  ~EnableAutoscale =>
    /\ retiring = 0 /\ ~launching
    /\ resting + Cardinality(busy) + Cardinality(sending) <= InitWorkers
    /\ resClosed => resting = 0 /\ busy = {} /\ sending = {}
    /\ ~cancelled /\ ~feeder => fed = NJobs
    /\ ~cancelled => \/ resting + Cardinality(busy) + Cardinality(sending) = InitWorkers
                     \/ ~feeder /\ dispatched = NJobs

(* Then no job that was taken is lost. *)
LostNothing ==
  ~EnableAutoscale /\ ~cancelled =>
    0 .. dispatched - 1 \subseteq busy \cup sending \cup Items(resCh) \cup held \cup Items(delivered)

(* And the sink is given the results in the order of the jobs.             *)
InOrder ==
  ~EnableAutoscale /\ ~cancelled /\ NJobs <= ReorderWindow + 1 =>
    /\ reducer # "flush"
    /\ reducer = "reduce" => delivered = [i \in 1 .. next |-> i - 1] /\ 0 \notin held
    /\ reducer = "returned" => delivered = [i \in 1 .. NJobs |-> i - 1]

BatchInv == BatchTypes /\ PlacesInv /\ WorkersInv /\ LostNothing /\ InOrder

-------------------------------------------------------------------------------
(* Sequences in which nothing is twice *)

LEMMA ItemsOfAppend ==
  ASSUME NEW S, NEW q \in Seq(S), NEW x \in S
  PROVE  /\ Append(q, x) \in Seq(S)
         /\ Items(Append(q, x)) = Items(q) \cup {x}
         /\ Once(q) /\ x \notin Items(q) => Once(Append(q, x))
<1> DEFINE r == Append(q, x)
           n == Len(q)
<1>1. r \in Seq(S) /\ Len(r) = n + 1 /\ n \in Nat /\ r[n + 1] = x /\ \A i \in 1 .. n : r[i] = q[i]
  OBVIOUS
<1> HIDE DEF r, n
<1>2. \A i \in 1 .. n + 1 : i \in 1 .. n \/ i = n + 1
  BY <1>1
<1>3. Items(r) = {q[i] : i \in 1 .. n} \cup {x}
  <2>1. ASSUME NEW y \in Items(r) PROVE y \in {q[i] : i \in 1 .. n} \cup {x}
    BY <1>1, <1>2, <2>1 DEF Items
  <2>2. ASSUME NEW i \in 1 .. n PROVE q[i] \in Items(r)
    BY <1>1, <2>2 DEF Items
  <2>3. x \in Items(r)
    BY <1>1 DEF Items
  <2> QED BY <2>1, <2>2, <2>3
<1>4. ASSUME Once(q), x \notin Items(q) PROVE Once(r)
  <2>1. \A i \in 1 .. n : q[i] # x
    BY <1>4 DEF Items, n
  <2>2. \A i, j \in 1 .. n : q[i] = q[j] => i = j
    BY <1>4 DEF Once, n
  <2> QED BY <1>1, <1>2, <2>1, <2>2 DEF Once
<1> QED BY <1>1, <1>3, <1>4 DEF Items, r, n

LEMMA ItemsOfTail ==
  ASSUME NEW S, NEW q \in Seq(S), q # <<>>, Once(q)
  PROVE  /\ Head(q) \in S /\ Head(q) \in Items(q)
         /\ Tail(q) \in Seq(S) /\ Items(Tail(q)) = Items(q) \ {Head(q)}
         /\ Once(Tail(q))
<1> DEFINE r == Tail(q)
           n == Len(q)
<1>1. /\ n \in Nat /\ n >= 1 /\ r \in Seq(S) /\ Len(r) = n - 1 /\ Head(q) = q[1]
      /\ \A i \in 1 .. n - 1 : r[i] = q[i + 1]
  OBVIOUS
<1>2. \A i, j \in 1 .. n : q[i] = q[j] => i = j
  BY DEF Once
<1>3. \A i \in 1 .. n : q[i] \in S
  OBVIOUS
<1> HIDE DEF r, n
<1>4. {r[i] : i \in 1 .. n - 1} = {q[i] : i \in 1 .. n} \ {q[1]}
  <2>1. ASSUME NEW i \in 1 .. n - 1 PROVE r[i] \in {q[j] : j \in 1 .. n} \ {q[1]}
    <3>1. i + 1 \in 1 .. n /\ i + 1 # 1 /\ 1 \in 1 .. n
      BY <1>1
    <3> QED BY <1>1, <1>2, <3>1
  <2>2. ASSUME NEW j \in 1 .. n, q[j] # q[1] PROVE q[j] \in {r[i] : i \in 1 .. n - 1}
    <3>1. j - 1 \in 1 .. n - 1 /\ (j - 1) + 1 = j
      BY <1>1, <2>2
    <3>2. r[j - 1] = q[j]
      BY <1>1, <3>1
    <3> QED BY <3>1, <3>2
  <2> QED BY <2>1, <2>2
<1>5. \A i, j \in 1 .. n - 1 : r[i] = r[j] => i = j
  <2> SUFFICES ASSUME NEW i \in 1 .. n - 1, NEW j \in 1 .. n - 1, r[i] = r[j] PROVE i = j
    OBVIOUS
  <2>1. i + 1 \in 1 .. n /\ j + 1 \in 1 .. n
    BY <1>1
  <2> QED BY <1>1, <1>2, <2>1
<1>6. q[1] \in S /\ q[1] \in {q[i] : i \in 1 .. n}
  BY <1>1, <1>3
<1>7. Len(q) = n
  BY DEF n
<1> QED BY <1>1, <1>4, <1>5, <1>6, <1>7 DEF Items, Once, r

LEMMA ItemsOfEmpty == Items(<<>>) = {} /\ Once(<<>>)
BY DEF Items, Once

(* The numbers from a on, one behind the other. *)
LEMMA ItemsOfRun ==
  ASSUME NEW a \in Nat, NEW n \in Nat, NEW S, a .. a + n - 1 \subseteq S
  PROVE  LET run == [i \in 1 .. n |-> a + i - 1]
         IN  run \in Seq(S) /\ Len(run) = n /\ Items(run) = a .. a + n - 1 /\ Once(run)
<1> DEFINE run == [i \in 1 .. n |-> a + i - 1]
<1>1. run \in Seq(S) /\ Len(run) = n
  OBVIOUS
<1>2. \A i \in 1 .. n : run[i] = a + i - 1
  OBVIOUS
<1> HIDE DEF run
<1>3. Items(run) = a .. a + n - 1
  <2>1. ASSUME NEW x \in a .. a + n - 1 PROVE x \in Items(run)
    <3>1. x - a + 1 \in 1 .. n /\ a + (x - a + 1) - 1 = x
      OBVIOUS
    <3> QED BY <1>1, <1>2, <3>1 DEF Items
  <2>2. ASSUME NEW i \in 1 .. n PROVE run[i] \in a .. a + n - 1
    BY <1>2
  <2> QED BY <1>1, <2>1, <2>2 DEF Items
<1>4. Once(run)
  BY <1>1, <1>2 DEF Once
<1> QED BY <1>1, <1>3, <1>4 DEF run

LEMMA ItemsOfConcat ==
  ASSUME NEW S, NEW p \in Seq(S), NEW q \in Seq(S)
  PROVE  /\ p \o q \in Seq(S)
         /\ Items(p \o q) = Items(p) \cup Items(q)
         /\ Once(p) /\ Once(q) /\ Items(p) \cap Items(q) = {} => Once(p \o q)
<1> DEFINE r == p \o q
           m == Len(p)
           n == Len(q)
<1>1. /\ r \in Seq(S) /\ m \in Nat /\ n \in Nat /\ Len(r) = m + n
      /\ \A i \in 1 .. m + n : r[i] = IF i <= m THEN p[i] ELSE q[i - m]
  OBVIOUS
<1>0. Items(p) = {p[i] : i \in 1 .. m} /\ Items(q) = {q[i] : i \in 1 .. n}
  BY DEF Items
<1>o. /\ Once(p) => \A i, j \in 1 .. m : p[i] = p[j] => i = j
      /\ Once(q) => \A i, j \in 1 .. n : q[i] = q[j] => i = j
  BY DEF Once
<1> HIDE DEF r, m, n
<1>2. \A i \in 1 .. m : i \in 1 .. m + n /\ r[i] = p[i]
  BY <1>1
<1>3. \A i \in 1 .. n : m + i \in 1 .. m + n /\ r[m + i] = q[i]
  <2> SUFFICES ASSUME NEW i \in 1 .. n PROVE m + i \in 1 .. m + n /\ r[m + i] = q[i]
    OBVIOUS
  <2>1. m + i \in 1 .. m + n /\ ~(m + i <= m) /\ (m + i) - m = i
    BY <1>1
  <2> QED BY <1>1, <2>1
<1>4. \A i \in 1 .. m + n : i \in 1 .. m \/ (i - m \in 1 .. n /\ i = m + (i - m))
  BY <1>1
<1>5. Items(r) = Items(p) \cup Items(q)
  <2>1. Items(r) = {r[i] : i \in 1 .. m + n}
    BY <1>1 DEF Items
  <2>2. ASSUME NEW i \in 1 .. m + n PROVE r[i] \in Items(p) \cup Items(q)
    BY <1>0, <1>2, <1>3, <1>4
  <2> QED BY <1>0, <1>2, <1>3, <2>1, <2>2
<1>6. ASSUME Once(p), Once(q), Items(p) \cap Items(q) = {} PROVE Once(r)
  <2> SUFFICES ASSUME NEW i \in 1 .. m + n, NEW j \in 1 .. m + n, r[i] = r[j] PROVE i = j
    BY <1>1 DEF Once
  <2>1. CASE i \in 1 .. m /\ j \in 1 .. m
    BY <1>2, <1>o, <1>6, <2>1
  <2>2. CASE i - m \in 1 .. n /\ j - m \in 1 .. n
    <3>1. r[i] = q[i - m] /\ r[j] = q[j - m]
      BY <1>3, <1>4, <2>2, <1>1
    <3>2. i - m = j - m
      BY <1>o, <1>6, <2>2, <3>1
    <3> QED BY <1>1, <3>2
  <2>3. CASE i \in 1 .. m /\ j - m \in 1 .. n
    <3>1. r[i] \in Items(p)
      BY <1>0, <1>2, <2>3
    <3>2. r[j] = q[j - m]
      BY <1>1, <1>3, <1>4, <2>3
    <3> QED BY <1>0, <1>6, <2>3, <3>1, <3>2
  <2>4. CASE i - m \in 1 .. n /\ j \in 1 .. m
    <3>1. r[j] \in Items(p)
      BY <1>0, <1>2, <2>4
    <3>2. r[i] = q[i - m]
      BY <1>1, <1>3, <1>4, <2>4
    <3> QED BY <1>0, <1>6, <2>4, <3>1, <3>2
  <2> QED BY <1>4, <2>1, <2>2, <2>3, <2>4
<1> QED BY <1>1, <1>5, <1>6 DEF r
-------------------------------------------------------------------------------
(* The steps of a batch *)

LEMMA SameCardinality == \A S : Batch!Cardinality(S) = Cardinality(S)
BY DEF Batch!Cardinality, Cardinality, Batch!IsFiniteSet, IsFiniteSet

LEMMA CrewIsFinite ==
  ASSUME BatchTypes, PlacesInv
  PROVE  /\ IsFiniteSet(busy) /\ IsFiniteSet(sending) /\ IsFiniteSet(held)
         /\ Cardinality(busy) \in Nat /\ Cardinality(sending) \in Nat /\ Cardinality(held) \in Nat
<1>1. IsFiniteSet(0 .. dispatched - 1)
  BY FS_Interval DEF BatchTypes
<1>2. busy \subseteq 0 .. dispatched - 1 /\ sending \subseteq 0 .. dispatched - 1 /\ held \subseteq 0 .. dispatched - 1
  BY DEF PlacesInv
<1>3. IsFiniteSet(busy) /\ IsFiniteSet(sending) /\ IsFiniteSet(held)
  BY <1>1, <1>2, FS_Subset
<1> QED BY <1>3, FS_CardinalityType

LEMMA Active ==
  Batch!activeWorkers = resting + retiring + Cardinality(busy) + Cardinality(sending)
BY SameCardinality DEF Batch!activeWorkers

(* Steps that move no job: only types and workers are left to look at. *)
LEMMA JobsStay ==
  ASSUME BatchInv, UNCHANGED <<dispatched, busy, sending, resCh, held, delivered, next>>,
         cancelled \/ (~cancelled' /\ reducer' = reducer) \/ cancelled', cancelled => cancelled',
         BatchTypes', WorkersInv'
  PROVE  BatchInv'
<1>0. /\ Items(resCh') = Items(resCh) /\ Items(delivered') = Items(delivered)
      /\ Once(resCh') /\ Once(delivered')
  <2>1. resCh' = resCh /\ delivered' = delivered
    OBVIOUS
  <2> QED BY <2>1 DEF BatchInv, PlacesInv
<1>1. PlacesInv'
  BY <1>0 DEF BatchInv, PlacesInv, Apart
<1>2. LostNothing'
  BY <1>0 DEF BatchInv, LostNothing
<1>3. InOrder'
  BY DEF BatchInv, InOrder
<1> QED BY <1>1, <1>2, <1>3 DEF BatchInv

LEMMA ControlSteps ==
  ASSUME BatchInv,
         \/ Batch!Cancel \/ Batch!Feed \/ Batch!Scale \/ Batch!Launch \/ Batch!Leave
         \/ Batch!IdleTimeout \/ Batch!Retire \/ Batch!CloseResults \/ Batch!ReduceCancelled
  PROVE  BatchInv'
<1> USE BatchAssumption
<1>0. BatchTypes /\ PlacesInv /\ WorkersInv /\ LostNothing /\ InOrder
  BY DEF BatchInv
<1> DEFINE b == Cardinality(busy)
           c == Cardinality(sending)
<1>b. b \in Nat /\ c \in Nat /\ Batch!activeWorkers = resting + retiring + b + c
  BY <1>0, CrewIsFinite, Active
<1>w. ~EnableAutoscale =>
        /\ retiring = 0 /\ ~launching /\ resting + b + c <= InitWorkers
        /\ resClosed => resting = 0 /\ busy = {} /\ sending = {}
        /\ ~cancelled /\ ~feeder => fed = NJobs
        /\ ~cancelled => resting + b + c = InitWorkers \/ (~feeder /\ dispatched = NJobs)
  BY <1>0 DEF WorkersInv
<1>s. ASSUME UNCHANGED <<busy, sending>>
      PROVE  WorkersInv' <=>
               (~EnableAutoscale =>
                  /\ retiring' = 0 /\ ~launching' /\ resting' + b + c <= InitWorkers
                  /\ resClosed' => resting' = 0 /\ busy = {} /\ sending = {}
                  /\ ~cancelled' /\ ~feeder' => fed' = NJobs
                  /\ ~cancelled' => resting' + b + c = InitWorkers \/ (~feeder' /\ dispatched' = NJobs))
  BY <1>s DEF WorkersInv
<1> HIDE DEF b, c
<1>1. CASE Batch!Cancel
  <2>1. BatchTypes' /\ UNCHANGED <<busy, sending>>
    BY <1>0, <1>1 DEF Batch!Cancel, Batch!pool, Batch!reduction, BatchTypes
  <2>2. WorkersInv'
    BY <1>1, <1>s, <1>w, <2>1 DEF Batch!Cancel, Batch!pool
  <2> QED BY <1>1, <2>1, <2>2, JobsStay DEF Batch!Cancel, Batch!pool, Batch!reduction
<1>2. CASE Batch!Feed
  <2>u. UNCHANGED <<cancelled, dispatched, resting, retiring, busy, sending, launching, resClosed,
                    resCh, held, next, reducer, delivered>>
    BY <1>2 DEF Batch!Feed, Batch!pool, Batch!reduction
  <2>a. (fed' = fed /\ feeder' = FALSE) \/ (fed < NJobs /\ fed' = fed + 1 /\ feeder' = TRUE)
    BY <1>2 DEF Batch!Feed
  <2>b. fed' \in 0 .. NJobs /\ dispatched \in 0 .. fed'
    BY <1>0, <2>u, <2>a DEF BatchTypes
  <2>1. BatchTypes' /\ UNCHANGED <<busy, sending>>
    BY <1>0, <2>u, <2>a, <2>b DEF BatchTypes
  <2>2. WorkersInv'
    BY <1>0, <1>2, <1>s, <1>w, <2>1 DEF Batch!Feed, Batch!pool, BatchTypes
  <2> QED BY <1>2, <2>1, <2>2, JobsStay DEF Batch!Feed, Batch!pool, Batch!reduction
<1>3. CASE Batch!Scale
  <2>1. BatchTypes' /\ UNCHANGED <<busy, sending>>
    BY <1>0, <1>3 DEF Batch!Scale, Batch!reduction, BatchTypes
  <2>2. WorkersInv'
    BY <1>3, <1>s, <2>1 DEF Batch!Scale
  <2> QED BY <1>3, <2>1, <2>2, JobsStay DEF Batch!Scale, Batch!reduction
<1>4. CASE Batch!Launch
  <2>a. /\ launching' = FALSE /\ resting' = resting + 1
        /\ UNCHANGED <<cancelled, fed, dispatched, feeder, retiring, busy, sending, resClosed,
                      resCh, held, next, reducer, delivered>>
    BY <1>4 DEF Batch!Launch, Batch!reduction
  <2>b. resting' \in Nat
    BY <1>0, <2>a DEF BatchTypes
  <2>1. BatchTypes' /\ UNCHANGED <<busy, sending>>
    BY <1>0, <2>a, <2>b DEF BatchTypes
  <2>2. WorkersInv'
    BY <1>4, <1>s, <1>w, <2>1 DEF Batch!Launch
  <2> QED BY <1>4, <2>1, <2>2, JobsStay DEF Batch!Launch, Batch!reduction
<1>5. CASE Batch!Leave
  <2>1. BatchTypes' /\ UNCHANGED <<busy, sending>>
    BY <1>0, <1>5 DEF Batch!Leave, Batch!reduction, BatchTypes
  <2>a. /\ resting > 0 /\ resting' = resting - 1 /\ resting \in Nat
        /\ cancelled \/ (~feeder /\ dispatched = fed)
        /\ UNCHANGED <<cancelled, fed, dispatched, feeder, retiring, launching, resClosed>>
    BY <1>0, <1>5 DEF Batch!Leave, Batch!jobChClosed, BatchTypes
  <2>2. WorkersInv'
    BY <1>b, <1>s, <1>w, <2>1, <2>a
  <2> QED BY <1>5, <2>1, <2>2, JobsStay DEF Batch!Leave, Batch!reduction
<1>6. CASE Batch!IdleTimeout
  <2>1. BatchTypes' /\ UNCHANGED <<busy, sending>>
    BY <1>0, <1>6 DEF Batch!IdleTimeout, Batch!reduction, BatchTypes
  <2>2. EnableAutoscale
    <3>1. resting + retiring + b + c > InitWorkers
      BY <1>6, <1>b DEF Batch!IdleTimeout, Batch!MayRetire
    <3>2. resting \in Nat
      BY <1>0 DEF BatchTypes
    <3> QED BY <1>b, <1>w, <3>1, <3>2
  <2>3. WorkersInv'
    BY <2>2 DEF WorkersInv
  <2> QED BY <1>6, <2>1, <2>3, JobsStay DEF Batch!IdleTimeout, Batch!reduction
<1>7. CASE Batch!Retire
  <2>1. BatchTypes' /\ UNCHANGED <<busy, sending>>
    BY <1>0, <1>7 DEF Batch!Retire, Batch!reduction, BatchTypes
  <2>2. EnableAutoscale
    BY <1>7, <1>w DEF Batch!Retire
  <2>3. WorkersInv'
    BY <2>2 DEF WorkersInv
  <2> QED BY <1>7, <2>1, <2>3, JobsStay DEF Batch!Retire, Batch!reduction
<1>8. CASE Batch!CloseResults
  <2>1. BatchTypes' /\ UNCHANGED <<busy, sending>>
    BY <1>0, <1>8 DEF Batch!CloseResults, Batch!pool, Batch!reduction, BatchTypes
  <2>a. UNCHANGED <<cancelled, fed, dispatched, feeder, resting, retiring, launching>>
    BY <1>8 DEF Batch!CloseResults, Batch!pool
  <2>b. resting = 0 /\ b = 0 /\ c = 0
    <3>1. resting + retiring + b + c = 0
      BY <1>8, <1>b DEF Batch!CloseResults
    <3>2. resting \in Nat /\ retiring \in Nat
      BY <1>0 DEF BatchTypes
    <3> QED BY <1>b, <3>1, <3>2
  <2>c. busy = {} /\ sending = {}
    BY <1>0, <2>b, CrewIsFinite, FS_EmptySet DEF b, c
  <2>2. WorkersInv'
    BY <1>s, <1>w, <2>1, <2>a, <2>b, <2>c
  <2> QED BY <1>8, <2>1, <2>2, JobsStay DEF Batch!CloseResults, Batch!pool, Batch!reduction
<1>9. CASE Batch!ReduceCancelled
  <2>1. BatchTypes' /\ UNCHANGED <<busy, sending>>
    BY <1>0, <1>9 DEF Batch!ReduceCancelled, Batch!pool, BatchTypes
  <2>2. WorkersInv'
    BY <1>9, <1>s, <1>w, <2>1 DEF Batch!ReduceCancelled, Batch!pool
  <2> QED BY <1>9, <2>1, <2>2, JobsStay DEF Batch!ReduceCancelled, Batch!pool
<1> QED BY <1>1, <1>2, <1>3, <1>4, <1>5, <1>6, <1>7, <1>8, <1>9

(* A job goes from the feeder to a worker, through its run and into the    *)
(* channel; a cancelled one may be dropped there.                          *)
LEMMA WorkerSteps ==
  ASSUME BatchInv,
         \/ Batch!TakeJob
         \/ \E j \in busy : Batch!RunJob(j)
         \/ \E j \in sending : Batch!SendResult(j)
  PROVE  BatchInv'
<1> USE BatchAssumption
<1>0. BatchTypes /\ PlacesInv /\ WorkersInv /\ LostNothing /\ InOrder
  BY DEF BatchInv
<1>b. /\ IsFiniteSet(busy) /\ IsFiniteSet(sending)
      /\ Cardinality(busy) \in Nat /\ Cardinality(sending) \in Nat
  BY <1>0, CrewIsFinite
<1>1. CASE Batch!TakeJob
  <2>0. /\ resting > 0 /\ dispatched < fed /\ resting' = resting - 1
        /\ busy' = busy \cup {dispatched} /\ dispatched' = dispatched + 1
        /\ UNCHANGED <<cancelled, fed, feeder, retiring, sending, launching, resClosed,
                      resCh, held, next, reducer, delivered>>
    BY <1>1 DEF Batch!TakeJob, Batch!reduction
  <2>1. BatchTypes'
    BY <1>0, <2>0 DEF BatchTypes
  <2>n. dispatched \in Nat /\ 0 .. dispatched' - 1 = (0 .. dispatched - 1) \cup {dispatched}
        /\ dispatched \notin 0 .. dispatched - 1
    BY <1>0, <2>0 DEF BatchTypes
  <2>i. /\ Items(resCh') = Items(resCh) /\ Items(delivered') = Items(delivered)
        /\ Once(resCh') /\ Once(delivered')
    BY <1>0, <2>0 DEF PlacesInv
  <2>2. PlacesInv'
    BY <1>0, <2>0, <2>i, <2>n DEF PlacesInv, Apart
  <2>3. Cardinality(busy') = Cardinality(busy) + 1
    BY <1>0, <1>b, <2>0, <2>n, FS_AddElement DEF PlacesInv
  <2>4. WorkersInv'
    <3>1. resting \in Nat /\ fed \in 0 .. NJobs
      BY <1>0 DEF BatchTypes
    <3> QED BY <1>0, <1>b, <2>0, <2>3, <3>1 DEF WorkersInv
  <2>5. LostNothing'
    BY <1>0, <2>0, <2>i, <2>n DEF LostNothing
  <2>6. InOrder'
    BY <1>0, <2>0 DEF InOrder
  <2> QED BY <2>1, <2>2, <2>4, <2>5, <2>6 DEF BatchInv
<1>2. ASSUME NEW j \in busy, Batch!RunJob(j) PROVE BatchInv'
  <2>0. /\ busy' = busy \ {j} /\ sending' = sending \cup {j}
        /\ UNCHANGED <<cancelled, fed, dispatched, feeder, resting, retiring, launching, resClosed,
                      resCh, held, next, reducer, delivered>>
    BY <1>2 DEF Batch!RunJob, Batch!reduction
  <2>1. BatchTypes'
    BY <1>0, <2>0 DEF BatchTypes
  <2>i. /\ Items(resCh') = Items(resCh) /\ Items(delivered') = Items(delivered)
        /\ Once(resCh') /\ Once(delivered')
    BY <1>0, <2>0 DEF PlacesInv
  <2>2. PlacesInv'
    BY <1>0, <2>0, <2>i DEF PlacesInv, Apart
  <2>3. Cardinality(busy') = Cardinality(busy) - 1 /\ Cardinality(sending') = Cardinality(sending) + 1
    <3>1. j \notin sending
      BY <1>0 DEF PlacesInv, Apart
    <3> QED BY <1>b, <2>0, <3>1, FS_AddElement, FS_RemoveElement
  <2>4. WorkersInv'
    <3>1. resting \in Nat
      BY <1>0 DEF BatchTypes
    <3> QED BY <1>0, <1>b, <2>0, <2>3, <3>1 DEF WorkersInv
  <2>5. LostNothing'
    BY <1>0, <2>0, <2>i DEF LostNothing
  <2>6. InOrder'
    BY <1>0, <2>0 DEF InOrder
  <2> QED BY <2>1, <2>2, <2>4, <2>5, <2>6 DEF BatchInv
<1>3. ASSUME NEW j \in sending, Batch!SendResult(j) PROVE BatchInv'
  <2>0. /\ sending' = sending \ {j}
        /\ UNCHANGED <<cancelled, fed, dispatched, feeder, retiring, busy, launching, resClosed,
                      held, next, reducer, delivered>>
        /\ \/ ~resClosed /\ resCh' = Append(resCh, j) /\ resting' = resting + 1
           \/ resClosed /\ UNCHANGED <<resting, resCh>>
           \/ cancelled /\ UNCHANGED <<resting, resCh>>
    BY <1>3 DEF Batch!SendResult
  <2>j. j \in Nat /\ resCh \in Seq(Nat) /\ j \notin Items(resCh) /\ Once(resCh)
    BY <1>0 DEF BatchTypes, PlacesInv, Apart
  <2>c. Cardinality(sending') = Cardinality(sending) - 1
    BY <1>b, <2>0, FS_RemoveElement
  <2>o. InOrder'
    BY <1>0, <2>0 DEF InOrder
  <2>1. CASE ~resClosed /\ resCh' = Append(resCh, j) /\ resting' = resting + 1
    <3>1. resCh' \in Seq(Nat) /\ Items(resCh') = Items(resCh) \cup {j} /\ Once(resCh')
      BY <2>1, <2>j, ItemsOfAppend
    <3>2. BatchTypes'
      BY <1>0, <2>0, <2>1, <3>1 DEF BatchTypes
    <3>3. Items(delivered') = Items(delivered) /\ Once(delivered')
      BY <1>0, <2>0 DEF PlacesInv
    <3>4. PlacesInv'
      BY <1>0, <2>0, <3>1, <3>3 DEF PlacesInv, Apart
    <3>5. WorkersInv'
      <4>1. resting \in Nat
        BY <1>0 DEF BatchTypes
      <4> QED BY <1>0, <1>b, <2>0, <2>1, <2>c, <4>1 DEF WorkersInv
    <3>6. LostNothing'
      BY <1>0, <2>0, <3>1, <3>3 DEF LostNothing
    <3> QED BY <2>o, <3>2, <3>4, <3>5, <3>6 DEF BatchInv
  <2>2. CASE (resClosed \/ cancelled) /\ UNCHANGED <<resting, resCh>>
    <3>1. BatchTypes'
      BY <1>0, <2>0, <2>2 DEF BatchTypes
    <3>i. /\ Items(resCh') = Items(resCh) /\ Items(delivered') = Items(delivered)
          /\ Once(resCh') /\ Once(delivered')
      BY <1>0, <2>0, <2>2 DEF PlacesInv
    <3>2. PlacesInv'
      BY <1>0, <2>0, <2>2, <3>i DEF PlacesInv, Apart
    <3>3. EnableAutoscale \/ cancelled
      BY <1>0, <2>2 DEF WorkersInv
    <3>4. WorkersInv'
      <4>1. resting \in Nat
        BY <1>0 DEF BatchTypes
      <4> QED BY <1>0, <1>b, <2>0, <2>2, <2>c, <3>3, <4>1 DEF WorkersInv
    <3>5. LostNothing'
      BY <2>0, <3>3 DEF LostNothing
    <3> QED BY <2>o, <3>1, <3>2, <3>4, <3>5 DEF BatchInv
  <2> QED BY <2>0, <2>1, <2>2
<1> QED BY <1>1, <1>2, <1>3

(* The numbers below n, one more of them, and some more of them. *)
LEMMA RunGrows ==
  ASSUME NEW n \in Nat, NEW m \in Nat
  PROVE  /\ Append([i \in 1 .. n |-> i - 1], n) = [i \in 1 .. n + 1 |-> i - 1]
         /\ [i \in 1 .. n |-> i - 1] \o [i \in 1 .. m |-> n + i - 1] = [i \in 1 .. n + m |-> i - 1]
<1> DEFINE p == [i \in 1 .. n |-> i - 1]
           q == [i \in 1 .. m |-> n + i - 1]
<1>1. p \in Seq(Int) /\ Len(p) = n /\ q \in Seq(Int) /\ Len(q) = m
  OBVIOUS
<1>2. /\ \A i \in 1 .. n : p[i] = i - 1
      /\ \A i \in 1 .. m : q[i] = n + i - 1
  OBVIOUS
<1> HIDE DEF p, q
<1>3. Append(p, n) = [i \in 1 .. n + 1 |-> i - 1]
  <2>1. /\ Append(p, n) \in Seq(Int) /\ Len(Append(p, n)) = n + 1
        /\ \A i \in 1 .. n : Append(p, n)[i] = p[i]
        /\ Append(p, n)[n + 1] = n
    BY <1>1
  <2>2. \A i \in 1 .. n + 1 : Append(p, n)[i] = i - 1
    BY <1>2, <2>1
  <2>3. Append(p, n) = [i \in 1 .. n + 1 |-> Append(p, n)[i]]
    <3>1. Append(p, n) \in [1 .. n + 1 -> Int]
      BY <2>1, LenProperties
    <3> QED BY <3>1
  <2> QED BY <2>2, <2>3
<1>4. p \o q = [i \in 1 .. n + m |-> i - 1]
  <2>1. /\ p \o q \in Seq(Int) /\ Len(p \o q) = n + m
        /\ \A i \in 1 .. n + m : (p \o q)[i] = IF i <= n THEN p[i] ELSE q[i - n]
    BY <1>1
  <2>3. p \o q = [i \in 1 .. n + m |-> (p \o q)[i]]
    <3>1. p \o q \in [1 .. n + m -> Int]
      BY <2>1, LenProperties
    <3> QED BY <3>1
  <2>2. \A i \in 1 .. n + m : (IF i <= n THEN p[i] ELSE q[i - n]) = i - 1
    <3> SUFFICES ASSUME NEW i \in 1 .. n + m PROVE (IF i <= n THEN p[i] ELSE q[i - n]) = i - 1
      OBVIOUS
    <3>1. CASE i <= n
      BY <1>2, <3>1
    <3>2. CASE ~(i <= n)
      <4>1. i - n \in 1 .. m
        BY <3>2
      <4>2. q[i - n] = n + (i - n) - 1
        BY <1>2, <4>1
      <4> QED BY <3>2, <4>2
    <3> QED BY <3>1, <3>2
  <2> QED BY <2>1, <2>2, <2>3
<1> QED BY <1>3, <1>4 DEF p, q

(* The reducer takes a result: it is the next one, or it waits, or it      *)
(* waits in the place of another one.                                      *)
LEMMA ReduceStep ==
  ASSUME BatchInv, Batch!Reduce
  PROVE  BatchInv'
<1> USE BatchAssumption
<1> DEFINE r == Head(resCh)
<1>0. BatchTypes /\ PlacesInv /\ WorkersInv /\ LostNothing /\ InOrder
  BY DEF BatchInv
<1>1. /\ reducer = "reduce" /\ resCh # <<>> /\ resCh' = Tail(resCh) /\ Batch!Accept(r)
      /\ UNCHANGED <<cancelled, fed, dispatched, feeder, resting, retiring, busy, sending, launching,
                    resClosed, reducer>>
  BY DEF Batch!Reduce, Batch!pool
<1>2. /\ resCh \in Seq(Nat) /\ Once(resCh) /\ delivered \in Seq(Nat) /\ Once(delivered)
      /\ next \in Nat /\ dispatched \in 0 .. NJobs
  BY <1>0 DEF BatchTypes, PlacesInv
<1>3. /\ r \in Nat /\ r \in Items(resCh) /\ resCh' \in Seq(Nat)
      /\ Items(resCh') = Items(resCh) \ {r} /\ Once(resCh')
  BY <1>1, <1>2, ItemsOfTail
<1>h. Batch!Accept(r) =>
        \/ r = next /\ delivered' = Append(delivered, r) /\ next' = next + 1 /\ held' = held
        \/ /\ r # next /\ next' = next /\ Batch!Cardinality(held) < ReorderWindow
           /\ held' = held \cup {r} /\ delivered' = delivered
        \/ /\ r # next /\ next' = next /\ Batch!Cardinality(held) >= ReorderWindow
           /\ \E k \in held : held' = (held \ {k}) \cup {r} /\ delivered' = Append(delivered, k)
  BY DEF Batch!Accept
<1>4. \/ r = next /\ delivered' = Append(delivered, r) /\ next' = next + 1 /\ held' = held
      \/ r # next /\ next' = next /\ held' = held \cup {r} /\ delivered' = delivered
      \/ /\ r # next /\ next' = next /\ Cardinality(held) >= ReorderWindow
         /\ \E k \in held : held' = (held \ {k}) \cup {r} /\ delivered' = Append(delivered, k)
  BY <1>1, <1>h, SameCardinality
<1> HIDE DEF r
<1>p. /\ Apart(busy, sending, Items(resCh), held, Items(delivered))
      /\ busy \cup sending \cup Items(resCh) \cup held \cup Items(delivered) \subseteq 0 .. dispatched - 1
  BY <1>0 DEF PlacesInv
<1>w. WorkersInv'
  BY <1>0, <1>1 DEF WorkersInv
<1>o. ASSUME ~EnableAutoscale, ~cancelled, NJobs <= ReorderWindow + 1
      PROVE  /\ delivered = [i \in 1 .. next |-> i - 1] /\ 0 \notin held
             /\ Items(delivered) = 0 .. next - 1
  <2>1. delivered = [i \in 1 .. next |-> i - 1] /\ 0 \notin held
    BY <1>0, <1>1, <1>o DEF InOrder
  <2>2. [i \in 1 .. next |-> i - 1] = [i \in 1 .. next |-> 0 + i - 1]
    BY <1>2
  <2>3. Items([i \in 1 .. next |-> 0 + i - 1]) = 0 .. 0 + next - 1
    BY <1>2, ItemsOfRun
  <2> QED BY <1>2, <2>1, <2>2, <2>3
<1>5. CASE r = next /\ delivered' = Append(delivered, r) /\ next' = next + 1 /\ held' = held
  <2>1. /\ delivered' \in Seq(Nat) /\ Items(delivered') = Items(delivered) \cup {r} /\ Once(delivered')
    <3>1. r \notin Items(delivered)
      BY <1>3, <1>p DEF Apart
    <3> QED BY <1>2, <1>3, <1>5, <3>1, ItemsOfAppend
  <2>2. BatchTypes'
    BY <1>0, <1>1, <1>2, <1>3, <1>5, <2>1 DEF BatchTypes
  <2>3. PlacesInv'
    BY <1>1, <1>3, <1>5, <1>p, <2>1 DEF PlacesInv, Apart
  <2>4. LostNothing'
    BY <1>0, <1>1, <1>3, <1>5, <2>1 DEF LostNothing
  <2>5. InOrder'
    <3>1. SUFFICES ASSUME ~EnableAutoscale, ~cancelled, NJobs <= ReorderWindow + 1
                   PROVE  delivered' = [i \in 1 .. next + 1 |-> i - 1] /\ 0 \notin held
      BY <1>1, <1>5, <3>1 DEF InOrder
    <3>2. Append([i \in 1 .. next |-> i - 1], next) = [i \in 1 .. next + 1 |-> i - 1]
      BY <1>2, RunGrows
    <3> QED BY <1>5, <1>o, <3>1, <3>2
  <2> QED BY <1>w, <2>2, <2>3, <2>4, <2>5 DEF BatchInv
<1>6. CASE r # next /\ next' = next /\ held' = held \cup {r} /\ delivered' = delivered
  <2>1. Items(delivered') = Items(delivered) /\ Once(delivered')
    BY <1>2, <1>6
  <2>2. BatchTypes'
    BY <1>0, <1>1, <1>3, <1>6 DEF BatchTypes
  <2>3. PlacesInv'
    BY <1>1, <1>3, <1>6, <1>p, <2>1 DEF PlacesInv, Apart
  <2>4. LostNothing'
    BY <1>0, <1>1, <1>3, <1>6, <2>1 DEF LostNothing
  <2>5. InOrder'
    <3>1. SUFFICES ASSUME ~EnableAutoscale, ~cancelled, NJobs <= ReorderWindow + 1
                   PROVE  delivered = [i \in 1 .. next |-> i - 1] /\ 0 \notin held \cup {r}
      BY <1>1, <1>6, <3>1 DEF InOrder
    <3>2. r \notin 0 .. next - 1
      BY <1>3, <1>p, <1>o, <3>1 DEF Apart
    <3> QED BY <1>2, <1>3, <1>6, <1>o, <3>1, <3>2
  <2> QED BY <1>w, <2>2, <2>3, <2>4, <2>5 DEF BatchInv
<1>7. ASSUME r # next, next' = next, Cardinality(held) >= ReorderWindow,
             NEW k \in held, held' = (held \ {k}) \cup {r}, delivered' = Append(delivered, k)
      PROVE  BatchInv'
  <2>k. k \in Nat /\ k \notin Items(delivered)
    BY <1>2, <1>p DEF Apart
  <2>1. /\ delivered' \in Seq(Nat) /\ Items(delivered') = Items(delivered) \cup {k} /\ Once(delivered')
    BY <1>2, <1>7, <2>k, ItemsOfAppend
  <2>2. BatchTypes'
    BY <1>0, <1>1, <1>3, <1>7, <2>1 DEF BatchTypes
  <2>3. PlacesInv'
    BY <1>1, <1>3, <1>7, <1>p, <2>1 DEF PlacesInv, Apart
  <2>4. LostNothing'
    BY <1>0, <1>1, <1>3, <1>7, <2>1 DEF LostNothing
  <2>5. EnableAutoscale \/ cancelled \/ ~(NJobs <= ReorderWindow + 1)
    <3> SUFFICES ASSUME ~EnableAutoscale, ~cancelled, NJobs <= ReorderWindow + 1 PROVE FALSE
      OBVIOUS
    <3>1. held \cup {r} \subseteq 1 .. NJobs - 1
      <4>1. \A j \in held \cup {r} : j \in 0 .. NJobs - 1 /\ j \notin 0 .. next - 1
        BY <1>2, <1>3, <1>p, <1>o DEF Apart
      <4>2. r # 0
        BY <1>2, <1>3, <1>7, <4>1
      <4> QED BY <1>o, <4>1, <4>2
    <3>2. IsFiniteSet(held) /\ r \notin held
      BY <1>0, <1>3, <1>p, CrewIsFinite DEF Apart
    <3>3. Cardinality(held \cup {r}) = Cardinality(held) + 1 /\ Cardinality(held) \in Nat
      BY <3>2, FS_AddElement, FS_CardinalityType
    <3>4. IsFiniteSet(1 .. NJobs - 1) /\ Cardinality(1 .. NJobs - 1) = IF 1 > NJobs - 1 THEN 0 ELSE NJobs - 1
      <4>1. 1 \in Int /\ NJobs - 1 \in Int /\ NJobs - 1 - 1 + 1 = NJobs - 1
        OBVIOUS
      <4>2. /\ IsFiniteSet(1 .. NJobs - 1)
            /\ Cardinality(1 .. NJobs - 1) = IF 1 > NJobs - 1 THEN 0 ELSE NJobs - 1 - 1 + 1
        BY <4>1, FS_Interval
      <4> QED BY <4>1, <4>2
    <3>5. Cardinality(held \cup {r}) <= Cardinality(1 .. NJobs - 1)
      BY <3>1, <3>4, FS_Subset
    <3> QED BY <1>7, <3>3, <3>4, <3>5
  <2>6. InOrder'
    BY <1>1, <2>5 DEF InOrder
  <2> QED BY <1>w, <2>2, <2>3, <2>4, <2>6 DEF BatchInv
<1> QED BY <1>4, <1>5, <1>6, <1>7

(* What waits is handed on up to the first gap; nothing is missing when    *)
(* the window was large enough.                                            *)
LEMMA FinishStep ==
  ASSUME BatchInv, Batch!FinishReduce
  PROVE  BatchInv'
<1> USE BatchAssumption
<1> DEFINE n == Batch!RunOf(next)
           run == [i \in 1 .. n |-> next + i - 1]
<1>0. BatchTypes /\ PlacesInv /\ WorkersInv /\ LostNothing /\ InOrder
  BY DEF BatchInv
<1>1. /\ reducer = "reduce" /\ resCh = <<>> /\ resClosed /\ reducer' = "returned"
      /\ delivered' = delivered \o run /\ held' = held \ (next .. next + n - 1) /\ next' = next + n
      /\ UNCHANGED <<cancelled, fed, dispatched, feeder, resting, retiring, busy, sending, launching,
                    resCh, resClosed>>
  BY DEF Batch!FinishReduce, Batch!pool
<1>2. /\ delivered \in Seq(Nat) /\ Once(delivered) /\ next \in Nat /\ dispatched \in 0 .. NJobs
  BY <1>0 DEF BatchTypes, PlacesInv
<1>p. /\ Apart(busy, sending, Items(resCh), held, Items(delivered))
      /\ busy \cup sending \cup Items(resCh) \cup held \cup Items(delivered) \subseteq 0 .. dispatched - 1
      /\ Once(resCh)
  BY <1>0 DEF PlacesInv
<1>3. n \in 0 .. NJobs /\ (\A i \in 0 .. n - 1 : next + i \in held) /\ next + n \notin held
  <2> DEFINE Gaps == {m \in Nat : next + m \notin held}
  <2>1. NJobs \in Gaps
    BY <1>2, <1>p
  <2>2. PICK m \in Gaps : \A k \in Gaps : m <= k
    BY <2>1, LeastNatural
  <2>3. \A i \in 0 .. m - 1 : i \in Nat /\ ~(m <= i)
    BY <2>2
  <2>4. m \in 0 .. NJobs /\ (\A i \in 0 .. m - 1 : next + i \in held) /\ next + m \notin held
    BY <2>1, <2>2, <2>3
  <2> QED BY <2>4 DEF Batch!RunOf
<1> HIDE DEF n
<1>4. next .. next + n - 1 \subseteq held
  <2> SUFFICES ASSUME NEW x \in next .. next + n - 1 PROVE x \in held
    OBVIOUS
  <2>1. x - next \in 0 .. n - 1 /\ next + (x - next) = x
    BY <1>2, <1>3
  <2> QED BY <1>3, <2>1
<1>5. run \in Seq(Nat) /\ Items(run) = next .. next + n - 1 /\ Once(run)
  <2>1. next .. next + n - 1 \subseteq Nat /\ n \in Nat
    BY <1>2, <1>3
  <2> QED BY <1>2, <2>1, ItemsOfRun
<1> HIDE DEF run
<1>6. /\ delivered' \in Seq(Nat) /\ Items(delivered') = Items(delivered) \cup next .. next + n - 1
      /\ Once(delivered')
  <2>1. Items(delivered) \cap Items(run) = {}
    BY <1>4, <1>5, <1>p DEF Apart
  <2>2. /\ delivered \o run \in Seq(Nat) /\ Once(delivered \o run)
        /\ Items(delivered \o run) = Items(delivered) \cup Items(run)
    <3>1. delivered \in Seq(Nat) /\ run \in Seq(Nat)
      BY <1>2, <1>5
    <3>2. Once(delivered) /\ Once(run)
      BY <1>2, <1>5
    <3>3. /\ delivered \o run \in Seq(Nat)
          /\ Items(delivered \o run) = Items(delivered) \cup Items(run)
      BY <3>1, ItemsOfConcat
    <3>4. Once(delivered \o run)
      BY <3>1, <3>2, <2>1, ItemsOfConcat
    <3> QED BY <3>3, <3>4
  <2> QED BY <1>1, <1>5, <2>2
<1>c. Items(resCh') = Items(resCh) /\ Once(resCh')
  BY <1>1, <1>p
<1>7. BatchTypes'
  BY <1>0, <1>1, <1>2, <1>3, <1>6 DEF BatchTypes
<1>8. PlacesInv'
  BY <1>1, <1>4, <1>6, <1>c, <1>p DEF PlacesInv, Apart
<1>9. WorkersInv'
  BY <1>0, <1>1 DEF WorkersInv
<1>10. LostNothing'
  BY <1>0, <1>1, <1>4, <1>6, <1>c DEF LostNothing
<1>11. InOrder'
  <2>1. SUFFICES ASSUME ~EnableAutoscale, ~cancelled, NJobs <= ReorderWindow + 1
                 PROVE  delivered' = [i \in 1 .. NJobs |-> i - 1]
    BY <1>1, <2>1 DEF InOrder
  <2>2. delivered = [i \in 1 .. next |-> i - 1]
    BY <1>0, <1>1, <2>1 DEF InOrder
  <2>3. Items(delivered) = 0 .. next - 1
    <3>1. [i \in 1 .. next |-> i - 1] = [i \in 1 .. next |-> 0 + i - 1]
      BY <1>2
    <3>2. Items([i \in 1 .. next |-> 0 + i - 1]) = 0 .. 0 + next - 1
      BY <1>2, ItemsOfRun
    <3> QED BY <1>2, <2>2, <3>1, <3>2
  <2>4. busy = {} /\ sending = {} /\ dispatched = NJobs
    <3>1. resting = 0 /\ busy = {} /\ sending = {}
      BY <1>0, <1>1, <2>1 DEF WorkersInv
    <3>2. Cardinality(busy) = 0 /\ Cardinality(sending) = 0
      BY <3>1, FS_EmptySet
    <3>3. \/ resting + Cardinality(busy) + Cardinality(sending) = InitWorkers
          \/ dispatched = NJobs
      BY <1>0, <2>1 DEF WorkersInv
    <3> QED BY <3>1, <3>2, <3>3
  <2>5. 0 .. NJobs - 1 \subseteq held \cup 0 .. next - 1
    <3>1. Items(resCh) = {}
      BY <1>1, ItemsOfEmpty
    <3> QED BY <1>0, <2>1, <2>3, <2>4, <3>1 DEF LostNothing
  <2>6. next <= NJobs
    <3>1. 0 .. next - 1 \subseteq 0 .. NJobs - 1
      BY <1>p, <2>3, <2>4
    <3>2. next = 0 \/ next - 1 \in 0 .. next - 1
      BY <1>2
    <3> QED BY <1>2, <3>1, <3>2
  <2>7. next + n <= NJobs
    <3>1. n = 0 \/ next + (n - 1) \in held
      BY <1>3
    <3>2. held \subseteq 0 .. NJobs - 1
      BY <1>p, <2>4
    <3> QED BY <1>2, <1>3, <2>6, <3>1, <3>2
  <2>8. next + n = NJobs
    <3>1. ~(next + n \in 0 .. NJobs - 1)
      BY <1>2, <1>3, <2>5
    <3> QED BY <1>2, <1>3, <2>7, <3>1
  <2>9. delivered \o run = [i \in 1 .. next + n |-> i - 1]
    <3>1. n \in Nat
      BY <1>3
    <3> QED BY <1>2, <2>2, <3>1, RunGrows DEF run
  <2> QED BY <1>1, <2>8, <2>9
<1> QED BY <1>7, <1>8, <1>9, <1>10, <1>11 DEF BatchInv

(* A batch that was cancelled hands on what is in the channel. *)
LEMMA FlushStep ==
  ASSUME BatchInv, Batch!Flush
  PROVE  BatchInv'
<1> USE BatchAssumption
<1> DEFINE r == Head(resCh)
<1>0. BatchTypes /\ PlacesInv /\ WorkersInv /\ LostNothing /\ InOrder
  BY DEF BatchInv
<1>1. /\ reducer = "flush"
      /\ UNCHANGED <<cancelled, fed, dispatched, feeder, resting, retiring, busy, sending, launching,
                    resClosed, held, next>>
      /\ \/ /\ resCh # <<>> /\ delivered' = Append(delivered, r) /\ resCh' = Tail(resCh)
            /\ reducer' = reducer
         \/ resCh = <<>> /\ reducer' = "returned" /\ delivered' = delivered /\ resCh' = resCh
  BY DEF Batch!Flush, Batch!pool
<1>2. /\ resCh \in Seq(Nat) /\ Once(resCh) /\ delivered \in Seq(Nat) /\ Once(delivered)
  BY <1>0 DEF BatchTypes, PlacesInv
<1>p. /\ Apart(busy, sending, Items(resCh), held, Items(delivered))
      /\ busy \cup sending \cup Items(resCh) \cup held \cup Items(delivered) \subseteq 0 .. dispatched - 1
  BY <1>0 DEF PlacesInv
<1>w. WorkersInv'
  BY <1>0, <1>1 DEF WorkersInv
<1>o. InOrder'
  BY <1>0, <1>1 DEF InOrder
<1>3. /\ resCh' \in Seq(Nat) /\ delivered' \in Seq(Nat) /\ Once(resCh') /\ Once(delivered')
      /\ Items(resCh') \cup Items(delivered') = Items(resCh) \cup Items(delivered)
      /\ Items(resCh') \cap Items(delivered') = {}
  <2>1. CASE resCh # <<>> /\ delivered' = Append(delivered, r) /\ resCh' = Tail(resCh)
    <3>1. /\ r \in Nat /\ r \in Items(resCh) /\ resCh' \in Seq(Nat)
          /\ Items(resCh') = Items(resCh) \ {r} /\ Once(resCh')
      BY <1>2, <2>1, ItemsOfTail
    <3>2. r \notin Items(delivered)
      BY <1>p, <3>1 DEF Apart
    <3>3. delivered' \in Seq(Nat) /\ Items(delivered') = Items(delivered) \cup {r} /\ Once(delivered')
      BY <1>2, <2>1, <3>1, <3>2, ItemsOfAppend
    <3> QED BY <1>p, <3>1, <3>3 DEF Apart
  <2>2. CASE delivered' = delivered /\ resCh' = resCh
    BY <1>2, <1>p, <2>2 DEF Apart
  <2> QED BY <1>1, <2>1, <2>2
<1>4. BatchTypes'
  BY <1>0, <1>1, <1>3 DEF BatchTypes
<1>5. PlacesInv'
  BY <1>1, <1>3, <1>p DEF PlacesInv, Apart
<1>6. LostNothing'
  BY <1>0, <1>1, <1>3 DEF LostNothing
<1> QED BY <1>4, <1>5, <1>6, <1>o, <1>w DEF BatchInv

-------------------------------------------------------------------------------
(* What the sink of a batch is given *)

LEMMA BatchInvIsInductive == Batch!Spec => []BatchInv
<1>1. Batch!Init => BatchInv
  <2> SUFFICES ASSUME Batch!Init PROVE BatchInv
    OBVIOUS
  <2> USE BatchAssumption
  <2>1. /\ cancelled = FALSE /\ fed = 0 /\ dispatched = 0 /\ feeder = TRUE /\ resting = InitWorkers
        /\ retiring = 0 /\ busy = {} /\ sending = {} /\ launching = FALSE /\ resCh = <<>>
        /\ resClosed = FALSE /\ held = {} /\ next = 0 /\ reducer = "reduce" /\ delivered = <<>>
    BY DEF Batch!Init
  <2>2. Items(resCh) = {} /\ Items(delivered) = {} /\ Once(resCh) /\ Once(delivered)
    BY <2>1, ItemsOfEmpty
  <2>3. Cardinality(busy) = 0 /\ Cardinality(sending) = 0
    BY <2>1, FS_EmptySet
  <2>4. BatchTypes
    <3>1. <<>> \in Seq(Nat)
      OBVIOUS
    <3>2. resCh \in Seq(Nat) /\ delivered \in Seq(Nat)
      BY <2>1, <3>1
    <3>3. fed \in 0 .. NJobs /\ dispatched \in 0 .. fed /\ resting \in Nat /\ retiring \in Nat /\ next \in Nat
      BY <2>1
    <3> QED BY <2>1, <3>2, <3>3 DEF BatchTypes
  <2>5. PlacesInv
    BY <2>1, <2>2 DEF PlacesInv, Apart
  <2>6. WorkersInv
    BY <2>1, <2>3 DEF WorkersInv
  <2>7. LostNothing
    BY <2>1 DEF LostNothing
  <2>8. InOrder
    <3>1. [i \in 1 .. 0 |-> i - 1] = <<>>
      OBVIOUS
    <3> QED BY <2>1, <3>1 DEF InOrder
  <2> QED BY <2>4, <2>5, <2>6, <2>7, <2>8 DEF BatchInv
<1>2. BatchInv /\ [Batch!Next]_Batch!vars => BatchInv'
  <2> SUFFICES ASSUME BatchInv, [Batch!Next]_Batch!vars PROVE BatchInv'
    OBVIOUS
  <2>1. CASE Batch!Next
    BY <2>1, ControlSteps, WorkerSteps, ReduceStep, FinishStep, FlushStep DEF Batch!Next, Batch!Work
  <2>2. CASE UNCHANGED Batch!vars
    <3>1. UNCHANGED <<cancelled, fed, dispatched, feeder, resting, retiring, busy, sending, launching,
                     resCh, resClosed, held, next, reducer, delivered>>
      BY <2>2 DEF Batch!vars
    <3>2. BatchTypes' /\ WorkersInv'
      BY <3>1 DEF BatchInv, BatchTypes, WorkersInv
    <3> QED BY <3>1, <3>2, JobsStay DEF BatchInv, BatchTypes
  <2> QED BY <2>1, <2>2
<1> QED BY <1>1, <1>2, PTL DEF Batch!Spec

(* No result of a batch is handed on twice, whatever the sizes of the      *)
(* window and of the pool, with and without a scaler, also when the batch  *)
(* is cancelled at any moment and what is in the channel is flushed.       *)
THEOREM BatchHandsOnOnce == Batch!Spec => []Batch!NothingTwice
<1>1. BatchInv => Batch!NothingTwice
  <2> SUFFICES ASSUME BatchInv PROVE Batch!NothingTwice
    OBVIOUS
  <2>1. delivered \in Seq(Nat) /\ Once(delivered)
    BY DEF BatchInv, BatchTypes, PlacesInv
  <2>2. DOMAIN delivered = 1 .. Len(delivered)
    BY <2>1
  <2> QED BY <2>1, <2>2 DEF Once, Batch!NothingTwice, Batch!IsInjective
<1> QED BY <1>1, BatchInvIsInductive, PTL

(* A batch that nobody cancelled and whose pool does not scale hands on    *)
(* every result in the order of the jobs when its window holds all but one *)
(* of them, for every number of jobs, workers and places in the channels.  *)
THEOREM BatchDeliversAll == Batch!Spec => []Batch!AllDelivered
<1>1. BatchInv => Batch!AllDelivered
  <2> SUFFICES ASSUME BatchInv, reducer = "returned", ~cancelled, ~EnableAutoscale, NJobs <= ReorderWindow + 1
               PROVE  /\ delivered = [i \in 1 .. NJobs |-> i - 1]
                      /\ Batch!Snapshots = Batch!Jobs \ panicked
    BY DEF Batch!AllDelivered
  <2>1. delivered = [i \in 1 .. NJobs |-> i - 1]
    BY DEF BatchInv, InOrder
  <2>2. {[j \in 1 .. NJobs |-> j - 1][i] : i \in 1 .. NJobs} = 0 .. NJobs - 1
    <3>1. ASSUME NEW x \in 0 .. NJobs - 1 PROVE \E i \in 1 .. NJobs : x = [j \in 1 .. NJobs |-> j - 1][i]
      <4>1. x + 1 \in 1 .. NJobs /\ [j \in 1 .. NJobs |-> j - 1][x + 1] = x
        BY BatchAssumption
      <4> QED BY <4>1
    <3> QED BY <3>1, BatchAssumption
  <2>3. DOMAIN delivered = 1 .. NJobs
    BY <2>1
  <2> QED BY <2>1, <2>2, <2>3 DEF Batch!Snapshots, Batch!Jobs
<1> QED BY <1>1, BatchInvIsInductive, PTL

-------------------------------------------------------------------------------
(* The experiment log *)

Compressing == {"compress", "fill", "remove"}

LogTypes ==
  /\ clock \in Log!Seconds /\ taken \subseteq Log!Seconds
  /\ live \in Seq(Nat) /\ rotated \in [Log!Seconds -> Seq(Nat)] /\ archive \in [Log!Seconds -> Seq(Nat)]
  /\ count \in Nat /\ acked \subseteq Nat
  /\ call \in [at : {"idle", "rotate", "append", "create", "write", "rename"} \cup Compressing,
               record : Nat, second : Nat]

(* As long as no two rotations fell into one second: the second of a file  *)
(* that is compressed has been taken, a second not taken has no file, and  *)
(* an archive is empty until it is filled with what its source still has.  *)
RotationInv ==
  /\ call.at \in Compressing => call.second \in taken
  /\ ~collided =>
       /\ \A s \in Log!Seconds \ taken : rotated[s] = <<>> /\ archive[s] = <<>>
       /\ call.at \in {"compress", "fill"} => archive[call.second] = <<>>
       /\ call.at = "remove" => archive[call.second] = rotated[call.second]
       /\ acked \subseteq Log!Kept

(* The temporary file is renamed when the whole record is in it. *)
ReplaceInv == output = replaced /\ (call.at = "rename" => tmp = call.record)

LogInv == LogTypes /\ RotationInv /\ ReplaceInv

(* A record is kept if it is in the file, in a rotated one or an archive.  *)
InFile(file, x) == \E i \in 1 .. Len(file) : file[i] = x
InFiles(files, x) == \E s \in Log!Seconds : InFile(files[s], x)

LEMMA ToSetIsInFile ==
  ASSUME NEW file \in Seq(Nat) PROVE \A x : x \in Log!ToSet(file) <=> InFile(file, x)
<1>1. DOMAIN file = 1 .. Len(file)
  OBVIOUS
<1> QED BY <1>1 DEF Log!ToSet, InFile

LEMMA KeptWhere ==
  ASSUME NEW l \in Seq(Nat), NEW r \in [Log!Seconds -> Seq(Nat)], NEW a \in [Log!Seconds -> Seq(Nat)]
  PROVE  \A x : x \in Log!ToSet(l) \cup UNION {Log!ToSet(r[s]) \cup Log!ToSet(a[s]) : s \in Log!Seconds}
           <=> InFile(l, x) \/ InFiles(r, x) \/ InFiles(a, x)
<1>1. ASSUME NEW x
      PROVE  x \in UNION {Log!ToSet(r[s]) \cup Log!ToSet(a[s]) : s \in Log!Seconds}
               <=> InFiles(r, x) \/ InFiles(a, x)
  <2>1. \A s \in Log!Seconds : /\ x \in Log!ToSet(r[s]) <=> InFile(r[s], x)
                               /\ x \in Log!ToSet(a[s]) <=> InFile(a[s], x)
    BY ToSetIsInFile
  <2> QED BY <2>1 DEF InFiles
<1> QED BY <1>1, ToSetIsInFile

LEMMA LogStep == LogInv /\ [Log!Next]_(Log!vars) => LogInv'
<1> SUFFICES ASSUME LogInv, [Log!Next]_(Log!vars) PROVE LogInv'
  OBVIOUS
<1>0. LogTypes /\ RotationInv /\ ReplaceInv
  BY DEF LogInv
<1>a. \A s \in Log!Seconds : s \in Nat
  BY DEF Log!Seconds
<1>k. \A x : x \in Log!Kept <=> InFile(live, x) \/ InFiles(rotated, x) \/ InFiles(archive, x)
  BY <1>0, KeptWhere DEF LogTypes, Log!Kept
<1>p. ASSUME LogTypes'
      PROVE  \A x : x \in Log!Kept' <=> InFile(live', x) \/ InFiles(rotated', x) \/ InFiles(archive', x)
  BY <1>p, KeptWhere DEF LogTypes, Log!Kept
<1>1. CASE UNCHANGED Log!vars
  BY <1>0, <1>1 DEF LogInv, LogTypes, RotationInv, ReplaceInv, Log!vars, Log!Kept
<1>2. ASSUME NEW append \in BOOLEAN, Log!WriteExperimentRecord(append) PROVE LogInv'
  <2>0. /\ call'.at \in {"rotate", "create"}
        /\ UNCHANGED <<clock, live, rotated, archive, output, tmp, acked, replaced, taken, collided>>
        /\ call' \in [at : {"rotate", "create"}, record : Nat, second : Nat] /\ count' \in Nat
    BY <1>0, <1>2 DEF Log!WriteExperimentRecord, Log!files, LogTypes
  <2> QED BY <1>0, <2>0 DEF LogInv, LogTypes, RotationInv, ReplaceInv, Log!Kept, Compressing
<1>3. CASE Log!RotateIfNeeded
  <2>0. /\ call.at = "rotate"
        /\ UNCHANGED <<clock, archive, output, tmp, count, acked, replaced>>
    BY <1>3 DEF Log!RotateIfNeeded
  <2>1. CASE Len(live) < MaxBytes
    <3>1. call' = [call EXCEPT !.at = "append"] /\ UNCHANGED <<live, rotated, taken, collided>>
      BY <1>3, <2>1 DEF Log!RotateIfNeeded
    <3>2. call' \in [at : {"append"}, record : Nat, second : Nat] /\ call'.at = "append"
      BY <1>0, <3>1 DEF LogTypes
    <3> QED BY <1>0, <2>0, <3>1, <3>2 DEF LogInv, LogTypes, RotationInv, ReplaceInv, Log!Kept, Compressing
  <2>2. CASE ~(Len(live) < MaxBytes)
    <3>1. /\ rotated' = [rotated EXCEPT ![clock] = live] /\ live' = <<>>
          /\ taken' = taken \cup {clock} /\ collided' = (collided \/ clock \in taken)
          /\ call' = [call EXCEPT !.at = IF EnableGzip THEN "compress" ELSE "append", !.second = clock]
      BY <1>3, <2>2 DEF Log!RotateIfNeeded
    <3>2. /\ call'.at \in {"compress", "append"} /\ call'.second = clock
          /\ call' \in [at : {"compress", "append"}, record : Nat, second : Nat]
      BY <1>0, <1>a, <3>1 DEF LogTypes
    <3>3. LogTypes'
      BY <1>0, <2>0, <3>1, <3>2 DEF LogTypes, Compressing
    <3>4. RotationInv'
      <4>1. ASSUME ~collided' PROVE ~collided /\ clock \notin taken
        BY <3>1, <4>1
      <4>2. ASSUME ~collided', NEW s \in Log!Seconds \ taken' PROVE rotated'[s] = <<>> /\ archive'[s] = <<>>
        BY <1>0, <2>0, <3>1, <4>1, <4>2 DEF LogTypes, RotationInv
      <4>3. ASSUME ~collided' PROVE archive'[clock] = <<>>
        BY <1>0, <2>0, <4>1, <4>3 DEF LogTypes, RotationInv
      <4>4. ASSUME ~collided', NEW x \in Log!Kept PROVE x \in Log!Kept'
        <5>1. /\ rotated'[clock] = live /\ rotated[clock] = <<>> /\ clock \in Log!Seconds
              /\ \A s \in Log!Seconds \ {clock} : rotated'[s] = rotated[s]
          BY <1>0, <3>1, <4>1, <4>4 DEF LogTypes, RotationInv
        <5>2. CASE InFile(live, x)
          <6>1. InFiles(rotated', x)
            BY <5>1, <5>2 DEF InFiles
          <6> QED BY <1>p, <3>3, <6>1
        <5>3. ASSUME NEW s \in Log!Seconds, InFile(rotated[s], x) PROVE x \in Log!Kept'
          <6>1. s # clock
            BY <5>1, <5>3 DEF InFile
          <6>2. InFiles(rotated', x)
            BY <5>1, <5>3, <6>1 DEF InFiles
          <6> QED BY <1>p, <3>3, <6>2
        <5>4. CASE InFiles(archive, x)
          BY <1>p, <2>0, <3>3, <5>4
        <5> QED BY <1>k, <4>4, <5>2, <5>3, <5>4 DEF InFiles
      <4> QED BY <1>0, <2>0, <3>1, <3>2, <4>1, <4>2, <4>3, <4>4 DEF RotationInv, Compressing
    <3> QED BY <1>0, <2>0, <3>2, <3>3, <3>4 DEF LogInv, ReplaceInv
  <2> QED BY <2>1, <2>2
<1>4. CASE Log!CompressCreate
  <2>0. /\ call.at = "compress" /\ archive' = [archive EXCEPT ![call.second] = <<>>]
        /\ call' = [call EXCEPT !.at = "fill"]
        /\ UNCHANGED <<clock, live, rotated, output, tmp, count, acked, replaced, taken, collided>>
    BY <1>4 DEF Log!CompressCreate
  <2>1. call.second \in taken /\ call.second \in Log!Seconds
    BY <1>0, <2>0 DEF LogTypes, RotationInv, Compressing
  <2>2. /\ call' \in [at : {"fill"}, record : Nat, second : Nat]
        /\ call'.at = "fill" /\ call'.second = call.second
    BY <1>0, <2>0 DEF LogTypes
  <2>e. <<>> \in Seq(Nat)
    OBVIOUS
  <2>3. LogTypes'
    <3>1. archive' \in [Log!Seconds -> Seq(Nat)]
      BY <1>0, <2>0, <2>1, <2>e DEF LogTypes
    <3>2. call' \in [at : {"idle", "rotate", "append", "create", "write", "rename"} \cup Compressing,
                     record : Nat, second : Nat]
      BY <2>2 DEF Compressing
    <3> QED BY <1>0, <2>0, <3>1, <3>2 DEF LogTypes
  <2>4. ~collided => archive' = archive
    BY <1>0, <2>0, <2>1 DEF LogTypes, RotationInv
  <2>5. archive'[call.second] = <<>>
    BY <1>0, <2>0, <2>1 DEF LogTypes
  <2>6. ~collided => Log!Kept' = Log!Kept
    BY <2>0, <2>4 DEF Log!Kept
  <2>7. RotationInv'
    BY <1>0, <2>0, <2>1, <2>2, <2>4, <2>5, <2>6 DEF RotationInv, Compressing
  <2> QED BY <1>0, <2>0, <2>2, <2>3, <2>7 DEF LogInv, ReplaceInv
<1>5. CASE Log!CompressFill
  <2>0. /\ call.at = "fill" /\ archive' = [archive EXCEPT ![call.second] = rotated[call.second]]
        /\ call' = [call EXCEPT !.at = "remove"]
        /\ UNCHANGED <<clock, live, rotated, output, tmp, count, acked, replaced, taken, collided>>
    BY <1>5 DEF Log!CompressFill, Log!AfterFill
  <2>1. call.second \in taken /\ call.second \in Log!Seconds
    BY <1>0, <2>0 DEF LogTypes, RotationInv, Compressing
  <2>2. /\ call' \in [at : {"remove"}, record : Nat, second : Nat]
        /\ call'.at = "remove" /\ call'.second = call.second
    BY <1>0, <2>0 DEF LogTypes
  <2>3. LogTypes'
    BY <1>0, <2>0, <2>1, <2>2 DEF LogTypes, Compressing
  <2>4. /\ archive'[call.second] = rotated[call.second]
        /\ \A s \in Log!Seconds \ {call.second} : archive'[s] = archive[s]
    BY <1>0, <2>0, <2>1 DEF LogTypes
  <2>5. ASSUME ~collided, NEW x \in Log!Kept PROVE x \in Log!Kept'
    <3>1. archive[call.second] = <<>>
      BY <1>0, <2>0, <2>5 DEF RotationInv
    <3>2. ASSUME NEW s \in Log!Seconds, InFile(archive[s], x) PROVE InFiles(archive', x)
      <4>1. s # call.second
        BY <3>1, <3>2 DEF InFile
      <4> QED BY <2>4, <3>2, <4>1 DEF InFiles
    <3> QED BY <1>k, <1>p, <2>0, <2>3, <2>5, <3>2 DEF InFiles
  <2>6. RotationInv'
    BY <1>0, <2>0, <2>1, <2>2, <2>4, <2>5 DEF RotationInv, Compressing
  <2> QED BY <1>0, <2>0, <2>2, <2>3, <2>6 DEF LogInv, ReplaceInv
<1>6. CASE Log!CompressRemove
  <2>0. /\ call.at = "remove" /\ rotated' = [rotated EXCEPT ![call.second] = <<>>]
        /\ call' = [call EXCEPT !.at = "append"]
        /\ UNCHANGED <<clock, live, archive, output, tmp, count, acked, replaced, taken, collided>>
    BY <1>6 DEF Log!CompressRemove
  <2>1. call.second \in taken /\ call.second \in Log!Seconds
    BY <1>0, <2>0 DEF LogTypes, RotationInv, Compressing
  <2>2. /\ call' \in [at : {"append"}, record : Nat, second : Nat]
        /\ call'.at = "append" /\ call'.second = call.second
    BY <1>0, <2>0 DEF LogTypes
  <2>3. LogTypes'
    BY <1>0, <2>0, <2>1, <2>2 DEF LogTypes, Compressing
  <2>4. \A s \in Log!Seconds \ {call.second} : rotated'[s] = rotated[s]
    BY <1>0, <2>0, <2>1 DEF LogTypes
  <2>5. ASSUME ~collided, NEW x \in Log!Kept PROVE x \in Log!Kept'
    <3>1. archive[call.second] = rotated[call.second]
      BY <1>0, <2>0, <2>5 DEF RotationInv
    <3>2. ASSUME NEW s \in Log!Seconds, InFile(rotated[s], x)
          PROVE  InFiles(rotated', x) \/ InFiles(archive', x)
      BY <2>0, <2>1, <2>4, <3>1, <3>2 DEF InFiles
    <3> QED BY <1>k, <1>p, <2>0, <2>3, <2>5, <3>2 DEF InFiles
  <2>6. ~collided => \A s \in Log!Seconds \ taken : rotated'[s] = <<>>
    BY <1>0, <2>1, <2>4 DEF RotationInv
  <2>7. RotationInv'
    BY <1>0, <2>0, <2>2, <2>5, <2>6 DEF RotationInv, Compressing
  <2> QED BY <1>0, <2>0, <2>2, <2>3, <2>7 DEF LogInv, ReplaceInv
<1>7. CASE Log!AppendNDJSONSafe
  <2>0. /\ call.at = "append" /\ live' = Append(live, call.record)
        /\ acked' = acked \cup {call.record} /\ call' = Log!Idle
        /\ UNCHANGED <<clock, rotated, archive, output, tmp, count, replaced, taken, collided>>
    BY <1>7 DEF Log!AppendNDJSONSafe
  <2>2. call' \in [at : {"idle"}, record : Nat, second : Nat] /\ call'.at = "idle"
    BY <2>0 DEF Log!Idle
  <2>a. live \in Seq(Nat) /\ call.record \in Nat
    BY <1>0 DEF LogTypes
  <2>3. LogTypes'
    <3>1. live' \in Seq(Nat)
      BY <2>0, <2>a
    <3>2. acked' \subseteq Nat
      BY <1>0, <2>0, <2>a DEF LogTypes
    <3>3. call' \in [at : {"idle", "rotate", "append", "create", "write", "rename"} \cup Compressing,
                     record : Nat, second : Nat]
      BY <2>2
    <3> QED BY <1>0, <2>0, <3>1, <3>2, <3>3 DEF LogTypes
  <2>4. /\ Len(live') = Len(live) + 1 /\ live'[Len(live) + 1] = call.record
        /\ \A i \in 1 .. Len(live) : live'[i] = live[i]
    BY <2>0, <2>a
  <2>5. InFile(live', call.record) /\ \A x : InFile(live, x) => InFile(live', x)
    BY <2>4, <2>a DEF InFile
  <2>6. ~collided => acked' \subseteq Log!Kept'
    BY <1>0, <1>k, <1>p, <2>0, <2>3, <2>5 DEF RotationInv
  <2>7. RotationInv'
    BY <1>0, <2>0, <2>2, <2>6 DEF RotationInv, Compressing
  <2> QED BY <1>0, <2>0, <2>2, <2>3, <2>7 DEF LogInv, ReplaceInv
<1>8. CASE Log!CreateTmp \/ Log!WriteTmp
  <2>0. /\ call'.at \in {"write", "rename"} /\ (call'.at = "rename" => tmp' = call.record)
        /\ call' \in [at : {"write", "rename"}, record : Nat, second : Nat]
        /\ call'.record = call.record
        /\ UNCHANGED <<clock, live, rotated, archive, output, count, acked, replaced, taken, collided>>
    BY <1>0, <1>8 DEF Log!CreateTmp, Log!WriteTmp, LogTypes
  <2> QED BY <1>0, <2>0 DEF LogInv, LogTypes, RotationInv, ReplaceInv, Log!Kept, Compressing
<1>9. CASE Log!RenameTmp \/ Log!FailOrCrash
  <2>0. /\ call'.at = "idle" /\ call' \in [at : {"idle"}, record : Nat, second : Nat]
        /\ output' = replaced'
        /\ UNCHANGED <<clock, live, rotated, archive, count, acked, taken, collided>>
    BY <1>0, <1>9 DEF Log!RenameTmp, Log!FailOrCrash, Log!Idle, Log!files, ReplaceInv
  <2> QED BY <1>0, <2>0 DEF LogInv, LogTypes, RotationInv, ReplaceInv, Log!Kept, Compressing
<1>10. CASE Log!Advance
  <2>0. /\ clock' \in Log!Seconds
        /\ UNCHANGED <<live, rotated, archive, output, tmp, call, count, acked, replaced, taken, collided>>
    BY <1>0, <1>10, LogAssumption DEF Log!Advance, Log!files, LogTypes, Log!Seconds
  <2> QED BY <1>0, <2>0 DEF LogInv, LogTypes, RotationInv, ReplaceInv, Log!Kept
<1> QED BY <1>1, <1>2, <1>3, <1>4, <1>5, <1>6, <1>7, <1>8, <1>9, <1>10 DEF Log!Next

(* A record whose call returned without an error is kept, whichever step   *)
(* of whichever call fails or is the last before a crash.                  *)
THEOREM RecordsStayKept == Log!Spec => []Log!RecordsKept
<1>1. Log!Init => LogInv
  BY LogAssumption DEF Log!Init, Log!Idle, Log!Seconds, LogInv, LogTypes, RotationInv, ReplaceInv,
    Compressing
<1>2. LogInv => Log!RecordsKept
  BY DEF LogInv, RotationInv, ReplaceInv, Log!RecordsKept
<1> QED BY <1>1, <1>2, LogStep, PTL DEF Log!Spec

-------------------------------------------------------------------------------
(* The policy's learning *)

Experiences == [tick : Nat, call : Nat, real : BOOLEAN, next : Nat, reward : Nat]

(* Answers are made in the order of their ticks, and of the calls in one.  *)
Earlier(a, b) == a.tick < b.tick \/ (a.tick = b.tick /\ a.call < b.call)

LearnerTypes ==
  /\ learnerTick \in Nat /\ step \in Nat /\ prevTD \in Nat
  /\ answer \in [tick : Nat, call : Nat, real : BOOLEAN, unused : BOOLEAN]
  /\ observes \subseteq [next : Nat, reward : Nat]
  /\ learned \in Seq(Experiences)

(* The answer pending is the last call's.                                  *)
AnswerInv ==
  /\ answer.tick <= learnerTick
  /\ step > 0 => answer.tick = learnerTick /\ answer.call = step

(* What was learned from came in order, and before an answer not yet used. *)
OrderInv ==
  /\ \A i, j \in 1 .. Len(learned) : i < j => Earlier(learned[i], learned[j])
  /\ \A i \in 1 .. Len(learned) :
       /\ answer.unused => Earlier(learned[i], answer)
       /\ ~Earlier(answer, learned[i])

(* The reward of this tick has been given out when the learning is past.   *)
Given(reward, t, s) == reward <= t /\ (reward = t => s = 0 \/ s > Learner!LearnsAfter)

(* A reward waits in one goroutine or is in one experience. *)
RewardInv ==
  /\ \A o \in observes : Given(o.reward, learnerTick, step)
  /\ \A i \in 1 .. Len(learned) : Given(learned[i].reward, learnerTick, step)
  /\ \A o, p \in observes : o.reward = p.reward => o = p
  /\ \A i \in 1 .. Len(learned) : \A o \in observes : learned[i].reward # o.reward
  /\ \A i, j \in 1 .. Len(learned) : i # j => learned[i].reward # learned[j].reward

LearnerInv == LearnerTypes /\ AnswerInv /\ OrderInv /\ RewardInv

LEMMA LearnsAfterType == Learner!LearnsAfter \in Nat
BY LearnerAssumption DEF Learner!LearnsAfter, Learner!SearchEnds

LEMMA SearchActionType ==
  ASSUME NEW c \in Nat PROVE Learner!searchAction(c) \in BOOLEAN
BY DEF Learner!searchAction

(* A new answer comes after all that was learned from. *)
LEMMA AnswerNew ==
  ASSUME LearnerInv, answer' \in [tick : Nat, call : Nat, real : BOOLEAN, unused : BOOLEAN],
         Earlier(answer, answer'), UNCHANGED learned
  PROVE  OrderInv'
<1>1. \A i \in 1 .. Len(learned) : learned[i] \in Experiences
  BY DEF LearnerInv, LearnerTypes
<1>2. ASSUME NEW i \in 1 .. Len(learned)
      PROVE  Earlier(learned[i], answer') /\ ~Earlier(answer', learned[i])
  <2>1. ~Earlier(answer, learned[i])
    BY DEF LearnerInv, OrderInv
  <2>2. answer \in [tick : Nat, call : Nat, real : BOOLEAN, unused : BOOLEAN]
    BY DEF LearnerInv, LearnerTypes
  <2> QED BY <1>1, <2>1, <2>2 DEF Earlier, Experiences
<1>3. \A i, j \in 1 .. Len(learned) : i < j => Earlier(learned[i], learned[j])
  BY DEF LearnerInv, OrderInv
<1> QED BY <1>2, <1>3 DEF OrderInv

(* A step that gives no reward out keeps what is known of them. *)
LEMMA RewardsKept ==
  ASSUME LearnerInv, UNCHANGED <<observes, learned>>, learnerTick' \in Nat, step' \in Nat,
         \/ learnerTick' = learnerTick + 1
         \/ learnerTick' = learnerTick /\ (step' = 0 \/ (step' = step + 1 /\ step > 0))
  PROVE  RewardInv'
<1>0. learnerTick \in Nat /\ step \in Nat
  BY DEF LearnerInv, LearnerTypes
<1>1. ASSUME NEW reward \in Nat, Given(reward, learnerTick, step) PROVE Given(reward, learnerTick', step')
  BY <1>0, <1>1, LearnsAfterType DEF Given
<1>2. \A o \in observes : o.reward \in Nat /\ Given(o.reward, learnerTick, step)
  BY DEF LearnerInv, LearnerTypes, RewardInv
<1>3. \A i \in 1 .. Len(learned) : learned[i].reward \in Nat /\ Given(learned[i].reward, learnerTick, step)
  <2>1. \A i \in 1 .. Len(learned) : learned[i] \in Experiences
    BY DEF LearnerInv, LearnerTypes
  <2> QED BY <2>1 DEF LearnerInv, RewardInv, Experiences
<1>4. \A o \in observes : Given(o.reward, learnerTick', step')
  BY <1>1, <1>2
<1>5. \A i \in 1 .. Len(learned) : Given(learned[i].reward, learnerTick', step')
  BY <1>1, <1>3
<1>6. /\ \A o, p \in observes : o.reward = p.reward => o = p
      /\ \A i \in 1 .. Len(learned) : \A o \in observes : learned[i].reward # o.reward
      /\ \A i, j \in 1 .. Len(learned) : i # j => learned[i].reward # learned[j].reward
  BY DEF LearnerInv, RewardInv
<1> QED BY <1>4, <1>5, <1>6 DEF RewardInv, Given

LEMMA LearnerStep == LearnerInv /\ [Learner!Next]_(Learner!vars) => LearnerInv'
<1> SUFFICES ASSUME LearnerInv, [Learner!Next]_(Learner!vars) PROVE LearnerInv'
  OBVIOUS
<1>0. LearnerTypes /\ AnswerInv /\ OrderInv /\ RewardInv
  BY DEF LearnerInv
<1>t. Learner!LearnsAfter \in Nat
  BY LearnsAfterType
<1>1. CASE UNCHANGED Learner!vars
  BY <1>0, <1>1 DEF LearnerInv, LearnerTypes, AnswerInv, OrderInv, RewardInv, Given, Earlier, Learner!vars
<1>2. CASE Learner!BeginTick
  <2>1. LearnerTypes'
    BY <1>0, <1>2 DEF Learner!BeginTick, LearnerTypes
  <2>2. Earlier(answer, answer') /\ AnswerInv'
    BY <1>0, <1>2 DEF Learner!BeginTick, LearnerTypes, AnswerInv, Earlier
  <2>3. OrderInv'
    BY <1>2, <2>1, <2>2, AnswerNew DEF Learner!BeginTick, LearnerTypes
  <2>4. RewardInv'
    BY <1>2, <2>1, RewardsKept DEF Learner!BeginTick, LearnerTypes
  <2> QED BY <2>1, <2>2, <2>3, <2>4 DEF LearnerInv
<1>3. CASE Learner!Act
  <2>1. LearnerTypes'
    BY <1>0, <1>3, SearchActionType DEF Learner!Act, LearnerTypes
  <2>2. Earlier(answer, answer') /\ AnswerInv'
    BY <1>0, <1>3 DEF Learner!Act, LearnerTypes, AnswerInv, Earlier
  <2>3. OrderInv'
    BY <1>3, <2>1, <2>2, AnswerNew DEF Learner!Act, LearnerTypes
  <2>4. RewardInv'
    BY <1>3, <2>1, RewardsKept DEF Learner!Act, LearnerTypes
  <2> QED BY <2>1, <2>2, <2>3, <2>4 DEF LearnerInv
<1>4. CASE Learner!TryStep
  <2>0. step = Learner!LearnsAfter /\ step' = step + 1
        /\ answer' = [tick |-> learnerTick, call |-> step', real |-> FALSE, unused |-> TRUE]
        /\ prevTD' = learnerTick /\ UNCHANGED <<learnerTick, learned>>
    BY <1>4 DEF Learner!TryStep
  <2>a. learnerTick \in Nat /\ step \in Nat /\ prevTD \in Nat
    BY <1>0 DEF LearnerTypes
  <2>p. step > 0
    BY <2>0, LearnerAssumption DEF Learner!LearnsAfter, Learner!SearchEnds
  <2>b. PICK made : /\ made \in {{}, {[next |-> prevTD, reward |-> learnerTick]}}
                    /\ observes' = observes \cup made
    BY <1>4 DEF Learner!TryStep
  <2>1. LearnerTypes'
    BY <1>0, <2>0, <2>a, <2>b DEF LearnerTypes
  <2>2. Earlier(answer, answer') /\ AnswerInv'
    BY <1>0, <2>0, <2>a, <2>p DEF LearnerTypes, AnswerInv, Earlier
  <2>3. OrderInv'
    BY <2>0, <2>1, <2>2, AnswerNew DEF LearnerTypes
  <2>4. RewardInv'
    <3>1. \A i \in 1 .. Len(learned) : learned[i] \in Experiences
      BY <1>0 DEF LearnerTypes
    <3>2. \A o \in observes : o.reward \in Nat /\ o.reward < learnerTick
      BY <1>0, <1>t, <2>0, <2>a, <2>p DEF LearnerTypes, RewardInv, Given
    <3>3. \A i \in 1 .. Len(learned) : learned[i].reward \in Nat /\ learned[i].reward < learnerTick
      BY <1>0, <1>t, <2>0, <2>a, <2>p, <3>1 DEF RewardInv, Given, Experiences
    <3>4. ASSUME NEW reward \in Nat, reward <= learnerTick PROVE Given(reward, learnerTick', step')
      BY <1>t, <2>0, <2>a, <3>4 DEF Given
    <3>5. \A o \in observes' : Given(o.reward, learnerTick', step')
      BY <2>a, <2>b, <3>2, <3>4
    <3>6. \A i \in 1 .. Len(learned) : Given(learned[i].reward, learnerTick', step')
      BY <2>a, <3>3, <3>4
    <3>7. \A o, p \in observes' : o.reward = p.reward => o = p
      BY <1>0, <2>a, <2>b, <3>2 DEF RewardInv
    <3>8. \A i \in 1 .. Len(learned) : \A o \in observes' : learned[i].reward # o.reward
      BY <1>0, <2>a, <2>b, <3>3 DEF RewardInv
    <3>9. \A i, j \in 1 .. Len(learned) : i # j => learned[i].reward # learned[j].reward
      BY <1>0 DEF RewardInv
    <3> QED BY <2>0, <3>5, <3>6, <3>7, <3>8, <3>9 DEF RewardInv, Given
  <2> QED BY <2>1, <2>2, <2>3, <2>4 DEF LearnerInv
<1>5. CASE Learner!EndTick
  <2>1. LearnerTypes' /\ AnswerInv'
    BY <1>0, <1>5 DEF Learner!EndTick, LearnerTypes, AnswerInv
  <2>2. OrderInv'
    BY <1>0, <1>5 DEF Learner!EndTick, OrderInv, Earlier
  <2>3. RewardInv'
    BY <1>5, <2>1, RewardsKept DEF Learner!EndTick, LearnerTypes
  <2> QED BY <2>1, <2>2, <2>3 DEF LearnerInv
<1>6. ASSUME NEW o \in observes, Learner!Observe(o) PROVE LearnerInv'
  <2>0. /\ learnerTick' = learnerTick /\ step' = step /\ prevTD' = prevTD
        /\ observes' = observes \ {o}
    BY <1>6 DEF Learner!Observe
  <2>o. o.next \in Nat /\ o.reward \in Nat /\ Given(o.reward, learnerTick, step)
    BY <1>0 DEF LearnerTypes, RewardInv
  <2>1. CASE ~answer.unused
    <3>1. learned' = learned /\ answer' = answer
      BY <1>6, <2>1 DEF Learner!Observe
    <3>2. LearnerTypes' /\ AnswerInv'
      BY <1>0, <2>0, <3>1 DEF LearnerTypes, AnswerInv
    <3>3. OrderInv'
      BY <1>0, <2>0, <3>1 DEF OrderInv, Earlier
    <3>4. RewardInv'
      BY <1>0, <2>0, <3>1 DEF RewardInv, Given
    <3> QED BY <3>2, <3>3, <3>4 DEF LearnerInv
  <2>2. CASE answer.unused
    <3> DEFINE e == [tick |-> answer.tick, call |-> answer.call, real |-> answer.real,
                     next |-> o.next, reward |-> o.reward]
               n == Len(learned)
    <3>1. learned' = Append(learned, e) /\ answer' = [answer EXCEPT !.unused = FALSE]
      BY <1>6, <2>2 DEF Learner!Observe, Learner!Used
    <3>2. e \in Experiences /\ learned \in Seq(Experiences) /\ n \in Nat
      BY <1>0, <2>o DEF LearnerTypes, Experiences
    <3>3. /\ Len(learned') = n + 1 /\ learned'[n + 1] = e
          /\ \A i \in 1 .. n : learned'[i] = learned[i]
      BY <3>1, <3>2
    <3>4. /\ answer' \in [tick : Nat, call : Nat, real : BOOLEAN, unused : BOOLEAN]
          /\ answer'.tick = answer.tick /\ answer'.call = answer.call /\ answer'.unused = FALSE
          /\ e.tick = answer.tick /\ e.call = answer.call /\ e.reward = o.reward
      BY <1>0, <3>1 DEF LearnerTypes
    <3>4a. answer.tick \in Nat /\ answer.call \in Nat
      BY <1>0 DEF LearnerTypes
    <3>5. LearnerTypes'
      BY <1>0, <2>0, <3>1, <3>2, <3>4 DEF LearnerTypes
    <3>6. AnswerInv'
      BY <1>0, <2>0, <3>4 DEF AnswerInv
    <3>7. \A i \in 1 .. n : Earlier(learned[i], answer) /\ ~Earlier(answer, learned[i])
      BY <1>0, <2>2 DEF OrderInv
    <3>8. \A i \in 1 .. n : Earlier(learned[i], e) /\ ~Earlier(answer', learned[i])
      BY <3>4, <3>7 DEF Earlier
    <3>9. ~Earlier(answer', e)
      BY <3>4, <3>4a DEF Earlier
    <3>10. \A i, j \in 1 .. n : i < j => Earlier(learned[i], learned[j])
      BY <1>0 DEF OrderInv
    <3>11. \A i \in 1 .. n : learned[i].reward # e.reward /\ Given(learned[i].reward, learnerTick, step)
      BY <1>0, <3>4 DEF RewardInv
    <3>12. \A i, j \in 1 .. n : i # j => learned[i].reward # learned[j].reward
      BY <1>0 DEF RewardInv
    <3>13. /\ \A p \in observes' : p.reward # e.reward /\ Given(p.reward, learnerTick, step)
           /\ \A p, q \in observes' : p.reward = q.reward => p = q
           /\ \A i \in 1 .. n : \A p \in observes' : learned[i].reward # p.reward
      BY <1>0, <2>0, <3>4 DEF RewardInv
    <3>14. Given(e.reward, learnerTick, step)
      BY <2>o, <3>4
    <3> HIDE DEF e, n
    <3>15. \A i \in 1 .. Len(learned') : (i \in 1 .. n /\ learned'[i] = learned[i]) \/ (i = n + 1 /\ learned'[i] = e)
      BY <3>2, <3>3
    <3>16. OrderInv'
      <4>1. ASSUME NEW i \in 1 .. Len(learned'), NEW j \in 1 .. Len(learned'), i < j
            PROVE  Earlier(learned'[i], learned'[j])
        BY <3>2, <3>8, <3>10, <3>15, <4>1
      <4>2. \A i \in 1 .. Len(learned') : ~Earlier(answer', learned'[i])
        BY <3>8, <3>9, <3>15
      <4> QED BY <3>4, <4>1, <4>2 DEF OrderInv
    <3>17. RewardInv'
      <4>1. \A i \in 1 .. Len(learned') : Given(learned'[i].reward, learnerTick, step)
        BY <3>11, <3>14, <3>15
      <4>2. \A i \in 1 .. Len(learned') : \A p \in observes' : learned'[i].reward # p.reward
        BY <3>13, <3>15
      <4>3. \A i, j \in 1 .. Len(learned') : i # j => learned'[i].reward # learned'[j].reward
        BY <3>11, <3>12, <3>15
      <4>5. \A i \in 1 .. Len(learned') : Given(learned'[i].reward, learnerTick', step')
        BY <2>0, <4>1 DEF Given
      <4>6. \A p \in observes' : Given(p.reward, learnerTick', step')
        BY <2>0, <3>13 DEF Given
      <4> QED BY <3>13, <4>2, <4>3, <4>5, <4>6 DEF RewardInv, Given
    <3> QED BY <3>5, <3>6, <3>16, <3>17 DEF LearnerInv
  <2> QED BY <2>1, <2>2
<1> QED BY <1>1, <1>2, <1>3, <1>4, <1>5, <1>6 DEF Learner!Next

(* No answer is learned from twice and no reward given out twice, however  *)
(* many goroutines wait for the policy's lock.                             *)
THEOREM LearnedOnlyOnce == Learner!Spec => []Learner!LearnedOnce
<1>1. Learner!Init => LearnerInv
  BY DEF Learner!Init, Learner!NoAnswer, LearnerInv, LearnerTypes, AnswerInv, OrderInv, RewardInv
<1>2. LearnerInv => Learner!LearnedOnce
  <2> SUFFICES ASSUME LearnerInv, NEW i \in 1 .. Len(learned), NEW j \in 1 .. Len(learned), i # j
               PROVE  /\ <<learned[i].tick, learned[i].call>> # <<learned[j].tick, learned[j].call>>
                      /\ learned[i].reward # learned[j].reward
    BY DEF Learner!LearnedOnce
  <2>1. learned[i] \in Experiences /\ learned[j] \in Experiences
    BY DEF LearnerInv, LearnerTypes
  <2>2. Earlier(learned[i], learned[j]) \/ Earlier(learned[j], learned[i])
    <3>1. CASE i < j
      BY <3>1 DEF LearnerInv, OrderInv
    <3>2. CASE j < i
      BY <3>2 DEF LearnerInv, OrderInv
    <3> QED BY <3>1, <3>2
  <2>3. learned[i].reward # learned[j].reward
    BY DEF LearnerInv, RewardInv
  <2> QED BY <2>1, <2>2, <2>3 DEF Earlier, Experiences
<1> QED BY <1>1, <1>2, LearnerStep, PTL DEF Learner!Spec

-------------------------------------------------------------------------------
(* The degree of autonomy *)

(* The least score after t ticks of least readings, up to the 24th. *)
LeastScores == <<50, 95, 135, 171, 203, 232, 258, 282, 303, 322, 339, 355,
                 369, 382, 393, 403, 412, 420, 428, 435, 441, 446, 451, 455>>

(* The score passes the threshold on the 23rd tick at the latest and stays *)
(* above it; a service that was promoted is autonomous until then.         *)
AutonomyInv ==
  /\ autonomyTick \in Nat /\ anomalyEW \in Nat
  /\ autonomyTick \in 1 .. 24 => anomalyEW >= LeastScores[autonomyTick]
  /\ autonomyTick > 24 => anomalyEW > 450
  /\ autonomyMode = "autonomous" => autonomyTick < 24
  /\ promotions # {} => autonomyMode = "autonomous" \/ anomalyEW > 450
  /\ \A t, u \in promotions : t = u

(* The least score of a tick follows from that of the tick before. *)
LEMMA ScoreRises ==
  ASSUME NEW e \in Nat, NEW r \in 500 .. 1000, NEW t \in Nat,
         t \in 1 .. 24 => e >= LeastScores[t], t > 24 => e > 450
  PROVE  /\ (9 * e + r) \div 10 \in Nat
         /\ t + 1 \in 1 .. 24 => (9 * e + r) \div 10 >= LeastScores[t + 1]
         /\ t >= 23 => (9 * e + r) \div 10 > 450
<1> DEFINE d == (9 * e + r) \div 10
<1>2. d \in Nat /\ 10 * d > 9 * e + r - 10
  OBVIOUS
<1> HIDE DEF d
<1>3. ASSUME t + 1 \in 1 .. 24 PROVE d >= LeastScores[t + 1]
  <2>1. CASE t = 0
    BY <1>2, <2>1 DEF LeastScores
  <2>2. CASE t \in 1 .. 12
    BY <1>2, <2>2 DEF LeastScores
  <2>3. CASE t \in 13 .. 23
    BY <1>2, <2>3 DEF LeastScores
  <2> QED BY <1>3, <2>1, <2>2, <2>3
<1>4. ASSUME t >= 23 PROVE d > 450
  <2>1. e > 450
    <3>1. CASE t = 23
      BY <3>1 DEF LeastScores
    <3>2. CASE t = 24
      BY <3>2 DEF LeastScores
    <3> QED BY <1>4, <3>1, <3>2
  <2> QED BY <1>2, <2>1
<1> QED BY <1>2, <1>3, <1>4 DEF d

LEMMA AutonomyStep == AutonomyInv /\ [Modes!Next]_(Modes!vars) => AutonomyInv'
<1> SUFFICES ASSUME AutonomyInv, [Modes!Next]_(Modes!vars) PROVE AutonomyInv'
  OBVIOUS
<1>1. CASE UNCHANGED Modes!vars
  BY <1>1 DEF AutonomyInv, Modes!vars
<1>2. CASE Modes!Next
  <2>1. PICK reading \in Readings, fit \in BOOLEAN : Modes!Step(reading, fit)
    BY <1>2 DEF Modes!Next
  <2>2. reading \in 500 .. 1000
    BY ReadingAssumption
  <2>3. autonomyTick' = autonomyTick + 1 /\ anomalyEW' = (9 * anomalyEW + reading) \div 10
    BY <2>1 DEF Modes!Step, Modes!anomalyScore
  <2>4. /\ anomalyEW' \in Nat
        /\ autonomyTick' \in 1 .. 24 => anomalyEW' >= LeastScores[autonomyTick']
        /\ autonomyTick >= 23 => anomalyEW' > 450
    <3> DEFINE d == (9 * anomalyEW + reading) \div 10
    <3>1. /\ anomalyEW \in Nat /\ autonomyTick \in Nat
          /\ autonomyTick \in 1 .. 24 => anomalyEW >= LeastScores[autonomyTick]
          /\ autonomyTick > 24 => anomalyEW > 450
      BY DEF AutonomyInv
    <3>2. /\ d \in Nat
          /\ autonomyTick + 1 \in 1 .. 24 => d >= LeastScores[autonomyTick + 1]
          /\ autonomyTick >= 23 => d > 450
      BY ZenonT(30), <2>2, <3>1, ScoreRises
    <3>3. anomalyEW' = d
      BY <2>3
    <3> HIDE DEF d
    <3>4. autonomyTick' = autonomyTick + 1
      BY <2>3
    <3>5. LeastScores[autonomyTick'] = LeastScores[autonomyTick + 1]
      BY <3>4
    <3> QED BY <3>2, <3>3, <3>4, <3>5
  <2>5. anomalyEW > 450 => anomalyEW' > 450
    BY <2>2, <2>3 DEF AutonomyInv
  <2>6. /\ autonomyMode' = "autonomous" => ~(anomalyEW' > 450)
        /\ autonomyMode = "autonomous" /\ autonomyMode' # "autonomous" => anomalyEW' > 450
    BY <2>1, <2>4 DEF Modes!Step, Modes!updateMode
  <2>7. \/ autonomyMode # "autonomous" /\ autonomyMode' = "autonomous"
           /\ promotions' = promotions \cup {autonomyTick'}
        \/ promotions' = promotions
           /\ (autonomyMode # "autonomous" => autonomyMode' # "autonomous")
    BY <2>1 DEF Modes!Step
  <2>8. CASE autonomyMode # "autonomous" /\ autonomyMode' = "autonomous"
             /\ promotions' = promotions \cup {autonomyTick'}
    <3>1. promotions = {}
      BY <2>5, <2>6, <2>8 DEF AutonomyInv
    <3> QED BY <2>3, <2>4, <2>6, <2>8, <3>1 DEF AutonomyInv
  <2>9. CASE promotions' = promotions /\ (autonomyMode # "autonomous" => autonomyMode' # "autonomous")
    BY <2>3, <2>4, <2>5, <2>6, <2>9 DEF AutonomyInv
  <2> QED BY <2>7, <2>8, <2>9
<1> QED BY <1>1, <1>2

(* Full autonomy is over within 24 ticks, and entered at most once,        *)
(* whatever the readings are.                                              *)
THEOREM AutonomyStaysEarly == Modes!Spec => []Modes!AutonomyIsEarly
<1>1. Modes!Init => AutonomyInv
  BY DEF Modes!Init, AutonomyInv
<1>2. AutonomyInv => Modes!AutonomyIsEarly
  BY DEF AutonomyInv, Modes!AutonomyIsEarly
<1> QED BY <1>1, <1>2, AutonomyStep, PTL DEF Modes!Spec

-------------------------------------------------------------------------------
(* The models of the services *)

StageTypes ==
  /\ stageTick \in Nat /\ pc \in {"idle", "pool", "guards"}
  /\ observed \subseteq Modelled /\ todo \subseteq observed
  /\ worker \in [Modelled -> [at : {"off", "queue", "signal", "bundle"}, read : Int]]
  /\ physics \in [Modelled -> Int] /\ filter \in [Modelled -> Int]
  /\ bundles \in [Modelled -> Nat]
  /\ present \in [Modelled -> [ticks : Nat, first : BOOLEAN]]

(* What the filter of an observed service had seen before this tick, and   *)
(* the runs its queue model may have when the field has run it, or not.    *)
Before(s) == present[s].ticks - 1 + (IF present[s].first /\ stageTick # 1 THEN 1 ELSE 0)
FieldRuns(s) == Before(s) .. Before(s) + present[s].ticks + 1
PoolRuns(s) == Before(s) + 1 .. Before(s) + present[s].ticks + 2

(* Where the models of an observed service are, by its goroutine. *)
Unstarted(s) ==
  /\ worker[s].at = "off" /\ bundles[s] = 0
  /\ Stage!Found(physics, s) \in FieldRuns(s) /\ Stage!Found(filter, s) = Before(s)
AtQueue(s) ==
  /\ bundles[s] = 0 /\ worker[s].read \in FieldRuns(s) /\ Stage!Found(filter, s) = Before(s)
AtSignal(s) == bundles[s] = 0 /\ physics[s] \in PoolRuns(s) /\ worker[s].read = Before(s)
AtBundle(s) == bundles[s] = 0 /\ physics[s] \in PoolRuns(s) /\ filter[s] = Before(s) + 1
Bundled(s) == bundles[s] = stageTick /\ physics[s] \in PoolRuns(s) /\ filter[s] = Before(s) + 1

InPool(s) ==
  IF s \in todo THEN Unstarted(s)
  ELSE /\ worker[s].at = "queue" => AtQueue(s)
       /\ worker[s].at = "signal" => AtSignal(s)
       /\ worker[s].at = "bundle" => AtBundle(s)
       /\ worker[s].at = "off" => Bundled(s)

(* A service with a window, and one without. *)
ObservedInv(s) ==
  /\ present[s].ticks >= 1 /\ (stageTick = 1 => present[s].first)
  /\ stageTick >= 1
  /\ pc # "idle" => InPool(s)
AbsentInv(s) ==
  /\ present[s].ticks = 0 /\ ~present[s].first
  /\ worker[s].at = "off" /\ bundles[s] = 0
  /\ pc # "pool" => physics[s] = -1 /\ filter[s] = -1

StageInv ==
  /\ StageTypes
  /\ \A s \in Modelled : IF s \in observed THEN ObservedInv(s) ELSE AbsentInv(s)
  /\ pc # "pool" => todo = {} /\ \A s \in Modelled : worker[s].at = "off"
  /\ Stage!ModelledOnce

(* While a tick is under way only the invariants of the services are left. *)
LEMMA StageMeanwhile ==
  ASSUME StageTypes', pc' = "pool",
         \A s \in Modelled : IF s \in observed' THEN ObservedInv(s)' ELSE AbsentInv(s)'
  PROVE  StageInv'
BY DEF StageInv, Stage!ModelledOnce

(* A step of one goroutine moves the models of its service only. *)
LEMMA OneGoroutine ==
  ASSUME StageInv, NEW s \in Modelled, pc = "pool",
         UNCHANGED <<stageTick, pc, observed, present>>, StageTypes',
         \A x \in Modelled \ {s} :
           /\ worker'[x] = worker[x] /\ physics'[x] = physics[x]
           /\ filter'[x] = filter[x] /\ bundles'[x] = bundles[x]
           /\ (x \in todo' <=> x \in todo),
         s \in observed, InPool(s)'
  PROVE  StageInv'
<1>1. ASSUME NEW x \in Modelled \ {s}, x \in observed PROVE ObservedInv(x)'
  BY <1>1 DEF StageInv, ObservedInv, InPool, Unstarted, AtQueue, AtSignal, AtBundle, Bundled,
    Before, FieldRuns, PoolRuns, Stage!Found
<1>2. ASSUME NEW x \in Modelled \ {s}, x \notin observed PROVE AbsentInv(x)'
  BY <1>2 DEF StageInv, AbsentInv
<1>3. ObservedInv(s)'
  BY DEF StageInv, ObservedInv
<1> QED BY <1>1, <1>2, <1>3, StageMeanwhile

LEMMA StageStep == StageInv /\ [Stage!Next]_(Stage!vars) => StageInv'
<1> SUFFICES ASSUME StageInv, [Stage!Next]_(Stage!vars) PROVE StageInv'
  OBVIOUS
<1>0. StageTypes /\ \A s \in Modelled : IF s \in observed THEN ObservedInv(s) ELSE AbsentInv(s)
  BY DEF StageInv
<1>1. CASE UNCHANGED Stage!vars
  BY <1>1 DEF StageInv, StageTypes, ObservedInv, AbsentInv, InPool, Unstarted, AtQueue, AtSignal,
    AtBundle, Bundled, Before, FieldRuns, PoolRuns, Stage!Found, Stage!ModelledOnce, Stage!vars
<1>2. ASSUME NEW ws \in SUBSET Modelled, NEW os \in SUBSET Modelled,
             Stage!PopulateNetworkField(ws, os)
      PROVE  StageInv'
  <2>0. /\ pc = "idle" /\ pc' = "pool" /\ stageTick' = stageTick + 1
        /\ observed' = os /\ todo' = os /\ UNCHANGED <<worker, filter>>
        /\ physics' = [s \in Modelled |-> IF s \in ws THEN Stage!Found(physics, s) + 1 ELSE physics[s]]
        /\ bundles' = [s \in Modelled |-> 0]
        /\ present' = [s \in Modelled |->
             IF s \notin os THEN [ticks |-> 0, first |-> FALSE]
             ELSE [ticks |-> present[s].ticks + 1, first |-> stageTick' = 1 \/ present[s].first]]
    BY <1>2 DEF Stage!PopulateNetworkField
  <2>1. StageTypes'
    BY <1>0, <2>0 DEF StageTypes, Stage!Found
  <2>2. ASSUME NEW s \in Modelled PROVE IF s \in observed' THEN ObservedInv(s)' ELSE AbsentInv(s)'
    <3>1. worker[s].at = "off" /\ stageTick \in Nat /\ physics[s] \in Int /\ filter[s] \in Int
          /\ present[s].ticks \in Nat /\ present[s].first \in BOOLEAN
      BY <1>0, <2>0 DEF StageInv, StageTypes
    <3>2. CASE s \notin os
      BY <2>0, <3>1, <3>2 DEF AbsentInv
    <3>3. CASE s \in os
      <4> DEFINE t == present[s].ticks
                 f == IF present[s].first THEN 1 ELSE 0
      <4>1. /\ present'[s].ticks = t + 1
            /\ present'[s].first <=> (stageTick' = 1 \/ present[s].first)
        BY <2>0, <3>3
      <4>2. Stage!Found(filter, s) = t + f /\ Stage!Found(physics, s) \in t + f .. t + f + t + 1
        <5>1. CASE s \in observed
          BY <2>0, <3>1, <5>1 DEF StageInv, Stage!ModelledOnce, Stage!Found
        <5>2. CASE s \notin observed
          BY <1>0, <2>0, <3>1, <5>2 DEF AbsentInv, Stage!Found
        <5> QED BY <5>1, <5>2
      <4>3. Before(s)' = t + f
        <5>1. CASE stageTick' = 1
          <6>1. s \notin observed
            BY <1>0, <2>0, <3>1, <5>1 DEF ObservedInv
          <6>2. ~present[s].first
            BY <1>0, <6>1 DEF AbsentInv
          <6>3. Before(s)' = present'[s].ticks - 1 + 0
            BY <5>1 DEF Before
          <6> QED BY <3>1, <4>1, <6>2, <6>3
        <5>2. CASE stageTick' # 1
          BY <3>1, <4>1, <5>2 DEF Before
        <5> QED BY <5>1, <5>2
      <4>4. Stage!Found(filter', s) = t + f
        BY <2>0, <4>2 DEF Stage!Found
      <4>5. Stage!Found(physics', s) \in t + f .. t + f + t + 2
        <5>1. physics'[s] = IF s \in ws THEN Stage!Found(physics, s) + 1 ELSE physics[s]
          BY <2>0
        <5> QED BY <3>1, <4>2, <5>1 DEF Stage!Found
      <4>6. Unstarted(s)'
        BY <2>0, <3>1, <4>1, <4>3, <4>4, <4>5 DEF Unstarted, FieldRuns, Stage!Found
      <4>7. present'[s].ticks >= 1 /\ stageTick' >= 1 /\ (stageTick' = 1 => present'[s].first)
        BY <2>0, <3>1, <4>1
      <4>8. InPool(s)'
        BY <2>0, <3>3, <4>6 DEF InPool
      <4> QED BY <2>0, <3>3, <4>7, <4>8 DEF ObservedInv
    <3> QED BY <2>0, <3>2, <3>3
  <2> QED BY <2>0, <2>1, <2>2, StageMeanwhile
<1>3. ASSUME NEW s \in Modelled, Stage!Start(s) PROVE StageInv'
  <2>0. /\ pc = "pool" /\ s \in todo /\ todo' = todo \ {s}
        /\ physics' = [physics EXCEPT ![s] = Stage!Found(physics, s)]
        /\ worker' = [worker EXCEPT ![s] = [at |-> "queue", read |-> Stage!Found(physics, s)]]
        /\ UNCHANGED <<stageTick, pc, observed, filter, bundles, present>>
    BY <1>3 DEF Stage!Start
  <2>1. StageTypes'
    BY <1>0, <2>0 DEF StageTypes, Stage!Found
  <2>2. s \in observed /\ Unstarted(s)
    BY <1>0, <2>0 DEF StageTypes, ObservedInv, InPool
  <2>3. worker'[s].at = "queue" /\ worker'[s].read = Stage!Found(physics, s)
    BY <1>0, <2>0 DEF StageTypes
  <2>4. InPool(s)'
    BY <2>0, <2>2, <2>3 DEF InPool, AtQueue, Unstarted, Before, FieldRuns, Stage!Found
  <2>5. \A x \in Modelled \ {s} : worker'[x] = worker[x] /\ physics'[x] = physics[x]
    BY <1>0, <2>0 DEF StageTypes
  <2> QED BY <2>0, <2>1, <2>2, <2>4, <2>5, OneGoroutine
<1>4. ASSUME NEW s \in Modelled, Stage!RunQueueModel(s) PROVE StageInv'
  <2>0. /\ worker[s].at = "queue"
        /\ physics' = [physics EXCEPT ![s] = worker[s].read + 1]
        /\ filter' = [filter EXCEPT ![s] = Stage!Found(filter, s)]
        /\ worker' = [worker EXCEPT ![s] = [at |-> "signal", read |-> Stage!Found(filter, s)]]
        /\ UNCHANGED <<stageTick, pc, observed, todo, bundles, present>>
    BY <1>4 DEF Stage!RunQueueModel
  <2>1. StageTypes'
    BY <1>0, <2>0 DEF StageTypes, Stage!Found
  <2>2. pc = "pool" /\ s \in observed
    BY <1>0, <2>0 DEF StageInv, AbsentInv
  <2>3. s \notin todo /\ AtQueue(s)
    BY <1>0, <2>0, <2>2 DEF ObservedInv, InPool, Unstarted
  <2>4. /\ worker'[s].at = "signal" /\ worker'[s].read = Stage!Found(filter, s)
        /\ physics'[s] = worker[s].read + 1
    BY <1>0, <2>0 DEF StageTypes
  <2>5. InPool(s)'
    <3>1. /\ Before(s)' = Before(s) /\ PoolRuns(s)' = PoolRuns(s)
      BY <2>0 DEF Before, PoolRuns
    <3>2. Before(s) \in Int /\ present[s].ticks \in Nat
      BY <1>0 DEF StageTypes, Before
    <3>3. worker[s].read + 1 \in PoolRuns(s)
      BY <2>3, <3>2 DEF AtQueue, FieldRuns, PoolRuns
    <3> QED BY <2>0, <2>3, <2>4, <3>1, <3>3 DEF InPool, AtSignal, AtQueue
  <2>6. \A x \in Modelled \ {s} :
          worker'[x] = worker[x] /\ physics'[x] = physics[x] /\ filter'[x] = filter[x]
    BY <1>0, <2>0 DEF StageTypes
  <2> QED BY <2>0, <2>1, <2>2, <2>5, <2>6, OneGoroutine
<1>5. ASSUME NEW s \in Modelled, Stage!Update(s) PROVE StageInv'
  <2>0. /\ worker[s].at = "signal"
        /\ filter' = [filter EXCEPT ![s] = worker[s].read + 1]
        /\ worker' = [worker EXCEPT ![s].at = "bundle"]
        /\ UNCHANGED <<stageTick, pc, observed, todo, physics, bundles, present>>
    BY <1>5 DEF Stage!Update
  <2>1. StageTypes'
    BY <1>0, <2>0 DEF StageTypes
  <2>2. pc = "pool" /\ s \in observed
    BY <1>0, <2>0 DEF StageInv, AbsentInv
  <2>3. s \notin todo /\ AtSignal(s)
    BY <1>0, <2>0, <2>2 DEF ObservedInv, InPool, Unstarted
  <2>4. worker'[s].at = "bundle" /\ filter'[s] = worker[s].read + 1
    BY <1>0, <2>0 DEF StageTypes
  <2>5. InPool(s)'
    BY <2>0, <2>3, <2>4 DEF InPool, AtSignal, AtBundle, Before, PoolRuns
  <2>6. \A x \in Modelled \ {s} : worker'[x] = worker[x] /\ filter'[x] = filter[x]
    BY <1>0, <2>0 DEF StageTypes
  <2> QED BY <2>0, <2>1, <2>2, <2>5, <2>6, OneGoroutine
<1>6. ASSUME NEW s \in Modelled, Stage!PutBundle(s) PROVE StageInv'
  <2>0. /\ worker[s].at = "bundle"
        /\ bundles' = [bundles EXCEPT ![s] = stageTick]
        /\ worker' = [worker EXCEPT ![s] = Stage!Off]
        /\ UNCHANGED <<stageTick, pc, observed, todo, physics, filter, present>>
    BY <1>6 DEF Stage!PutBundle
  <2>1. StageTypes'
    BY <1>0, <2>0 DEF StageTypes, Stage!Off
  <2>2. pc = "pool" /\ s \in observed
    BY <1>0, <2>0 DEF StageInv, AbsentInv
  <2>3. s \notin todo /\ AtBundle(s)
    BY <1>0, <2>0, <2>2 DEF ObservedInv, InPool, Unstarted
  <2>4. worker'[s].at = "off" /\ bundles'[s] = stageTick
    BY <1>0, <2>0 DEF StageTypes, Stage!Off
  <2>5. InPool(s)'
    BY <2>0, <2>3, <2>4 DEF InPool, AtBundle, Bundled, Before, PoolRuns
  <2>6. \A x \in Modelled \ {s} : worker'[x] = worker[x] /\ bundles'[x] = bundles[x]
    BY <1>0, <2>0 DEF StageTypes
  <2> QED BY <2>0, <2>1, <2>2, <2>5, <2>6, OneGoroutine
<1>7. CASE Stage!Wait
  <2>0. /\ pc = "pool" /\ pc' = "guards" /\ todo = {} /\ \A s \in Modelled : worker[s].at = "off"
        /\ physics' = [s \in Modelled |-> IF s \in observed THEN physics[s] ELSE -1]
        /\ filter' = [s \in Modelled |-> IF s \in observed THEN filter[s] ELSE -1]
        /\ UNCHANGED <<stageTick, observed, todo, worker, bundles, present>>
    BY <1>7 DEF Stage!Wait, Stage!Prune
  <2>1. StageTypes'
    BY <1>0, <2>0 DEF StageTypes
  <2>2. ASSUME NEW s \in Modelled, s \in observed PROVE ObservedInv(s)'
    <3>1. Bundled(s)
      BY <1>0, <2>0, <2>2 DEF ObservedInv, InPool
    <3>2. Bundled(s)' /\ worker'[s].at = "off"
      BY <2>0, <2>2, <3>1 DEF Bundled, Before, PoolRuns
    <3> QED BY <1>0, <2>0, <2>2, <3>2 DEF ObservedInv, InPool
  <2>3. ASSUME NEW s \in Modelled, s \notin observed PROVE AbsentInv(s)'
    BY <1>0, <2>0, <2>3 DEF AbsentInv
  <2> QED BY <2>0, <2>1, <2>2, <2>3 DEF StageInv, Stage!ModelledOnce
<1>8. CASE Stage!Guards
  <2> DEFINE missing == {s \in observed : bundles[s] = 0}
             extra == IF stageTick = 1 THEN 1 ELSE 0
  <2>1. missing = {}
    <3>1. ASSUME NEW s \in observed PROVE bundles[s] # 0
      BY <1>0, <1>8 DEF StageInv, StageTypes, ObservedInv, InPool, Bundled, Stage!Guards
    <3> QED BY <3>1
  <2>2. pc = "guards" /\ pc' = "idle" /\ UNCHANGED <<stageTick, observed, todo, worker, present>>
    BY <1>8 DEF Stage!Guards
  <2>3. /\ physics' = [s \in Modelled |-> physics[s] + (IF s \in observed THEN extra ELSE 0)]
        /\ filter' = [s \in Modelled |-> filter[s] + (IF s \in observed THEN extra ELSE 0)]
        /\ bundles' = bundles
    <3>1. stageTick = 1 \/ stageTick # 1
      OBVIOUS
    <3>2. bundles' = [s \in Modelled |-> bundles[s]]
      BY <1>8, <2>1 DEF Stage!Guards
    <3>3. bundles' = bundles
      BY <1>0, <3>2 DEF StageTypes
    <3>4. physics' = [s \in Modelled |-> physics[s]
             + ((IF s \in (IF stageTick = 1 THEN observed ELSE {}) THEN 1 ELSE 0) + (IF s \in missing THEN 1 ELSE 0))]
          /\ filter' = [s \in Modelled |-> filter[s]
             + ((IF s \in (IF stageTick = 1 THEN observed ELSE {}) THEN 1 ELSE 0) + (IF s \in missing THEN 1 ELSE 0))]
      BY <1>8 DEF Stage!Guards
    <3>5. \A s \in Modelled :
            ((IF s \in (IF stageTick = 1 THEN observed ELSE {}) THEN 1 ELSE 0) + (IF s \in missing THEN 1 ELSE 0))
            = (IF s \in observed THEN extra ELSE 0)
      BY <2>1
    <3> QED BY <3>3, <3>4, <3>5
  <2>4. StageTypes'
    BY <1>0, <2>2, <2>3 DEF StageTypes
  <2>5. ASSUME NEW s \in Modelled, s \in observed
        PROVE  /\ ObservedInv(s)' /\ bundles'[s] = stageTick'
               /\ LET seen == present'[s].ticks + (IF present'[s].first THEN 1 ELSE 0)
                  IN  filter'[s] = seen /\ seen <= physics'[s] /\ physics'[s] <= seen + present'[s].ticks + 1
    <3>1. Bundled(s) /\ present[s].ticks >= 1 /\ (stageTick = 1 => present[s].first) /\ stageTick >= 1
      BY <1>0, <2>2, <2>5 DEF StageInv, ObservedInv, InPool
    <3>2. present[s].ticks \in Nat /\ present[s].first \in BOOLEAN /\ physics[s] \in Int /\ filter[s] \in Int
      BY <1>0 DEF StageTypes
    <3>3. physics'[s] = physics[s] + extra /\ filter'[s] = filter[s] + extra /\ bundles'[s] = bundles[s]
      BY <2>3, <2>5
    <3>4. ObservedInv(s)'
      BY <2>2, <3>1 DEF ObservedInv
    <3> QED BY <2>2, <3>1, <3>2, <3>3, <3>4 DEF Bundled, Before, PoolRuns
  <2>6. ASSUME NEW s \in Modelled, s \notin observed
        PROVE  AbsentInv(s)' /\ bundles'[s] = 0 /\ filter'[s] = -1 /\ physics'[s] = -1
    <3>1. AbsentInv(s)
      BY <1>0, <2>6
    <3>2. physics'[s] = physics[s] + 0 /\ filter'[s] = filter[s] + 0
      BY <2>3, <2>6
    <3> QED BY <2>2, <2>3, <3>1, <3>2 DEF AbsentInv
  <2>7. todo' = {} /\ \A s \in Modelled : worker'[s].at = "off"
    BY <2>2 DEF StageInv
  <2>8. Stage!ModelledOnce'
    BY <2>2, <2>5, <2>6 DEF Stage!ModelledOnce
  <2> QED BY <2>2, <2>4, <2>5, <2>6, <2>7, <2>8 DEF StageInv
<1> QED BY <1>1, <1>2, <1>3, <1>4, <1>5, <1>6, <1>7, <1>8 DEF Stage!Next

(* Every observed service is modelled once in a tick, however the          *)
(* goroutines of the pool interleave; and no state outlives its service.   *)
THEOREM ModelledEachTick == Stage!Spec => []Stage!ModelledOnce
<1>1. Stage!Init => StageInv
  BY DEF Stage!Init, Stage!Off, StageInv, StageTypes, AbsentInv, Stage!ModelledOnce
<1>2. StageInv => Stage!ModelledOnce
  BY DEF StageInv
<1> QED BY <1>1, <1>2, StageStep, PTL DEF Stage!Spec

-------------------------------------------------------------------------------
(* Together *)

(* A batch that was not cancelled hands on every result in the order of    *)
(* the jobs, none hands on one twice, and a record whose call returned is  *)
(* kept through rotations and crashes.                                     *)
THEOREM ExperimentsStaySound == Batch!Spec /\ Log!Spec => []ExperimentsSound
<1>1. Batch!AllDelivered /\ Batch!NothingTwice /\ Log!RecordsKept => ExperimentsSound
  BY DEF ExperimentsSound
<1> QED BY <1>1, BatchHandsOnOnce, BatchDeliversAll, RecordsStayKept, PTL

(* An answer is learned from once, full autonomy is a matter of the first  *)
(* ticks, and every service is modelled once a tick.                       *)
THEOREM LearningStaysSound == Learner!Spec /\ Modes!Spec /\ Stage!Spec => []LearningSound
<1>1. Learner!LearnedOnce /\ Modes!AutonomyIsEarly /\ Stage!ModelledOnce => LearningSound
  BY DEF LearningSound
<1> QED BY <1>1, LearnedOnlyOnce, AutonomyStaysEarly, ModelledEachTick, PTL
================================================================================
