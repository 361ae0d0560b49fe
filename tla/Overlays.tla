------------------------------- MODULE Overlays -------------------------------
(***************************************************************************)
(* What a tick derives from the models for the operators: the assessment   *)
(* of a service's stability (internal/modelling/stability.go), the queue   *)
(* of services by urgency, the countdowns and the stability envelope       *)
(* (internal/runtime/orchestrator.go), the prediction timelines            *)
(* (internal/streaming/predict.go), and the comparison of several          *)
(* simulated scenarios (internal/simulation/runner.go                      *)
(* LatestMultiScenario).                                                   *)
(*                                                                         *)
(* Utilisations, risks and weights are in hundredths, a trend is in        *)
(* hundredths a second.  The sigmoid is replaced by the line of its slope  *)
(* at its middle, clipped at 0 and 1: it is monotone, and steepest in the  *)
(* middle, as the sigmoid is.                                              *)
(***************************************************************************)
EXTENDS Integers, Sequences, SequencesExt, FiniteSets, FiniteSetsExt

CONSTANTS Threshold,    (* the collapse threshold                              *)
          TickSec,      (* seconds from a tick to the next                     *)
          Horizon       (* ticks of a timeline                                 *)

Clip(x, lo, hi) == IF x < lo THEN lo ELSE IF x > hi THEN hi ELSE x
Sigmoid(d, slope) == Clip(50 + slope * d, 0, 100)

-----------------------------------------------------------------------------
(* The assessment of one service: s has its utilisation rho and trend, the hazard and
   the reservoir of its physics, the densest cell of its edge in the network field (-1
   without one), the weights of its calls and its oscillation. *)
EffectiveRho(s) == s.rho + s.hazard \div 5 + s.reservoir \div 10

RhoCritical == 50

LocalRisk(s) ==
  IF s.field # -1 THEN Sigmoid(s.field - (95 * RhoCritical) \div 100, 12)
  ELSE Sigmoid(EffectiveRho(s) - (95 * Threshold) \div 100, 6)

CollapseZone(s) ==
  LET critical == IF s.field # -1 THEN RhoCritical ELSE Threshold
      warning == (critical * (IF s.field # -1 THEN 80 ELSE 83)) \div 100
      load == IF s.field # -1 THEN s.field ELSE EffectiveRho(s)
  IN CASE load >= critical -> "collapse" [] load >= warning -> "warning" [] OTHER -> "safe"

(* In ten-thousandths a second. *)
StabilityDerivative(s) == (LocalRisk(s) * (100 - LocalRisk(s)) * s.trend) \div 4

(* The mean weight of the calls a service makes. *)
outboundFeedbackGain(s) ==
  LET calls == SelectSeq(s.weights, LAMBDA w : w > 0)
  IN IF calls = <<>> THEN 0 ELSE Clip(FoldLeft(LAMBDA a, w : a + w, 0, calls) \div Len(calls), 0, 100)

(* A service with a high gain and load has its risk amplified. *)
CollapseRisk(s) ==
  IF outboundFeedbackGain(s) > 50 /\ s.rho > (75 * Threshold) \div 100
  THEN Clip((LocalRisk(s) * (100 + (40 * outboundFeedbackGain(s)) \div 100)) \div 100, 0, 100)
  ELSE LocalRisk(s)

(* Seconds until the service is full at its trend: 0 when it is, -1 when it never is. *)
PredictedCollapse(s) ==
  CASE s.rho >= 100 -> 0
    [] s.rho < 100 /\ s.trend > 0 -> (100 - s.rho + s.trend - 1) \div s.trend
    [] OTHER -> -1

(* Decided before the amplification. *)
IsUnstable(s) == LocalRisk(s) > 85 \/ (s.oscillation > 60 /\ s.rho > 70) \/ s.rho >= 100

-----------------------------------------------------------------------------
(* The timelines: the utilisation and the risk k ticks ahead. *)

(* The projection of a timeline that counts ticks as seconds: a mutant. *)
Projected_Ticks(s, k) == Clip(s.rho + s.trend * k, 0, 150)

Projected(s, k) == Clip(s.rho + s.trend * k * TickSec, 0, 150)

BuildRiskTimeline(s) ==
  [k \in 0 .. Horizon |-> [rho |-> Projected(s, k),
                           risk |-> Sigmoid(Projected(s, k) - (95 * Threshold) \div 100, 6)]]

(* The first tick at which a timeline is full. *)
FullAt(s) == {k \in 0 .. Horizon : BuildRiskTimeline(s)[k].rho >= 100}

-----------------------------------------------------------------------------
(* The queue of services by urgency. *)

(* The urgency of a service without its cap: a mutant. *)
Urgency_Uncapped(s, path, keystone) ==
  LET base == IF path > CollapseRisk(s) THEN path ELSE CollapseRisk(s)
  IN (base * (1000 + StabilityDerivative(s)) * (IF keystone THEN 13 ELSE 10)) \div 10

(* In hundred-thousandths: max(risk, path risk) * (1 + 10 * derivative), 1.3 times that of a
   keystone, at most 1. *)
Urgency(s, path, keystone) ==
  LET base == IF path > CollapseRisk(s) THEN path ELSE CollapseRisk(s)
      urgency == (base * (1000 + StabilityDerivative(s)) * (IF keystone THEN 13 ELSE 10)) \div 10
  IN IF urgency > 100000 THEN 100000 ELSE urgency

UrgencyClass(u) ==
  CASE u >= 70000 -> "critical" [] u >= 40000 -> "warning" [] u >= 15000 -> "elevated" [] OTHER -> "nominal"

(* One pass of the insertion sort that compares the wrong way round: a mutant. *)
Inserted_Below(queue, x) ==
  LET k == Max({0} \cup {j \in DOMAIN queue : queue[j][2] <= x[2]})
  IN SubSeq(queue, 1, k) \o <<x>> \o SubSeq(queue, k + 1, Len(queue))

(* One pass of the insertion sort: down to the last item with an urgency no lower. *)
Inserted(queue, x) ==
  LET k == Max({0} \cup {j \in DOMAIN queue : queue[j][2] >= x[2]})
  IN SubSeq(queue, 1, k) \o <<x>> \o SubSeq(queue, k + 1, Len(queue))

(* items: <<service, urgency>>, in the order of a map. *)
buildRiskQueue(items) == FoldLeft(Inserted, <<>>, items)

(* The envelope: the safe mean utilisation, less as the solver converges slowly. *)
SafeRhoMax(rate, collapse) ==
  Clip(100 - (15 * (IF rate <= 0 THEN 100 ELSE rate) + 10 * collapse) \div 100, 40, 90)

-----------------------------------------------------------------------------
(* The comparison of several runs.  A run: the share of its services that saturated,
   whether it was stable, its recovery (-1: none) and its violation probabilities. *)

(* The slowest recovery as the first: a mutant. *)
RecoveryMin_First(runs) == LET r == {runs[i].recovery : i \in {1}} \ {-1} IN IF r = {} THEN 0 ELSE Min(r)

Recoveries(runs) == {runs[i].recovery : i \in DOMAIN runs} \ {-1}
RecoveryMin(runs) == IF Recoveries(runs) = {} THEN 0 ELSE Min(Recoveries(runs))
RecoveryMax(runs) == IF Recoveries(runs) = {} THEN 0 ELSE Max(Recoveries(runs))

LatestMultiScenario(runs) ==
  [best |-> Min({100} \cup {runs[i].saturated : i \in DOMAIN runs}),
   worst |-> Max({0} \cup {runs[i].saturated : i \in DOMAIN runs}),
   stable |-> Cardinality({i \in DOMAIN runs : runs[i].stable}),
   recoveryMin |-> RecoveryMin(runs), recoveryMax |-> RecoveryMax(runs)]

-----------------------------------------------------------------------------
(* s is as t is, only fuller: in its utilisation, or in its edge of the field. *)
AtLeastAsLoaded(s, t) ==
  /\ s.rho >= t.rho /\ s.field >= t.field /\ (s.field = -1 <=> t.field = -1)
  /\ [s EXCEPT !.rho = 0, !.field = 0] = [t EXCEPT !.rho = 0, !.field = 0]

(***************************************************************************)
(* Among services whose load is not falling, one that is fuller and else   *)
(* alike is never ranked behind, although the derivative that weighs into  *)
(* the urgency falls off towards full load; and the queue holds the        *)
(* services in descending order of urgency, each as often as it was given, *)
(* in whatever order the map gave them.                                    *)
(***************************************************************************)
RanksByRisk(Services, Paths, Urgencies) ==
  /\ \A s, t \in Services, path \in Paths, key \in BOOLEAN :
       s.trend >= 0 /\ AtLeastAsLoaded(s, t) => Urgency(s, path, key) >= Urgency(t, path, key)
  /\ \A u \in [1 .. 4 -> Urgencies] :
       LET items == [i \in 1 .. 4 |-> <<i, u[i]>>]
           queue == buildRiskQueue(items)
       IN /\ ToSet(queue) = ToSet(items) /\ Len(queue) = 4
          /\ \A i, j \in DOMAIN queue : i < j => queue[i][2] >= queue[j][2]

(***************************************************************************)
(* The answers to "when is it full" agree: the timeline of a service is at *)
(* full utilisation from the first tick at or after its predicted collapse *)
(* on, and at no tick when that lies beyond the horizon or there is none.  *)
(* A service that is full counts as unstable at once, and one in the       *)
(* collapse zone is at a risk above one half.                              *)
(***************************************************************************)
TimelinesAgree(Services) ==
  \A s \in Services :
    /\ FullAt(s) = {k \in 0 .. Horizon : PredictedCollapse(s) # -1 /\ k * TickSec >= PredictedCollapse(s)
                                         /\ (s.rho >= 100 => Projected(s, k) >= 100)}
    /\ (0 \in FullAt(s)) => IsUnstable(s)
    /\ CollapseZone(s) = "collapse" => CollapseRisk(s) > 50

(***************************************************************************)
(* The test of the payload (src/tests/master_system_test.go): the urgency  *)
(* of an item is never outside [0, 1].                                     *)
(***************************************************************************)
UrgencyInRange(Services, Paths) ==
  \A s \in Services, path \in Paths, key \in BOOLEAN : Urgency(s, path, key) \in 0 .. 100000

(***************************************************************************)
(* The comparison brackets the runs: no run lies outside the best and the  *)
(* worst case, and none that recovered did so faster than the minimum or   *)
(* slower than the maximum.                                                *)
(***************************************************************************)
ComparisonBrackets(Runs) ==
  \A r1, r2, r3 \in Runs :
    LET runs == <<r1, r2, r3>>
        c == LatestMultiScenario(runs)
    IN \A i \in 1 .. 3 :
         /\ c.best <= runs[i].saturated /\ runs[i].saturated <= c.worst
         /\ runs[i].recovery # -1 => c.recoveryMin <= runs[i].recovery /\ runs[i].recovery <= c.recoveryMax

=============================================================================
