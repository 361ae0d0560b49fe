------------------------------ MODULE CoupledQueues ---------------------------
(***************************************************************************)
(* The coupling of the services' queues (internal/modelling/network.go):   *)
(* the pressure that callers put on a service, propagated hop by hop, what *)
(* is concluded from it about a service and about the network, and the     *)
(* utilisations the services settle at together, found by a solver that    *)
(* runs over the services in the order of a map, another in each pass, and *)
(* uses each new value at once.                                            *)
(*                                                                         *)
(* Pressures are in millionths, utilisations and coupled rates in          *)
(* thousandths, edge weights in tenths; divisions round down.              *)
(***************************************************************************)
EXTENDS Integers, FiniteSets, FiniteSetsExt

CONSTANTS Ids,
          Rates,       (* request rates                                     *)
          Capacities,  (* service rates mu; 0: a window that gives none     *)
          Weights,     (* edge weights                                      *)
          Samples,     (* SampleCount of the windows                        *)
          maxIter,     (* passes of the solver; 50 in the code              *)
          Tolerance    (* what rounding leaves of a residual                *)

VARIABLES
  lambda,    (* service -> MeanRequestRate                                  *)
  capacity,  (* service -> what its window gives                            *)
  weight,    (* edge -> its weight; 0: no edge                              *)
  mu, rho,   (* of the solver                                               *)
  todo,      (* services left in this pass                                  *)
  moved,     (* maxDelta > epsilon                                          *)
  pass,
  done

vars == <<lambda, capacity, weight, mu, rho, todo, moved, pass, done>>

Pairs == {e \in Ids \X Ids : e[1] # e[2]}
AtMost(x, bound) == IF x < bound THEN x ELSE bound

(* The solver starts at each service's own utilisation. *)
Init ==
  /\ lambda \in [Ids -> Rates]
  /\ capacity \in [Ids -> Capacities]
  /\ weight \in [Pairs -> Weights \cup {0}]
  /\ mu = [i \in Ids |-> IF capacity[i] = 0 THEN 1 ELSE capacity[i]]
  /\ rho = [i \in Ids |-> IF capacity[i] = 0 \/ lambda[i] = 0 THEN 0
                          ELSE AtMost((1000 * lambda[i]) \div capacity[i], 1500)]
  /\ todo = {}
  /\ moved = TRUE
  /\ pass = 0
  /\ done = FALSE

-------------------------------------------------------------------------------
(* The pressure *)

Callers(i) == {s \in Ids : <<s, i>> \in Pairs /\ weight[<<s, i>>] > 0}
OwnPressure == [i \in Ids |-> (1000000 * lambda[i]) \div Max({1} \cup {lambda[j] : j \in Ids})]

(* Slip: what is injected takes the place of what there was. *)
Damped_Replaces(p, injected) == AtMost((2 * p) \div 5 + (3 * injected) \div 5, 2000000)

Damped(p, injected) == AtMost(p + (3 * injected) \div 5, 2000000)

(* ComputeNetworkCoupling, its iterations: each uses the pressures of the  *)
(* last, as many as there are services.                                    *)
EffectivePressure ==
  LET Injected(p, i) == MapThenSumSet(LAMBDA s : (p[s] * weight[<<s, i>>]) \div 40, Callers(i))
      after[n \in 0 .. Cardinality(Ids)] ==
        IF n = 0 THEN OwnPressure
        ELSE [i \in Ids |-> IF Callers(i) = {} THEN after[n - 1][i]
                            ELSE Damped(after[n - 1][i], Injected(after[n - 1], i))]
  IN  after[Cardinality(Ids)]

-------------------------------------------------------------------------------
(* What the pressure says of a service *)

localUtil(i) ==
  IF capacity[i] = 0 \/ lambda[i] = 0 THEN 0 ELSE AtMost((1000 * lambda[i]) \div capacity[i], 2000)

(* Slip: the requests a service sends, not those it is sent. *)
CoupledArrivalRate_Outbound(i) ==
  AtMost(1000 * lambda[i] + MapThenSumSet(LAMBDA s : 15 * weight[<<i, s>>] * lambda[s], Ids \ {i}),
         2500 * lambda[i])

CoupledArrivalRate(i) ==
  AtMost(1000 * lambda[i] + MapThenSumSet(LAMBDA s : 15 * weight[<<s, i>>] * lambda[s], Callers(i)),
         2500 * lambda[i])

(* The share of the callers beyond 0.85, in thousandths. *)
PathSaturationRisk(ep, i) ==
  IF Callers(i) = {} THEN 0
  ELSE (1000 * Cardinality({s \in Callers(i) : ep[s] > 850000})) \div Cardinality(Callers(i))

PathEquilibriumRho(p) == LET e == p \div 1000 IN AtMost(e + (e * e) \div 5000, 2000)

(* The mean weight of the calls it makes times its utilisation. *)
CongestionFeedbackScore(i) ==
  LET called == {t \in Ids \ {i} : weight[<<i, t>>] > 0}
      sum == MapThenSumSet(LAMBDA t : weight[<<i, t>>], called)
  IN  IF called = {} THEN 0
      ELSE AtMost((localUtil(i) * sum) \div (10 * Cardinality(called)), 1000)

(* Seconds until the equilibrium passes 1; 0 if it has, -1 if it will not. *)
PathSaturationHorizonSec(ep, i) ==
  LET eq == PathEquilibriumRho(ep[i])
  IN  CASE eq >= 1000 -> 0
        [] eq < 1000 /\ localUtil(i) \in 1 .. 999 /\ eq > localUtil(i) ->
             ((1000 - eq) * Samples) \div (eq - localUtil(i))
        [] OTHER -> -1

-------------------------------------------------------------------------------
(* What it says of the network: ComputeNetworkEquilibrium *)

sumW == MapThenSumSet(LAMBDA i : lambda[i], Ids)

SystemRhoMean ==
  IF sumW = 0 THEN 0 ELSE MapThenSumSet(LAMBDA i : lambda[i] * localUtil(i), Ids) \div sumW

(* Idle services are summed with a weight of 1, and none in the divisor. *)
SystemEquilibriumMean(ep) ==
  IF sumW = 0 THEN 0
  ELSE MapThenSumSet(LAMBDA i : PathEquilibriumRho(ep[i]) * Max({1, lambda[i]}), Ids) \div sumW

IsConverging(ep) == SystemEquilibriumMean(ep) < SystemRhoMean

(* The first of the largest in the order of a map, or none when all are 0. *)
CriticalServices(ep) ==
  {i \in Ids : PathEquilibriumRho(ep[i]) > 0 /\
                \A j \in Ids : PathEquilibriumRho(ep[j]) <= PathEquilibriumRho(ep[i])}

-------------------------------------------------------------------------------
(* The solver *)

(* The utilisation of a service under what its callers pass on. *)
Target(i) ==
  LET inject == MapThenSumSet(LAMBDA s : weight[<<s, i>>] * lambda[s] * AtMost(rho[s], 1000), Callers(i))
  IN  AtMost((1000 * lambda[i] + inject \div 100) \div mu[i], 1500)

BeginPass ==
  /\ ~done /\ todo = {}
  /\ IF pass = maxIter \/ ~moved
     THEN done' = TRUE /\ UNCHANGED <<todo, moved, pass>>
     ELSE /\ pass' = pass + 1
          /\ todo' = Ids
          /\ moved' = FALSE
          /\ UNCHANGED done
  /\ UNCHANGED <<lambda, capacity, weight, mu, rho>>

(* Slip: the relaxation goes beyond the new value. *)
Relaxed_Over(old, new) == (19 * new - 9 * old) \div 10

Relaxed(old, new) == (9 * old + 11 * new) \div 20

UpdateRho(i) ==
  /\ i \in todo
  /\ todo' = todo \ {i}
  /\ rho' = [rho EXCEPT ![i] = Relaxed(rho[i], Target(i))]
  /\ moved' = (moved \/ rho'[i] # rho[i])
  /\ UNCHANGED <<lambda, capacity, weight, mu, pass, done>>

Next == BeginPass \/ \E i \in Ids : UpdateRho(i)

Spec == Init /\ [][Next]_vars

-------------------------------------------------------------------------------
(* Properties *)

(* The solver comes from below: no utilisation it has in between exceeds   *)
(* what the equations give for the others.  When it ends, in whatever      *)
(* order it took the services in each pass, it has ended because nothing   *)
(* moves, before the passes ran out, and the equations hold.               *)
Settled ==
  /\ \A i \in Ids : rho[i] <= Target(i)
  /\ done => /\ ~moved
             /\ \A i \in Ids : Target(i) - rho[i] <= Tolerance

Reaches(i) ==
  LET r[n \in 0 .. Cardinality(Ids)] ==
        IF n = 0 THEN {i} ELSE r[n - 1] \cup {t \in Ids : Callers(t) \cap r[n - 1] # {}}
  IN  r[Cardinality(Ids)]

(* Pressure only comes from load, and load presses on everything it        *)
(* reaches: a service is under pressure exactly when it or one that        *)
(* reaches it by calls has requests, and never under less than its own.    *)
PressureReaches ==
  pass = 0 =>
    \A i \in Ids :
      /\ EffectivePressure[i] >= OwnPressure[i]
      /\ EffectivePressure[i] > 0 <=> \E s \in Ids : lambda[s] > 0 /\ i \in Reaches(s)

(* What is concluded from the pressure fits the graph it came over.  The   *)
(* coupled rate of a service with requests of its own is above its rate    *)
(* exactly when a caller has some.  All callers are beyond 0.85 only if    *)
(* load reaches every one of them.  A service that calls nobody feeds      *)
(* nothing back.  When no service is idle the equilibrium of the network   *)
(* is between the least and the largest of its services, and no service    *)
(* that is critical is under less pressure than another, but for the cap.  *)
CouplingFits ==
  pass = 0 =>
    LET ep == EffectivePressure
        eqs == {PathEquilibriumRho(ep[i]) : i \in Ids}
        busy == {i \in Ids : lambda[i] > 0}
    IN  /\ \A i \in busy :
             CoupledArrivalRate(i) > 1000 * lambda[i] <=> Callers(i) \cap busy # {}
        /\ \A i \in Ids :
             /\ PathSaturationRisk(ep, i) = 1000 =>
                  \A c \in Callers(i) : \E s \in busy : c \in Reaches(s)
             /\ CongestionFeedbackScore(i) > 0 => i \in busy /\ \E t \in Ids : i \in Callers(t)
        /\ busy = Ids => SystemEquilibriumMean(ep) \in Min(eqs) .. Max(eqs)
        /\ \A i \in CriticalServices(ep), j \in Ids :
             ep[j] <= ep[i] \/ PathEquilibriumRho(ep[i]) = 2000
             \/ PathEquilibriumRho(ep[j]) = PathEquilibriumRho(ep[i])

(* A horizon of 0 "means already saturated": a service that nobody calls   *)
(* has it only if its own load is beyond its capacity.                     *)
SaturatedMeansLoaded ==
  pass = 0 =>
    \A i \in Ids : Callers(i) = {} /\ PathSaturationHorizonSec(EffectivePressure, i) = 0
                     => localUtil(i) >= 1000

(* SystemEquilibriumMean is the "arrival-rate-weighted mean of             *)
(* PathEquilibriumRho": never beyond the largest.                          *)
EquilibriumIsMean ==
  pass = 0 =>
    LET ep == EffectivePressure
    IN  SystemEquilibriumMean(ep) <= Max({PathEquilibriumRho(ep[i]) : i \in Ids})

(* A network that is said to converge has a service whose load is beyond   *)
(* its equilibrium.                                                        *)
ConvergingMeansRelief ==
  pass = 0 =>
    LET ep == EffectivePressure
    IN  IsConverging(ep) => \E i \in Ids : localUtil(i) > PathEquilibriumRho(ep[i])
===============================================================================
