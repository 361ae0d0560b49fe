----------------------------- MODULE SandboxPlant -----------------------------
(***************************************************************************)
(* The virtual plants of the sandbox (internal/sandbox): the generator of  *)
(* a scenario (scenario_generator.go), the plants that run over its points *)
(* under different configurations (virtual_plant_support.go), and what the *)
(* comparison reads off their traces (comparison_engine.go                 *)
(* ExtractMetrics, baseline_snapshot.go).  The production caller is        *)
(* phase_runtime.go runSandbox: six points one second apart, with shocks   *)
(* at the third and the fifth.                                             *)
(*                                                                         *)
(* A plant reads the scenario front to back and nothing else, so the model *)
(* advances the plants along with the generator.  Rates and backlogs are   *)
(* integers, Unit to the request; factors are in hundredths.  A random draw is a choice; tanh,  *)
(* exp and log are replaced by monotone integer functions with the same    *)
(* bounds, which is all that the properties need.                          *)
(***************************************************************************)
EXTENDS Integers, Sequences, FiniteSets, FiniteSetsExt

CONSTANTS Unit,               (* what stands for one request                   *)
          Steps,              (* Duration over Step                            *)
          BaseArrival, BaseService,
          ShockTimes, ShockMag,
          SaturationCap, CapacityDrop,
          RetryGain, RetryClocks,
          BurstSizes, Noises,
          RateLimit, BreakerThresh,
          FanoutBase, FanoutLoad,
          Configs,            (* the configurations compared: [scale, retry, cache] *)
          LatencyLimit        (* 1500 ms in the code                           *)

VARIABLES t,
          gBacklog, serviceState, gCollapsed, burst, retryClock, prevNoise,
          plant,    (* of each configuration: backlog, latency, and its last point *)
          metrics,  (* the accumulators of ExtractMetrics                      *)
          flags     (* history: whether each point was collapsed               *)

gvars == <<gBacklog, serviceState, gCollapsed, burst, retryClock, prevNoise>>
vars == <<t, gvars, plant, metrics, flags>>

AtLeast(x, y) == IF x < y THEN y ELSE x
AtMost(x, y) == IF x > y THEN y ELSE x

(* In place of tanh(x / c), in hundredths. *)
Tanh(x, c) == (100 * x) \div (x + c)

Root(n) == CHOOSE r \in 0 .. n : r * r <= n /\ n < (r + 1) * (r + 1)

Init ==
  /\ t = 0
  /\ gBacklog = 0 /\ serviceState = BaseService /\ gCollapsed = FALSE
  /\ burst = FALSE /\ retryClock = 0 /\ prevNoise = 0
  /\ plant = [c \in Configs |-> [backlog |-> 0, latency |-> 25, throughput |-> 0,
                                 service |-> 0, collapsed |-> FALSE]]
  /\ metrics = [c \in Configs |-> [failures |-> 0, recovery |-> 0, inCollapse |-> FALSE, start |-> 0,
                                   collapseCount |-> 0, severity |-> 0]]
  /\ flags = [c \in Configs |-> <<>>]

-----------------------------------------------------------------------------
(* The generator. *)

(* ScenarioSpike: a shock decays with RelaxTau, here by halves. *)
baseArrival ==
  BaseArrival + MapThenSumSet(LAMBDA s : ShockMag \div (2 ^ (t - s)), {s \in ShockTimes : s <= t})

(* The capacity sinks with the pressure, and a collapse is never undone. *)
serviceDynamics(collapsed) ==
  LET pressed == (BaseService * (100 - (CapacityDrop * Tanh(gBacklog, SaturationCap)) \div 100)) \div 100
      target == IF collapsed THEN (15 * pressed) \div 100 ELSE pressed
  IN AtLeast((95 * serviceState + 5 * target) \div 100, BaseService \div 20)

(* What the retries add when their clock has run out. *)
retryProcess(b) == (RetryGain * Tanh(b, SaturationCap) * Tanh(b, SaturationCap)) \div 10000

clusteredBurst(on, heavy, raw, b) ==
  IF on /\ heavy THEN (raw * (100 + Tanh(b, SaturationCap))) \div 100 ELSE 0

admissionControl(arrival, shed, b) ==
  LET limited == IF arrival > RateLimit /\ shed THEN (6 * arrival) \div 10 ELSE arrival
  IN IF b > BreakerThresh THEN (3 * limited) \div 10 ELSE limited

correlatedNoise(z) == (6 * prevNoise) \div 10 + z

fanoutFactor(b) == FanoutBase + (FanoutLoad * Tanh(b, SaturationCap)) \div 100

-----------------------------------------------------------------------------
(* A plant. *)

(* The two plants of RunPhase1Comparison: as it is, and as the engine would have it. *)
Phase1Configs == {[scale |-> 100, retry |-> 0, cache |-> 0], [scale |-> 120, retry |-> -30, cache |-> 40]}

(* The service of an inverted scale: a mutant. *)
Service_Inverted(c) == AtLeast((BaseService * 100) \div c.scale, 1)

Service(c) == AtLeast((BaseService * (IF c.scale <= 0 THEN 100 ELSE c.scale)) \div 100, 1)

(* What a plant makes of one point of the scenario. *)
RunVirtualPlant(p, c, load, fanout) ==
  LET offered == AtLeast((load * AtLeast(fanout, 10)) \div 100, 0)
      arrival == (offered * (10000 + 15 * c.retry) * AtLeast(100 - c.cache \div 10, 60)) \div 1000000
      penalty == 100 + (15 * Tanh(p.backlog, Service(c) + 1)) \div 100
      service == (Service(c) * (1000 + c.cache)) \div (10 * penalty)
      throughput == AtMost(arrival, service)
      backlog == AtLeast(p.backlog + (arrival - throughput), 0)
      latency == (8 * p.latency + 2 * (20 + (40 * arrival) \div service + Root((225 * (backlog + Unit)) \div Unit))) \div 10
  IN [backlog |-> backlog, latency |-> latency, throughput |-> throughput, service |-> service,
      collapsed |-> backlog > 5 * service \/ latency > LatencyLimit]

(* ExtractMetrics without the end of a collapse: a mutant. *)
ExtractMetrics_Restarts(m, p) ==
  IF p.collapsed THEN [m EXCEPT !.failures = @ + 1, !.inCollapse = TRUE, !.start = t]
  ELSE IF m.inCollapse THEN [m EXCEPT !.recovery = @ + t - m.start, !.inCollapse = FALSE]
  ELSE m

(* The loop of ExtractMetrics at one point: a failure when a collapse begins, its
   length when it ends. *)
ExtractMetrics(m, p) ==
  IF p.collapsed /\ ~m.inCollapse
  THEN [m EXCEPT !.failures = @ + 1, !.inCollapse = TRUE, !.start = t]
  ELSE IF ~p.collapsed /\ m.inCollapse
  THEN [m EXCEPT !.recovery = @ + t - m.start, !.inCollapse = FALSE]
  ELSE m

(* The loop of BuildBaselineSnapshot at one point: the severity of a collapsed point is
   its lost service, weighed by the latency and the backlog. *)
BuildBaselineSnapshot(m, p) ==
  IF ~p.collapsed THEN m
  ELSE [m EXCEPT !.collapseCount = @ + 1,
                 !.severity = @ + (p.latency * Root(1 + p.backlog \div Unit) * (100 - (100 * p.throughput) \div p.service)) \div 100]

(* One point: GenerateScenario's loop, and the loops over the trace it makes. *)
Point ==
  /\ t < Steps
  /\ \E collapses \in IF ~gCollapsed /\ gBacklog > 0 THEN BOOLEAN ELSE {FALSE},
        on \in BOOLEAN, heavy, shed \in BOOLEAN,
        raw \in BurstSizes, z \in Noises, clock \in RetryClocks :
       LET collapsed == gCollapsed \/ collapses
           service == serviceDynamics(collapsed)
           b == AtLeast(gBacklog + baseArrival - service, 0)
           retries == retryClock - 1 <= 0
           noise == correlatedNoise(z)
           sum == baseArrival + (IF retries THEN retryProcess(b) ELSE 0) + clusteredBurst(on, heavy, raw, b) + noise
           load == AtLeast(admissionControl(sum, shed, b), 0)
           points == [c \in Configs |-> RunVirtualPlant(plant[c], c, load, fanoutFactor(b))]
       IN /\ gBacklog' = b /\ serviceState' = service /\ gCollapsed' = collapsed
          /\ burst' = on /\ prevNoise' = noise
          /\ retryClock' = IF retries THEN clock ELSE retryClock - 1
          /\ plant' = points
          /\ metrics' = [c \in Configs |-> BuildBaselineSnapshot(ExtractMetrics(metrics[c], points[c]), points[c])]
          /\ flags' = [c \in Configs |-> Append(flags[c], points[c].collapsed)]
          /\ t' = t + 1

Done == t = Steps /\ UNCHANGED vars

Next == Point \/ Done

Spec == Init /\ [][Next]_vars

-----------------------------------------------------------------------------
Better(c, d) == c.scale >= d.scale /\ c.retry <= d.retry /\ c.cache >= d.cache

(***************************************************************************)
(* Over the same scenario a configuration with no less capacity, no more   *)
(* retries and no less cache relief is never behind: at every point its    *)
(* backlog and its latency are no larger, and it is collapsed only where   *)
(* the other is.  The comparison of the sandbox would otherwise blame a    *)
(* configuration for what the plant does to it.                            *)
(***************************************************************************)
BetterNeverBehind ==
  \A c, d \in Configs : Better(c, d) =>
    /\ plant[c].backlog <= plant[d].backlog
    /\ plant[c].latency <= plant[d].latency
    /\ plant[c].collapsed => plant[d].collapsed

Starts(f) == {i \in DOMAIN f : f[i] /\ (i = 1 \/ ~f[i - 1])}
Ended(f) == {i \in Starts(f) : \E j \in i .. Len(f) : ~f[j]}

(***************************************************************************)
(* What ExtractMetrics counts as failures are the stretches of collapsed   *)
(* points, and its recovery time is the length of those that ended.        *)
(***************************************************************************)
MetricsExact ==
  \A c \in Configs :
    /\ metrics[c].failures = Cardinality(Starts(flags[c]))
    /\ metrics[c].recovery =
         MapThenSumSet(LAMBDA i : Min({j \in i .. Len(flags[c]) : ~flags[c][j]}) - i, Ended(flags[c]))

(***************************************************************************)
(* "nonlinear collapse severity penalty" (baseline_snapshot.go): a plant   *)
(* that collapsed has a severity.                                          *)
(***************************************************************************)
CollapseCounts == t = Steps => \A c \in Configs : metrics[c].collapseCount > 0 => metrics[c].severity > 0

=============================================================================
