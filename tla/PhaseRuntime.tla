----------------------------- MODULE PhaseRuntime -----------------------------
(***************************************************************************)
(* Stage 5 of a tick: the phase runtime (internal/runtime/phase_runtime.go)*)
(* asks policy, autopilot, intelligence and sandbox for advice and has one *)
(* Authority per service (internal/control/authority.go) turn it into a    *)
(* scale directive, while operators force sandbox runs for some ticks      *)
(* (internal/runtime/control.go).                                          *)
(*                                                                         *)
(* Scales are in hundredths.  The autopilot's replica count, the load, the *)
(* class of the fused risk and the verdict of a sandbox run are inputs;    *)
(* costs decide among the candidates by simulation and by a random number, *)
(* so any candidate may win.                                               *)
(***************************************************************************)
EXTENDS Policy, FiniteSets

CONSTANTS Services,
          ReplicaCounts,  (* replica counts the autopilot reports           *)
          Loads,          (* ceil(arrival rate / service rate)              *)
          SandboxEvery,   (* a sandbox run is due every so many ticks: 10   *)
          Warm,           (* the tick number the first tick jumps to: 10    *)
          Durations       (* ticks for which operators force the sandbox    *)

RiskClasses == 0 .. 2   (* risk up to 0.5, up to 0.75, and above            *)

ASSUME ReplicaAssumption ==
  \A r \in ReplicaCounts : r \in Nat \ {0} /\ r * (100 \div r) = 100
ASSUME LoadAssumption == Loads \subseteq Nat \ {0}
ASSUME TickAssumption == SandboxEvery \in Nat \ {0} /\ Warm \in Nat \ {0} /\ Durations \subseteq Nat \ {0}

VARIABLES
  svc,        (* the map services: present services to their authority      *)
  pc,         (* "idle" between two ticks, "apply" inside the loop          *)
  todo,       (* services of this tick's bundles not decided yet            *)
  seen,       (* services of this tick's bundles: the map active            *)
  started,    (* the first tick is over                                     *)
  phase,      (* tickCount % SandboxEvery                                   *)
  window,     (* forceSandboxUntil - tickCount; -1 for a window that is over*)
  down,       (* history: ticks since the last directive below 0.95, up to 3*)
  hot,        (* history: services whose last decision was in class 2       *)
  due         (* history: a window of two ticks or more was asked for, and  *)
              (* no decision and no tick without services has seen it yet   *)

vars == <<svc, pc, todo, seen, started, phase, window, down, hot, due>>

Cooldown == 3          (* ticks                                             *)
MaxDown  == 15         (* asymmetric rate limit per decision                *)
MaxUp    == 200
MinScale == 45
MaxScale == 1000

NoAdvice == "none"

(* ensureService: a new authority has no directive, no direction and no    *)
(* sandbox result.                                                         *)
NewService == [scale |-> 0, dir |-> "hold", age |-> 0, sandbox |-> NoAdvice]

Init ==
  /\ svc = [s \in {} |-> NewService]
  /\ pc = "idle"
  /\ todo = {}
  /\ seen = {}
  /\ started = FALSE
  /\ phase = 0
  /\ window = -1
  /\ down = [s \in Services |-> Cooldown]
  /\ hot = {}
  /\ due = FALSE

-------------------------------------------------------------------------------
(* Authority.Decide *)

ClampTo(x, lo, hi) == IF x < lo THEN lo ELSE IF x > hi THEN hi ELSE x

(* Slip: the floor of the highest class is missing.                        *)
MinBound_NoFloor(rep, class) == 1

(* deriveBounds.  State, policy and autopilot all say at least 1; the      *)
(* class above 0.75 does not go below the count of today, and inverted     *)
(* bounds open upwards.                                                    *)
MinBound(rep, class) == IF class = 2 THEN rep ELSE 1

MaxBound(rep, cur, class) == Larger(MaxReplicas(cur), MinBound(rep, class))

(* The search radius of the class: one more under a warning, and as far as *)
(* rep when the service idles.                                             *)
Radii(rep, class) ==
  LET radius == CASE class = 0 -> 3 [] class = 1 -> 6 [] OTHER -> 10
  IN  {Larger(radius + warn, reach) : warn \in 0 .. 1, reach \in 0 .. rep}

(* GenerateBundles: the replica counts around rep.  Its upper bound is     *)
(* never below rep + radius + 1, so the bound derived above does not bind. *)
LocalReplicas(rep, class) ==
  UNION {{r \in (rep - radius) .. (rep + radius) : r >= MinBound(rep, class)} :
           radius \in Radii(rep, class)}

(* advisoryCandidates: what policy, sandbox and optimiser propose, cut to  *)
(* the bounds.                                                             *)
AdvisoryReplicas(rep, class) ==
  UNION {MinBound(rep, class) .. MaxBound(rep, cur, class) : cur \in Loads}

(* What SelectBestBundle may return. *)
Choices(rep, class) == LocalReplicas(rep, class) \cup AdvisoryReplicas(rep, class)

Direction(scale) ==
  IF scale > 105 THEN "up" ELSE IF scale < 95 THEN "down" ELSE "hold"

Tick3(n) == Smaller(n + 1, Cooldown)

(* Slip: the cooldown as it was before, which no two ticks can be within.  *)
Reversal_Never(a, dir) == dir # "hold" /\ a.dir # "hold" /\ dir # a.dir /\ Tick3(a.age) < 1

(* A reversal within the cooldown. *)
Reversal(a, dir) == dir # "hold" /\ a.dir # "hold" /\ dir # a.dir /\ Tick3(a.age) < Cooldown

(* The scale the trajectory asks for: 1.0 during the cooldown; and not     *)
(* less than the last directive while the backlog is above its average.    *)
Raw(a, wish, rising) ==
  LET held == IF Reversal(a, Direction(wish)) THEN 100 ELSE wish
  IN  IF rising /\ held < a.scale THEN a.scale ELSE held

(* Slip: the rate is limited against 1.0 instead of the last directive.    *)
EnforceScaleRate_Baseline(a, raw) ==
  IF a.scale = 0 THEN raw ELSE ClampTo(raw, 100 - MaxDown, 100 + MaxUp)

(* enforceScaleRate, which lets the first directive through. *)
EnforceScaleRate(a, raw) ==
  IF a.scale = 0 THEN raw ELSE ClampTo(raw, a.scale - MaxDown, a.scale + MaxUp)

Directive(a, wish, rising) ==
  ClampTo(EnforceScaleRate(a, Raw(a, wish, rising)), MinScale, MaxScale)

(* The direction and its tick are kept unless the decision holds. *)
Decided(a, wish, rising, sandbox) ==
  LET dir == Direction(wish)
      moves == dir # "hold" /\ ~Reversal(a, dir)
  IN  [scale   |-> Directive(a, wish, rising),
       dir     |-> IF moves THEN dir ELSE a.dir,
       age     |-> IF moves THEN 0 ELSE Tick3(a.age),
       sandbox |-> sandbox]

-------------------------------------------------------------------------------
(* phaseRuntime.apply *)

TickBegin ==
  /\ pc = "idle"
  /\ pc' = "apply"
  /\ \E bundles \in SUBSET Services : todo' = bundles /\ seen' = bundles
  /\ phase' = (phase + (IF started THEN 1 ELSE Warm)) % SandboxEvery
  /\ window' = Larger(window - (IF started THEN 1 ELSE Warm), -1)
  /\ UNCHANGED <<svc, started, down, hot, due>>

sandboxForced == window >= 0

Authority(s) == IF s \in DOMAIN svc THEN svc[s] ELSE NewService

(* The sandbox result a decision works with: that of a run of this tick,   *)
(* and otherwise, or when the run fails, the last one, however old.        *)
SandboxResults(a) ==
  (IF sandboxForced \/ phase = 0 THEN {"riskUp", "calm"} ELSE {})
    \cup {a.sandbox}

(* What the authority is handed: the count the autopilot asks for, and the *)
(* class of the larger of collapse risk and objective.                     *)
Inputs(rep) == [rep : {rep}, class : RiskClasses]

(* RecommendPolicy, asked about the service as it is: whether its risk is  *)
(* above the threshold, which depends on pressures and trends.             *)
Recommendations == {"riskUp", "calm"}

(* mergeSandboxAdvice: either verdict of rising risk is one. *)
mergeSandboxAdvice(phase2, sandbox) == IF phase2 = "riskUp" THEN phase2 ELSE sandbox

(* aggregateAdvisoryRisk: a sandbox verdict of rising risk lifts the risk  *)
(* to 0.65.                                                                *)
FusedClass(class, advice) == IF advice = "riskUp" THEN Larger(class, 1) ELSE class

(* One turn of the loop over the bundles. *)
Decide(s) ==
  /\ pc = "apply"
  /\ s \in todo
  /\ todo' = todo \ {s}
  /\ \E sandbox \in SandboxResults(Authority(s)), rep \in ReplicaCounts :
     \E class \in {FusedClass(in.class, mergeSandboxAdvice(phase2, sandbox)) :
                      in \in Inputs(rep), phase2 \in Recommendations} :
       /\ hot' = IF class = 2 THEN hot \cup {s} ELSE hot \ {s}
       /\ \E best \in Choices(rep, class), rising \in BOOLEAN :
            svc' = [t \in DOMAIN svc \cup {s} |->
                      IF t = s THEN Decided(Authority(s), best * (100 \div rep), rising, sandbox)
                               ELSE svc[t]]
  /\ down' = [down EXCEPT ![s] = IF svc'[s].scale < 95 THEN 0 ELSE Tick3(down[s])]
  /\ due' = (due /\ ~sandboxForced)
  /\ UNCHANGED <<pc, seen, started, phase, window>>

(* The state of services without a bundle is deleted.                      *)
TickEnd ==
  /\ pc = "apply"
  /\ todo = {}
  /\ pc' = "idle"
  /\ started' = TRUE
  /\ svc' = [s \in seen |-> svc[s]]
  /\ down' = [s \in Services |-> IF s \in seen THEN down[s] ELSE Cooldown]
  /\ hot' = hot \cap seen
  /\ due' = (due /\ ~(seen = {} /\ sandboxForced))
  /\ UNCHANGED <<todo, seen, phase, window>>

-------------------------------------------------------------------------------
(* ForceSandbox *)

(* The public tick number, which untilTick starts from, is the number of   *)
(* the last tick that is over.                                             *)
Lag == IF pc = "idle" THEN 0 ELSE IF started THEN 1 ELSE Warm

(* Slip: the current tick is counted as the first of the window.           *)
ForceSandbox_Inclusive(n) ==
  /\ window' = Larger(n - 1 - Lag, -1)
  /\ due' = (started /\ n > 1)
  /\ UNCHANGED <<svc, pc, todo, seen, started, phase, down, hot>>

ForceSandbox(n) ==
  /\ window' = Larger(n - Lag, -1)
  /\ due' = (started /\ n > 1)
  /\ UNCHANGED <<svc, pc, todo, seen, started, phase, down, hot>>

Next ==
  \/ TickBegin
  \/ \E s \in Services : Decide(s)
  \/ TickEnd
  \/ \E n \in Durations : ForceSandbox(n)

Spec == Init /\ [][Next]_vars

-------------------------------------------------------------------------------
(* Properties *)

Scales == 0 .. MaxScale
Records == [scale : Scales, dir : {"up", "down", "hold"}, age : 0 .. Cooldown,
            sandbox : {NoAdvice, "riskUp", "calm"}]

(* Type correctness. *)
TypeOK ==
  /\ DOMAIN svc \subseteq Services
  /\ \A s \in DOMAIN svc : svc[s] \in Records
  /\ pc \in {"idle", "apply"}
  /\ todo \subseteq seen /\ seen \subseteq Services
  /\ started \in BOOLEAN
  /\ phase \in 0 .. SandboxEvery - 1
  /\ window \in Int /\ window >= -1
  /\ down \in [Services -> 0 .. Cooldown]
  /\ hot \subseteq DOMAIN svc
  /\ due \in BOOLEAN

(* Successive directives of a service that stays in the map differ by at   *)
(* most 0.15 downwards and 2.0 upwards (authority.go: "fast up (2.0x),     *)
(* slow down (0.15x)", against the previous directive), whatever the       *)
(* cooldown and the backlog guard have done to the wish in between.        *)
RateLimited ==
  [][\A s \in DOMAIN svc \cap DOMAIN svc' :
       svc[s].scale > 0 => svc'[s].scale - svc[s].scale \in -MaxDown .. MaxUp]_vars

(* No directive above 1.05 follows one below 0.95 within three ticks: the  *)
(* cooldown "prevents the authority from oscillating between scale_up and  *)
(* scale_down", although it looks at wishes and the directives are what    *)
(* guard and rate limit make of them.                                      *)
NoQuickReversal ==
  \A s \in DOMAIN svc : svc[s].scale > 105 => down[s] = Cooldown

(* A decision under a risk above 0.75 never shrinks the service, from      *)
(* whatever directive it starts.                                           *)
RiskHoldsCapacity ==
  \A s \in hot : svc[s].scale >= 100

(* A window of two ticks or more, asked for at any moment after the first  *)
(* tick, is seen by a decision before it is over.                          *)
ForceTakesHold == due => window >= (IF pc = "idle" THEN 1 ELSE 0)
===============================================================================
