---------------------------- MODULE ScenarioControl ---------------------------
(***************************************************************************)
(* The control requests that stage a disturbance (internal/api handlers    *)
(* chaos-run, replay-burst and simulation/control), the scenario engine    *)
(* they hand it to (internal/scenario), and the window in which they force *)
(* the simulation.  A request reads the tick number, hands over the        *)
(* disturbance and forces the simulation in separate steps; ticks and      *)
(* other requests pass in between.                                         *)
(*                                                                         *)
(* The engine is asked once a tick, the call it was written for: the tick  *)
(* of this version leaves the call out (orchestrator.go, line 525).        *)
(* Disturbances have the strength 0 (none), 1 (rising or falling) or 2     *)
(* (the factor asked for).  The default durations of 30, 20 and 10 ticks   *)
(* are all Fallback here.  A reset of the simulation is in TickPipeline.   *)
(***************************************************************************)
EXTENDS Integers

CONSTANTS Handlers,      (* requests served at a time                       *)
          Durations,     (* duration_ticks of requests; 0: left out         *)
          Fallback,      (* duration of a request that leaves it out        *)
          MaxDuration,   (* longest run: 600 ticks in the code              *)
          MaxTicks,      (* bound: ticks of a behaviour                     *)
          MaxRequests    (* bound: requests of a behaviour                  *)

Kinds == {"chaos-run", "replay-burst"}

VARIABLES
  tick,          (* TickCount                                               *)
  ScenarioMode,  (* "on" or "off"                                           *)
  overlays,      (* kind -> the disturbance scheduled, or none              *)
  forceSimulationUntil,
  req,           (* handler -> its request                                  *)
  count,         (* requests so far                                         *)
  forcedBy,      (* history: the request that last forced the simulation    *)
  applied,       (* kind -> the strength applied in the last tick           *)
  peaked         (* history: kind -> whether its run reached full strength, *)
                 (* and whether it could: handed over in time, and not cut  *)

vars == <<tick, ScenarioMode, overlays, forceSimulationUntil, req, count, forcedBy,
          applied, peaked>>

NoOverlay == [request |-> 0, start |-> 0, duration |-> 0, until |-> 0]
NoRequest == [at |-> "none", number |-> 0, kind |-> "none", duration |-> 0, start |-> 0]

Init ==
  /\ tick = 0
  /\ ScenarioMode \in {"on", "off"}
  /\ overlays = [k \in Kinds |-> NoOverlay]
  /\ forceSimulationUntil = 0
  /\ req = [h \in Handlers |-> NoRequest]
  /\ count = 0
  /\ forcedBy = 0
  /\ applied = [k \in Kinds |-> 0]
  /\ peaked = [k \in Kinds |-> [full |-> FALSE, due |-> FALSE]]

-------------------------------------------------------------------------------
(* The requests *)

boundedTicks(d, fallback) ==
  LET n == IF d = 0 THEN fallback ELSE d
  IN  IF n > MaxDuration THEN MaxDuration ELSE n

(* handleControl and handleSimulationControl, up to their first effect. *)
Receive(h, kind, d) ==
  /\ req[h] = NoRequest
  /\ count < MaxRequests
  /\ count' = count + 1
  /\ req' = [req EXCEPT ![h] = [at |-> IF kind \in Kinds THEN "read" ELSE "force", number |-> count',
                                kind |-> kind, duration |-> IF kind = "stop" THEN 0 ELSE boundedTicks(d, Fallback), start |-> 0]]
  /\ UNCHANGED <<tick, ScenarioMode, overlays, forceSimulationUntil, forcedBy, applied, peaked>>

ReadTick(h) ==
  /\ req[h].at = "read"
  /\ req' = [req EXCEPT ![h].at = "overlay", ![h].start = tick + 1]
  /\ UNCHANGED <<tick, ScenarioMode, overlays, forceSimulationUntil, count, forcedBy,
                 applied, peaked>>

(* SetMode and SetOverlay: what another request of this kind has scheduled *)
(* is replaced.                                                            *)
SetOverlay(h) ==
  /\ req[h].at = "overlay"
  /\ ScenarioMode' = "on"
  /\ overlays' = [overlays EXCEPT ![req[h].kind] =
       [request |-> req[h].number, start |-> req[h].start, duration |-> req[h].duration,
        until |-> req[h].start + req[h].duration]]
  /\ peaked' = [peaked EXCEPT ![req[h].kind] = [full |-> FALSE, due |-> req[h].start = tick + 1]]
  /\ req' = [req EXCEPT ![h].at = "force"]
  /\ UNCHANGED <<tick, forceSimulationUntil, count, forcedBy, applied>>

(* Slip: the run's own duration is taken. *)
Forced_Short(r) == r.duration

(* A disturbance has the simulation forced for one tick more. *)
Forced(r) == IF r.kind \in Kinds THEN r.duration + 1 ELSE r.duration

(* ForceSimulation counts from the tick it finds.  A stop takes it back. *)
ForceRead(h) ==
  /\ req[h].at = "force" /\ req[h].kind # "stop"
  /\ req' = [req EXCEPT ![h].at = "store", ![h].start = tick + Forced(req[h])]
  /\ UNCHANGED <<tick, ScenarioMode, overlays, forceSimulationUntil, count, forcedBy,
                 applied, peaked>>

ForceStore(h) ==
  /\ \/ req[h].at = "store"
     \/ req[h].at = "force" /\ req[h].kind = "stop"
  /\ forceSimulationUntil' = IF req[h].kind = "stop" THEN 0 ELSE req[h].start
  /\ forcedBy' = req[h].number
  /\ req' = [req EXCEPT ![h] = NoRequest]
  /\ UNCHANGED <<tick, ScenarioMode, overlays, count, applied, peaked>>

-------------------------------------------------------------------------------
(* The engine *)

(* Slip: the fall of a windowed disturbance begins with its rise's end.    *)
disturbanceEnvelope_NoPeak(c, d) ==
  LET fifth == IF d > 5 THEN d ELSE 5
  IN  IF 5 * c < fifth \/ 5 * c >= 5 * d - fifth THEN (IF c = 0 \/ c = d THEN 0 ELSE 1) ELSE 2

(* A rise over the first fifth, at least a tick, and a fall over the last; *)
(* a rise that is over leaves room for a tick at least.                    *)
disturbanceEnvelope(c, d) ==
  LET fifth == IF d > 5 THEN d ELSE 5
      peakEnd == IF 5 * d - fifth > fifth THEN 5 * d - fifth ELSE fifth
  IN  IF 5 * c < fifth THEN (IF c = 0 THEN 0 ELSE 1)
      ELSE IF 5 * c > peakEnd THEN (IF c = d THEN 0 ELSE 1) ELSE 2

(* A burst rises and falls over fractions of a tick when it is short. *)
BurstFactor(c, d) ==
  IF 5 * c < d THEN (IF c = 0 THEN 0 ELSE 1)
  ELSE IF 5 * c > 4 * d THEN (IF c = d THEN 0 ELSE 1) ELSE 2

(* Evaluate, of either scenario. *)
Evaluate(k, t) ==
  LET o == overlays[k]
      c == t - o.start
  IN  IF o = NoOverlay \/ c < 0 \/ c > o.duration THEN 0
      ELSE IF k = "chaos-run" THEN disturbanceEnvelope(c, o.duration) ELSE BurstFactor(c, o.duration)

(* ApplySuperposition of a tick.  What has expired is forgotten first. *)
ApplySuperposition ==
  /\ tick < MaxTicks
  /\ tick' = tick + 1
  /\ IF ScenarioMode = "off"
     THEN applied' = [k \in Kinds |-> 0] /\ UNCHANGED <<overlays, peaked>>
     ELSE /\ overlays' = [k \in Kinds |-> IF tick' > overlays[k].until THEN NoOverlay ELSE overlays[k]]
          /\ applied' = [k \in Kinds |-> IF overlays'[k] = NoOverlay THEN 0 ELSE Evaluate(k, tick')]
          /\ peaked' = [k \in Kinds |-> [peaked[k] EXCEPT !.full = @ \/ applied'[k] = 2]]
  /\ UNCHANGED <<ScenarioMode, forceSimulationUntil, req, count, forcedBy>>

Next ==
  \/ \E h \in Handlers :
       \/ \E kind \in Kinds \cup {"run", "stop"}, d \in Durations : Receive(h, kind, d)
       \/ ReadTick(h) \/ SetOverlay(h) \/ ForceRead(h) \/ ForceStore(h)
  \/ ApplySuperposition

Spec == Init /\ [][Next]_vars

-------------------------------------------------------------------------------
(* Properties *)

(* A disturbance that was handed over before its first tick, and was not   *)
(* replaced, has reached the factor asked for by its last tick, however    *)
(* short; only a burst of one tick never does.                             *)
Peaks ==
  \A k \in Kinds :
     overlays[k] # NoOverlay /\ peaked[k].due /\ tick = overlays[k].until =>
        peaked[k].full \/ (k = "replay-burst" /\ overlays[k].duration = 1)

(* While a tick is disturbed by the request that was the last to force the *)
(* simulation, the simulation is forced too, although ticks and requests   *)
(* pass between its steps.                                                 *)
SimulationFollows ==
  \A k \in Kinds :
     applied[k] > 0 /\ overlays[k].request = forcedBy => tick <= forceSimulationUntil
===============================================================================
