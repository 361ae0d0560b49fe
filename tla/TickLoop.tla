------------------------------- MODULE TickLoop -------------------------------
(***************************************************************************)
(* The tick loop of the orchestrator (internal/runtime/orchestrator.go and *)
(* control.go): goroutines that call Run, HTTP handlers that call StepOnce *)
(* for a manual tick, the gate inFlightTicks between them, the one-shot    *)
(* timer of Run, and operators who enable, freeze or toggle the actuation  *)
(* (internal/api/server.go) while ticks read the flag.                     *)
(*                                                                         *)
(* Of the tick itself only what the other goroutines can see is kept here: *)
(* the counters, the read of actuationEnabled and the Dispatch.  Cadence   *)
(* models what a tick does to the orchestrator's own state.                *)
(***************************************************************************)
EXTENDS Naturals, FiniteSets

CONSTANTS Runners,      (* goroutines that call Run                         *)
          Steppers,     (* requests of POST /api/v1/runtime/step            *)
          Operators,    (* requests of POST /api/v1/control/toggle          *)
          Requests,     (* the bodies they send: "toggle" is the empty one  *)
          Warm,         (* the tick number the first tick jumps to: 10      *)
          Wrap          (* bound: the counters, uint64 in the code, wrap at Wrap *)

ASSUME ActorsAssumption == Runners \cap Steppers = {}
ASSUME RequestsAssumption == Requests \subseteq {"toggle", "enable", "disable"}
ASSUME WrapAssumption == Wrap \in Nat /\ Wrap > 1 /\ Warm \in 1 .. Wrap - 1

VARIABLES
  running,        (* the single-start flag                                  *)
  cancelled,      (* ctx is done                                            *)
  timer,          (* timer[r]: Run's one-shot timer: armed, fired, stopped  *)
  inFlight,       (* inFlightTicks                                          *)
  pc,             (* pc[a]: where a stands in Run or StepOnce               *)
  tickCount,      (* the tick counter, owned by whoever ticks               *)
  publicTick,     (* publicTickCount, read by everybody                     *)
  processed,      (* processedTicks                                         *)
  report,         (* report[s]: the tick number StepOnce returned to s      *)
  actuation,      (* actuationEnabled                                       *)
  opc,            (* opc[o]: where o stands in the handler                  *)
  want,           (* want[o]: the body of o's request                       *)
  seen,           (* seen[o]: the flag as ToggleActuation loaded it         *)
  begun,          (* history: the ticks begun, counted like processed       *)
  ticked,         (* history: ticked[a] is the number of a's last tick      *)
  collided,       (* history: Run has found the gate taken                  *)
  parity,         (* history: what the answered requests make of the flag:  *)
                  (* TRUE when it should be off                             *)
  frozen,         (* history: a freeze was acknowledged, and nobody asked   *)
                  (* to lift it since                                       *)
  quiet           (* history: it held when the current tick began, too      *)

loopVars    == <<running, cancelled, timer, inFlight, pc>>
countVars   == <<tickCount, publicTick, processed, report, begun, ticked>>
controlVars == <<actuation, opc, want, seen, parity, frozen>>
vars == <<loopVars, countVars, controlVars, collided, quiet>>

Actors == Runners \cup Steppers

Init ==
  /\ running = FALSE
  /\ cancelled = FALSE
  /\ timer = [r \in Runners |-> "stopped"]
  /\ inFlight = FALSE
  /\ pc = [a \in Actors |-> "idle"]
  /\ tickCount = 0
  /\ publicTick = 0
  /\ processed = 0
  /\ report = [s \in Steppers |-> 0]
  /\ actuation = TRUE
  /\ opc = [o \in Operators |-> "idle"]
  /\ want = [o \in Operators |-> "toggle"]
  /\ seen = [o \in Operators |-> TRUE]
  /\ begun = 0
  /\ ticked = [a \in Actors |-> 0]
  /\ collided = FALSE
  /\ parity = FALSE
  /\ frozen = FALSE
  /\ quiet = FALSE

Goto(a, label) == pc' = [pc EXCEPT ![a] = label]

-------------------------------------------------------------------------------
(* Run *)

(* Slip: the start flag is loaded and stored, without a CAS.               *)
RunStart_LoadStore(r) ==
  /\ \/ /\ pc[r] = "idle"
        /\ Goto(r, IF running THEN "returned" ELSE "starting")
        /\ UNCHANGED <<running, timer>>
     \/ /\ pc[r] = "starting"
        /\ running' = TRUE
        /\ timer' = [timer EXCEPT ![r] = "armed"]
        /\ Goto(r, "select")
  /\ UNCHANGED <<cancelled, inFlight, countVars, controlVars, collided, quiet>>

(* The single-start guard: a second Run returns at once. *)
RunStart(r) ==
  /\ pc[r] = "idle"
  /\ IF running
     THEN /\ Goto(r, "returned")
          /\ UNCHANGED <<running, timer>>
     ELSE /\ running' = TRUE
          /\ timer' = [timer EXCEPT ![r] = "armed"]
          /\ Goto(r, "select")
  /\ UNCHANGED <<cancelled, inFlight, countVars, controlVars, collided, quiet>>

TimerFires(r) ==
  /\ timer[r] = "armed"
  /\ timer' = [timer EXCEPT ![r] = "fired"]
  /\ UNCHANGED <<running, cancelled, inFlight, pc, countVars, controlVars, collided, quiet>>

(* The select takes the timer's value. *)
RunReceive(r) ==
  /\ pc[r] = "select"
  /\ timer[r] = "fired"
  /\ timer' = [timer EXCEPT ![r] = "stopped"]
  /\ Goto(r, "gate")
  /\ UNCHANGED <<running, cancelled, inFlight, countVars, controlVars, collided, quiet>>

(* Slip: the deferred store to the start flag is missing.                  *)
RunCancelled_KeepsFlag(r) ==
  /\ pc[r] = "select"
  /\ cancelled
  /\ timer' = [timer EXCEPT ![r] = "stopped"]
  /\ Goto(r, "returned")
  /\ UNCHANGED <<running, cancelled, inFlight, countVars, controlVars, collided, quiet>>

(* The select takes ctx.Done: the deferred calls stop the timer and clear  *)
(* the single-start flag.                                                  *)
RunCancelled(r) ==
  /\ pc[r] = "select"
  /\ cancelled
  /\ timer' = [timer EXCEPT ![r] = "stopped"]
  /\ running' = FALSE
  /\ Goto(r, "returned")
  /\ UNCHANGED <<cancelled, inFlight, countVars, controlVars, collided, quiet>>

(* Slip: the gate is loaded and stored, without a CAS.                     *)
RunGate_LoadStore(r) ==
  /\ \/ /\ pc[r] = "gate"
        /\ collided' = (collided \/ inFlight)
        /\ Goto(r, IF inFlight THEN "select" ELSE "enter")
        /\ UNCHANGED inFlight
     \/ /\ pc[r] = "enter"
        /\ inFlight' = TRUE
        /\ Goto(r, "begin")
        /\ UNCHANGED collided
  /\ UNCHANGED <<running, cancelled, timer, countVars, controlVars, quiet>>

(* The CAS on inFlightTicks.  When it fails, Run goes back to its select   *)
(* without a Reset of the timer it has just drained.                       *)
RunGate(r) ==
  /\ pc[r] = "gate"
  /\ IF inFlight
     THEN /\ collided' = TRUE
          /\ Goto(r, "select")
          /\ UNCHANGED inFlight
     ELSE /\ inFlight' = TRUE
          /\ Goto(r, "begin")
          /\ UNCHANGED collided
  /\ UNCHANGED <<running, cancelled, timer, countVars, controlVars, quiet>>

RunRelease(r) ==
  /\ pc[r] = "release"
  /\ r \in Runners
  /\ inFlight' = FALSE
  /\ Goto(r, "rearm")
  /\ UNCHANGED <<running, cancelled, timer, countVars, controlVars, collided, quiet>>

(* Slip: the timer is not Reset after a tick.                              *)
RunRearm_Forgotten(r) ==
  /\ pc[r] = "rearm"
  /\ Goto(r, "select")
  /\ UNCHANGED <<running, cancelled, timer, inFlight, countVars, controlVars, collided, quiet>>

RunRearm(r) ==
  /\ pc[r] = "rearm"
  /\ timer' = [timer EXCEPT ![r] = "armed"]
  /\ Goto(r, "select")
  /\ UNCHANGED <<running, cancelled, inFlight, countVars, controlVars, collided, quiet>>

(* The process receives its signal. *)
Cancel ==
  /\ ~cancelled
  /\ cancelled' = TRUE
  /\ UNCHANGED <<running, timer, inFlight, pc, countVars, controlVars, collided, quiet>>

-------------------------------------------------------------------------------
(* StepOnce *)

(* A request arrives and tries the gate; when it is taken the request is   *)
(* answered with ErrTickInFlight.                                          *)
StepGate(s) ==
  /\ pc[s] = "idle"
  /\ IF inFlight
     THEN UNCHANGED <<inFlight, pc>>
     ELSE /\ inFlight' = TRUE
          /\ Goto(s, "begin")
  /\ report' = [report EXCEPT ![s] = publicTick]
  /\ UNCHANGED <<running, cancelled, timer, tickCount, publicTick, processed, begun, ticked,
                 controlVars, collided, quiet>>

(* Slip: the gate is released before TickCount is read.                    *)
StepReport_AfterRelease(s) ==
  /\ s \in Steppers
  /\ \/ /\ pc[s] = "release"
        /\ inFlight' = FALSE
        /\ Goto(s, "late")
        /\ UNCHANGED report
     \/ /\ pc[s] = "late"
        /\ report' = [report EXCEPT ![s] = publicTick]
        /\ Goto(s, "unlock")
        /\ UNCHANGED inFlight
  /\ UNCHANGED <<running, cancelled, timer, tickCount, publicTick, processed,
                 begun, ticked, controlVars, collided, quiet>>

(* The value of the return statement, taken before the deferred release.   *)
StepReport(s) ==
  /\ pc[s] = "release"
  /\ s \in Steppers
  /\ report' = [report EXCEPT ![s] = publicTick]
  /\ Goto(s, "unlock")
  /\ UNCHANGED <<running, cancelled, timer, inFlight, tickCount, publicTick, processed,
                 begun, ticked, controlVars, collided, quiet>>

(* Slip: StepOnce returns without the deferred release.                    *)
StepRelease_Leaked(s) ==
  /\ pc[s] = "unlock"
  /\ Goto(s, "idle")
  /\ UNCHANGED <<running, cancelled, timer, inFlight, countVars, controlVars, collided, quiet>>

StepRelease(s) ==
  /\ pc[s] = "unlock"
  /\ inFlight' = FALSE
  /\ Goto(s, "idle")
  /\ UNCHANGED <<running, cancelled, timer, countVars, controlVars, collided, quiet>>

-------------------------------------------------------------------------------
(* executeTick, by whoever holds the gate *)

(* The number of a tick: the one after the last, and for the first tick    *)
(* that finds telemetry a jump over the warm-up.                           *)
NextTicks == {(tickCount + 1) % Wrap} \cup (IF tickCount = 0 THEN {Warm} ELSE {})

TickBegin(a) ==
  /\ pc[a] = "begin"
  /\ \E n \in NextTicks : tickCount' = n
  /\ begun' = (begun + 1) % Wrap
  /\ ticked' = [ticked EXCEPT ![a] = tickCount']
  /\ quiet' = frozen
  /\ Goto(a, "decide")
  /\ UNCHANGED <<running, cancelled, timer, inFlight, publicTick, processed, report,
                 controlVars, collided>>

(* Slip: the tick dispatches whatever the flag says.                       *)
TickDecide_Ignoring(a) ==
  /\ pc[a] = "decide"
  /\ Goto(a, "dispatch")
  /\ UNCHANGED <<running, cancelled, timer, inFlight, countVars, controlVars, collided, quiet>>

(* The load of actuationEnabled that decides whether the tick dispatches. *)
TickDecide(a) ==
  /\ pc[a] = "decide"
  /\ Goto(a, IF actuation THEN "dispatch" ELSE "publish")
  /\ UNCHANGED <<running, cancelled, timer, inFlight, countVars, controlVars, collided, quiet>>

TickDispatch(a) ==
  /\ pc[a] = "dispatch"
  /\ Goto(a, "publish")
  /\ UNCHANGED <<running, cancelled, timer, inFlight, countVars, controlVars, collided, quiet>>

(* Slip: the public counter is incremented rather than stored.             *)
TickPublish_Increments(a) ==
  /\ pc[a] = "publish"
  /\ publicTick' = (publicTick + 1) % Wrap
  /\ Goto(a, "account")
  /\ UNCHANGED <<running, cancelled, timer, inFlight, tickCount, processed, report, begun,
                 ticked, controlVars, collided, quiet>>

TickPublish(a) ==
  /\ pc[a] = "publish"
  /\ publicTick' = tickCount
  /\ Goto(a, "account")
  /\ UNCHANGED <<running, cancelled, timer, inFlight, tickCount, processed, report, begun, ticked,
                 controlVars, collided, quiet>>

(* processedTicks, and adaptInterval, which Cadence models. *)
TickAccount(a) ==
  /\ pc[a] = "account"
  /\ processed' = (processed + 1) % Wrap
  /\ Goto(a, "release")
  /\ UNCHANGED <<running, cancelled, timer, inFlight, tickCount, publicTick, report, begun, ticked,
                 controlVars, collided, quiet>>

Tick(a) == TickBegin(a) \/ TickDecide(a) \/ TickDispatch(a) \/ TickPublish(a) \/ TickAccount(a)

-------------------------------------------------------------------------------
(* The toggle handler *)

tickFrame == <<loopVars, countVars, collided>>

(* A request that may lift the freeze ends the acknowledged one. *)
ToggleRequest(o, body) ==
  /\ opc[o] = "idle"
  /\ want' = [want EXCEPT ![o] = body]
  /\ opc' = [opc EXCEPT ![o] = "load"]
  /\ frozen' = (frozen /\ body = "disable")
  /\ quiet' = (quiet /\ body = "disable")
  /\ UNCHANGED <<tickFrame, actuation, seen, parity>>

(* ToggleActuation: the load and the compare-and-swap of its loop. *)
ToggleLoad(o) ==
  /\ opc[o] = "load"
  /\ seen' = [seen EXCEPT ![o] = actuation]
  /\ opc' = [opc EXCEPT ![o] = "swap"]
  /\ UNCHANGED <<tickFrame, actuation, want, parity, frozen, quiet>>

(* The answer reports the flag; a reported FALSE is an acknowledged freeze *)
(* unless a request that may lift it is being served meanwhile.            *)
Answer(o, flag) ==
  /\ opc' = [opc EXCEPT ![o] = "idle"]
  /\ want' = [want EXCEPT ![o] = "toggle"]
  /\ seen' = [seen EXCEPT ![o] = TRUE]
  /\ frozen' = IF /\ ~flag
                  /\ \A p \in Operators \ {o} : opc[p] = "idle" \/ want[p] = "disable"
               THEN TRUE ELSE frozen

(* Slip: a plain store of the negated flag instead of the CAS.             *)
ToggleSwap_PlainStore(o) ==
  /\ opc[o] = "swap"
  /\ actuation' = ~seen[o]
  /\ IF want[o] = "toggle"
     THEN /\ Answer(o, actuation')
          /\ parity' = ~parity
     ELSE /\ opc' = [opc EXCEPT ![o] = "set"]
          /\ UNCHANGED <<want, seen, parity, frozen>>
  /\ UNCHANGED <<tickFrame, quiet>>

ToggleSwap(o) ==
  /\ opc[o] = "swap"
  /\ \/ /\ actuation # seen[o]
        /\ opc' = [opc EXCEPT ![o] = "load"]
        /\ UNCHANGED <<actuation, want, seen, parity, frozen>>
     \/ /\ actuation = seen[o]
        /\ actuation' = ~actuation
        /\ IF want[o] = "toggle"
           THEN /\ Answer(o, actuation')
                /\ parity' = ~parity
           ELSE /\ opc' = [opc EXCEPT ![o] = "set"]
                /\ UNCHANGED <<want, seen, parity, frozen>>
  /\ UNCHANGED <<tickFrame, quiet>>

(* A body with "enabled" overwrites what the toggle has just done. *)
SetActuationEnabled(o) ==
  /\ opc[o] = "set"
  /\ actuation' = (want[o] = "enable")
  /\ parity' = (want[o] = "disable")
  /\ Answer(o, actuation')
  /\ UNCHANGED <<tickFrame, quiet>>

Toggle(o) == ToggleLoad(o) \/ ToggleSwap(o) \/ SetActuationEnabled(o)

-------------------------------------------------------------------------------
RunStep(r) == RunReceive(r) \/ RunGate(r) \/ RunRelease(r) \/ RunRearm(r)

Next ==
  \/ Cancel
  \/ \E r \in Runners : RunStart(r) \/ TimerFires(r) \/ RunStep(r) \/ RunCancelled(r)
  \/ \E s \in Steppers : StepGate(s) \/ StepReport(s) \/ StepRelease(s)
  \/ \E a \in Actors : Tick(a)
  \/ \E o \in Operators, body \in Requests : ToggleRequest(o, body)
  \/ \E o \in Operators : Toggle(o)

(* Goroutines that can run do run, an armed timer fires, and a select with *)
(* two ready cases picks one at random, so ctx.Done is not passed over for *)
(* ever.  Nobody has to start Run, ask for a step or a toggle, or cancel.  *)
Fairness ==
  /\ \A r \in Runners : WF_vars(TimerFires(r)) /\ WF_vars(RunStep(r)) /\ SF_vars(RunCancelled(r))
  /\ \A s \in Steppers : WF_vars(StepReport(s) \/ StepRelease(s))
  /\ \A a \in Actors : WF_vars(Tick(a))
  /\ \A o \in Operators : WF_vars(Toggle(o))

SafeSpec == Init /\ [][Next]_vars
Spec == SafeSpec /\ Fairness

-------------------------------------------------------------------------------
(* Properties *)

Labels == {"idle", "select", "gate", "begin", "decide", "dispatch", "publish", "account",
           "release", "rearm", "unlock", "returned"}

(* The counters stay in their width, and everybody stands somewhere in the *)
(* code it runs: Run, StepOnce or the toggle handler.                      *)
TypeOK ==
  /\ running \in BOOLEAN
  /\ cancelled \in BOOLEAN
  /\ timer \in [Runners -> {"armed", "fired", "stopped"}]
  /\ inFlight \in BOOLEAN
  /\ pc \in [Actors -> Labels]
  /\ \A r \in Runners : pc[r] # "unlock"
  /\ \A s \in Steppers : pc[s] \notin {"select", "gate", "rearm", "returned"}
  /\ tickCount \in 0 .. Wrap - 1
  /\ publicTick \in 0 .. Wrap - 1
  /\ processed \in 0 .. Wrap - 1
  /\ begun \in 0 .. Wrap - 1
  /\ report \in [Steppers -> 0 .. Wrap - 1]
  /\ ticked \in [Actors -> 0 .. Wrap - 1]
  /\ actuation \in BOOLEAN
  /\ opc \in [Operators -> {"idle", "load", "swap", "set"}]
  /\ want \in [Operators -> {"toggle"} \cup Requests]
  /\ seen \in [Operators -> BOOLEAN]
  /\ collided \in BOOLEAN
  /\ parity \in BOOLEAN
  /\ frozen \in BOOLEAN
  /\ quiet \in BOOLEAN

Ticking(a) == pc[a] \in {"begin", "decide", "dispatch", "publish", "account", "release", "unlock"}
Looping(r) == pc[r] \in Labels \ {"idle", "returned"}

(* The gate inFlightTicks lets one tick run at a time, scheduled by Run or *)
(* asked for by StepOnce: nothing else protects the orchestrator's fields. *)
AtMostOneTick == \A a, b \in Actors : Ticking(a) /\ Ticking(b) => a = b

(* However often Run is called, one call at a time drives the loop.        *)
SingleRun == \A p, q \in Runners : Looping(p) /\ Looping(q) => p = q

(* StepOnce answers with the number of the tick it has itself executed,    *)
(* although Run and other requests tick and the number is read after the   *)
(* tick.                                                                   *)
StepReportsOwnTick == \A s \in Steppers : pc[s] = "unlock" => report[s] = ticked[s]

(* Whenever no tick runs, what TickCount and ProcessedTickCount say agrees *)
(* with the ticks that were executed.                                      *)
Settled == ~inFlight => publicTick = tickCount /\ processed = begun

(* The gate holds: neither two loops nor two ticks run at a time.          *)
OneAtATime == AtMostOneTick /\ SingleRun

(* The counters tell the truth: a step reports the tick it ran, and        *)
(* between ticks they agree.                                               *)
CountsTrue == StepReportsOwnTick /\ Settled

(* After a freeze has been acknowledged and until somebody asks to lift    *)
(* it, no tick that begins later dispatches a directive.                   *)
FreezeHolds == \A a \in Actors : pc[a] = "dispatch" => ~quiet

(* Requests are not lost: when all are answered, the flag is what the last *)
(* explicit setting, flipped by every bare toggle answered since, makes of *)
(* it.                                                                     *)
ToggleParity == (\A o \in Operators : opc[o] = "idle") => actuation = ~parity

(* The gate is given back after every tick.                                *)
GateFreed == inFlight ~> ~inFlight

(* Once the context is done the loop ends, and leaves the start flag clear *)
(* for another Run.                                                        *)
StopsOnCancel == cancelled /\ running ~> ~running

(* Nothing is held for good: neither the gate by a tick, nor the start     *)
(* flag by a loop that was cancelled.                                      *)
LetsGo == GateFreed /\ StopsOnCancel

(* Run, waiting in its select, goes on to tick: unless it is cancelled, or *)
(* has lost the gate to a StepOnce some time before.                       *)
TicksUntilCollision ==
  \A r \in Runners : pc[r] = "select" ~> cancelled \/ collided \/ pc[r] = "begin"

(* Run, waiting in its select, goes on to tick unless it is cancelled:     *)
(* "Every 2 seconds, this sequence runs" (README.md:288).                  *)
KeepsTicking == \A r \in Runners : pc[r] = "select" ~> cancelled \/ pc[r] = "begin"
===============================================================================
