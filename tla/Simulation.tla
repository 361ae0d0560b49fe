------------------------------ MODULE Simulation ------------------------------
(***************************************************************************)
(* One request to the simulation runner (internal/simulation/runner.go):   *)
(* a number of scenarios, each a discrete-event simulation of the services *)
(* as queues with a load shock in the middle, merged into one result.      *)
(*                                                                         *)
(* Virtual time is left out: delays between arrivals and service times are *)
(* drawn from distributions without bounds, so that any pending event may  *)
(* be the next one, and the run may end before any event (horizon,         *)
(* wall-clock budget, number of events).  What remains is which events are *)
(* pending.  The fluid plant that is stepped every 50 ms sets the rate and *)
(* the queue length to anything (PhysicsStep).                             *)
(*                                                                         *)
(* The scenarios of a request run in goroutines of their own and share     *)
(* only the network field, which no result reads; they are taken one after *)
(* the other here.                                                         *)
(***************************************************************************)
EXTENDS Integers, Sequences, FiniteSets

CONSTANTS Services,
          Edges,           (* pairs of services: cascade edges               *)
          IdleSets,        (* the sets of services considered as idle        *)
          Concurrency, maxQueueDepth,
          nScenarios,
          MaxRecoverySteps,(* recovery steps that fit before the horizon     *)
          MaxArrivals      (* bound: arrivals of a service in a scenario     *)

VARIABLES
  idle,      (* the services whose base rate is zero: the request's input    *)
  pending,   (* for every kind of event and service, how many are scheduled  *)
  st,        (* the ServiceSimState of every service                         *)
  collapseDetected,
  runs       (* the results of the scenarios that have ended                 *)

vars == <<idle, pending, st, collapseDetected, runs>>

Kinds == {"arrival", "departure", "shock", "recovery"}

(* The rate is known by how it compares with the base rate: "over" is more *)
(* than 2% above it.                                                       *)
Rates == {"zero", "base", "over"}

NewState(s) ==
  [inService |-> 0, queued |-> 0, queueLen |-> 0, maxQueueLen |-> 0, queueMass |-> 0,
   arrived |-> 0, served |-> 0, dropped |-> 0,
   rate |-> IF s \in idle THEN "zero" ELSE "base",
   shocked |-> FALSE, peak |-> FALSE, steps |-> 0, converged |-> FALSE]

(* The first arrival of every service that has any, and the shock, which   *)
(* strikes the service with the highest utilisation, if one has any.       *)
(* The event of the transport engine is scheduled for a service "global",  *)
(* which is none: the loop drops it and it never comes again.              *)
FirstEvents(target) ==
  [k \in Kinds |-> [s \in Services |->
     IF (k = "arrival" /\ s \notin idle) \/ (k = "shock" /\ s = target) THEN 1 ELSE 0]]

StartScenario(target) ==
  /\ pending' = FirstEvents(target)
  /\ st' = [s \in Services |-> NewState(s)]
  /\ collapseDetected' = FALSE

Targets == Services \cup {"none"}

Init ==
  /\ idle \in IdleSets
  /\ \E target \in Targets : pending = FirstEvents(target)
  /\ st = [s \in Services |-> NewState(s)]
  /\ collapseDetected = FALSE
  /\ runs = <<>>

-------------------------------------------------------------------------------
(* Handlers: each takes its event off the schedule. *)

Running == Len(runs) < nScenarios

Larger(a, b) == IF a >= b THEN a ELSE b

(* Slip: only a queue beyond the limit counts. *)
NoteCollapse_Beyond(s) ==
  collapseDetected' = (collapseDetected \/ st'[s].queueLen > maxQueueDepth)

(* An event of a service whose queue stands at the limit after it. *)
NoteCollapse(s) ==
  collapseDetected' = (collapseDetected \/ st'[s].queueLen >= maxQueueDepth)

(* The next arrival is scheduled unless the rate is zero. *)
NextArrival(s) == IF st'[s].rate = "zero" THEN 0 ELSE 1

Schedule(s, change) ==
  pending' = [k \in Kinds |-> IF k \in DOMAIN change
                              THEN [pending[k] EXCEPT ![s] = @ + change[k]] ELSE pending[k]]

Admitted(q) ==
  CASE q.queued >= maxQueueDepth -> [q EXCEPT !.dropped = @ + 1]
    [] q.queued < maxQueueDepth /\ q.inService < Concurrency -> [q EXCEPT !.inService = @ + 1]
    [] OTHER -> LET len == Larger(q.queueLen, q.queued + 1)
                IN  [q EXCEPT !.queued = @ + 1, !.queueLen = len,
                              !.maxQueueLen = Larger(@, len)]

handleArrival(s) ==
  /\ Running
  /\ pending["arrival"][s] > 0
  /\ st[s].arrived < MaxArrivals
  /\ st' = [st EXCEPT ![s] = Admitted([st[s] EXCEPT !.arrived = @ + 1])]
  /\ LET began == st'[s].inService - st[s].inService
     IN  Schedule(s, [arrival |-> NextArrival(s) - 1, departure |-> began])
  /\ NoteCollapse(s)
  /\ UNCHANGED <<idle, runs>>

(* Slip: the request that begins service is not counted in service. *)
Left_Idle(q) ==
  IF q.queued = 0
  THEN [q EXCEPT !.served = @ + 1, !.inService = @ - 1]
  ELSE [q EXCEPT !.served = @ + 1, !.queued = @ - 1, !.inService = @ - 1,
                 !.queueLen = Larger(q.queueMass, q.queued - 1)]

Left(q) ==
  IF q.queued = 0
  THEN [q EXCEPT !.served = @ + 1, !.inService = @ - 1]
  ELSE [q EXCEPT !.served = @ + 1, !.queued = @ - 1,
                 !.queueLen = Larger(q.queueMass, q.queued - 1)]

(* A departure begins the service of the first request in the queue. *)
handleDeparture(s) ==
  /\ Running
  /\ pending["departure"][s] > 0
  /\ st' = [st EXCEPT ![s] = Left(@)]
  /\ Schedule(s, [departure |-> IF st[s].queued > 0 THEN 0 ELSE -1])
  /\ NoteCollapse(s)
  /\ UNCHANGED <<idle, runs>>

(* A tick on which the plant is stepped: its state replaces the rate and   *)
(* the queue length.  The plant never lets the rate be zero.               *)
PhysicsStep(s) ==
  /\ Running
  /\ \E mass \in 0 .. maxQueueDepth, r \in {"base", "over"} :
       LET len == Larger(mass, st[s].queued)
       IN  /\ s \in idle => r = "over"
           /\ st' = [st EXCEPT ![s].queueMass = mass, ![s].rate = r,
                               ![s].queueLen = len, ![s].maxQueueLen = Larger(@, len)]
  /\ NoteCollapse(s)
  /\ UNCHANGED <<idle, pending, runs>>

(* The sets of services the shock may reach from its target: every edge    *)
(* passes it on with some probability.                                     *)
Reached(target) ==
  {hit \in SUBSET Services :
     /\ target \in hit
     /\ \A t \in hit \ {target} :
          \E path \in UNION {[1 .. n -> hit] : n \in 2 .. Cardinality(Services)} :
             /\ path[1] = target
             /\ path[Cardinality(DOMAIN path)] = t
             /\ \A i \in 1 .. Cardinality(DOMAIN path) - 1 : <<path[i], path[i+1]>> \in Edges}

Struck(s) ==
  [st[s] EXCEPT !.shocked = TRUE,
                !.rate = IF s \in idle THEN "zero" ELSE "over",
                !.peak = s \notin idle]

(* Slip: only the recovery of the shock's target is scheduled. *)
RecoveryOf_Target(hit, s) == {s}

(* The services whose recovery is scheduled: all that are hit. *)
RecoveryOf(hit, s) == hit

applyShock(s) ==
  /\ Running
  /\ pending["shock"][s] > 0
  /\ \E hit \in Reached(s) :
       /\ st' = [t \in Services |-> IF t \in hit THEN Struck(t) ELSE st[t]]
       /\ pending' = [pending EXCEPT
            !["shock"][s] = 0,
            !["recovery"] = [t \in Services |->
               IF t \in RecoveryOf(hit, s) THEN @[t] + 1 ELSE @[t]],
            !["arrival"][s] = @ + NextArrival(s)]
  /\ NoteCollapse(s)
  /\ UNCHANGED <<idle, runs>>

(* One step of the ramp down: the excess shrinks, and once it is within 2% *)
(* the service is back at its base rate.  Every step also schedules        *)
(* another arrival, beside the one that is pending.                        *)
handleRecovery(s) ==
  /\ Running
  /\ pending["recovery"][s] > 0
  /\ st[s].steps < MaxRecoverySteps
  /\ \E over \in BOOLEAN :
       /\ over => st[s].rate = "over"
       /\ s \in idle /\ st[s].rate = "over" => over
       /\ st' = [st EXCEPT ![s] =
            IF over THEN [st[s] EXCEPT !.steps = @ + 1]
            ELSE [st[s] EXCEPT !.rate = IF s \in idle THEN "zero" ELSE "base",
                           !.shocked = FALSE, !.converged = TRUE]]
       /\ Schedule(s, [recovery |-> IF over THEN 0 ELSE -1, arrival |-> NextArrival(s)])
  /\ NoteCollapse(s)
  /\ UNCHANGED <<idle, runs>>

-------------------------------------------------------------------------------
(* Results *)

(* What the loop over the services makes of their recoveries, visiting     *)
(* them in the order of a Go map, which is any order: the last one visited *)
(* that has not converged, or that has converged at a later time than      *)
(* those since, decides.  TRUE stands for a time, FALSE for -1.            *)
Convergences ==
  LET struck == {s \in Services : st[s].peak}
      late   == {s \in struck : st[s].shocked /\ ~st[s].converged}
      early  == {s \in struck : st[s].converged}
  IN  CASE struck = {} -> {"none"}
        [] struck # {} /\ late = {} -> {"converged"}
        [] struck # {} /\ early = {} -> {"not"}
        [] OTHER -> {"converged", "not"}

Result(convergence) ==
  [stable |-> ~collapseDetected,
   saturated |-> {s \in Services : st[s].maxQueueLen >= maxQueueDepth},
   dropping |-> {s \in Services : st[s].dropped > 0},
   convergence |-> convergence]

EndScenario ==
  /\ Running
  /\ \E c \in Convergences : runs' = Append(runs, Result(c))
  /\ \E target \in Targets : StartScenario(target)
  /\ UNCHANGED idle

(* The request's result, from those of its scenarios. *)
mergeScenarios(rs) ==
  LET n == Len(rs) IN
  [stable |-> \A i \in 1 .. n : rs[i].stable,
   saturated |-> {s \in Services :
                    2 * Cardinality({i \in 1 .. n : s \in rs[i].saturated}) > n},
   convergence |-> CASE \E i \in 1 .. n : rs[i].convergence = "not" -> "not"
                     [] \A i \in 1 .. n : rs[i].convergence = "none" -> "none"
                     [] OTHER -> "converged"]

Next ==
  \/ \E s \in Services :
       \/ handleArrival(s) \/ handleDeparture(s)
       \/ PhysicsStep(s)
       \/ applyShock(s) \/ handleRecovery(s)
  \/ EndScenario

Spec == Init /\ [][Next]_vars

-------------------------------------------------------------------------------
(* Properties *)

(* Every request that has arrived has been served or dropped, or is in     *)
(* service with its departure scheduled, or waits in a queue, and then all *)
(* servers are busy: no order of events, shock or physics step loses a     *)
(* request or leaves a server idle beside a queue.                         *)
Conserved ==
  \A s \in Services :
    LET q == st[s] IN
    /\ q.arrived = q.served + q.dropped + q.inService + q.queued
    /\ pending["departure"][s] = q.inService
    /\ q.inService <= Concurrency
    /\ q.queued > 0 => q.inService = Concurrency

(* The verdict on the system and the outcomes of the services agree: a     *)
(* scenario is unstable exactly when some service's queue has been at the  *)
(* limit, none that drops requests is left out, and merging keeps this in  *)
(* one direction (a minority of scenarios may make the merged result       *)
(* unstable with no service saturated).                                    *)
VerdictsAgree ==
  /\ \A i \in DOMAIN runs :
       /\ runs[i].stable <=> runs[i].saturated = {}
       /\ runs[i].dropping \subseteq runs[i].saturated
  /\ runs # <<>> /\ mergeScenarios(runs).stable => mergeScenarios(runs).saturated = {}

(* A shocked service always has one recovery step ahead of it, whichever   *)
(* way the cascade reached it, and a service that is not shocked has none. *)
RecoveryScheduled ==
  \A s \in Services : pending["recovery"][s] = IF st[s].shocked THEN 1 ELSE 0
===============================================================================
