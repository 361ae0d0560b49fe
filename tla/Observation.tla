------------------------------ MODULE Observation ------------------------------
(***************************************************************************)
(* What goes into the engine and what an operator gets out of it: the      *)
(* buffer of a service (RingBuffer), the scrapes (Scraping), the ingest    *)
(* handlers (Ingest), the rate limiter in front of the API (RateLimiter),  *)
(* the control API and its audit log (ControlApi), the disturbances it     *)
(* injects (ScenarioControl), the payload of a tick (TickPipeline) and the *)
(* alerts (Reasoning).                                                     *)
(*                                                                         *)
(* None of them writes the state of another while that is between two      *)
(* steps: each has its own variables, and its own specification.           *)
(***************************************************************************)
EXTENDS RingBuffer, FiniteSets

CONSTANTS
  Containers, ServiceOf, Families, limit, MaxServed, MaxRestarts,    (* scrapes *)
  Handlers, MaxBatchSize, MaxUploads,                                (* ingest  *)
  InFlight, Clients, Watched, bucketSize, refillRate, idleTimeout,   (* limits  *)
  SweepEvery, MaxDelay, MaxClock,
  Routes, AuditBufSize, MaxRequests,                                 (* API     *)
  Durations, Fallback, MaxDuration, MaxTicks,                        (* disturbances, and ticks *)
  Services, Deps, maxNodes, NodeStaleAge, simInterval, AsyncBuffer,  (* ticks, and alerts       *)
  Rules, maxCooldowns, EvictCount, MaxGap, MaxTime                   (* alerts  *)

VARIABLES
  containers, served, restarts, targets, waiting, read, prev, counted,
  arrays, pool, upload, uploads, stored,
  clock, requested, buckets, lastCleanup, passed,
  req, count, ticking, done, auditBuf, auditHead, auditSize, logged,
  tick, ScenarioMode, overlays, forceSimulationUntil, control, controls, forcedBy,
  applied, peaked,
  cycle, pc, windows, observed, nodes, edges, skip, forced, prevTopo, runs, results,
  lastSim, overlayAge, resetRequested, forcedUntil, view, calm,
  now, cooldownPeriod, cooldowns, due, held, fired

Scrapes == INSTANCE Scraping
  WITH MaxRequests <- MaxServed, running <- containers, requests <- served

Ingests == INSTANCE Ingest WITH MaxRequests <- MaxUploads, req <- upload, count <- uploads

Limits == INSTANCE RateLimiter
  WITH Requests <- InFlight, capacity <- bucketSize, waiting <- requested

Api == INSTANCE ControlApi
  WITH BufSize <- AuditBufSize, buf <- auditBuf, head <- auditHead, size <- auditSize

Scenarios == INSTANCE ScenarioControl WITH req <- control, count <- controls

Ticks == INSTANCE TickPipeline WITH tick <- cycle, running <- runs

Alerts == INSTANCE Reasoning

(* A container has one service id and feeds the families there are. *)
ASSUME ScrapeAssumption ==
  /\ ServiceOf = [c \in Containers |-> ServiceOf[c]]
  /\ Families \in [Containers -> SUBSET Scrapes!FamilyNames]
ASSUME IngestAssumption == MaxBatchSize \in Nat
(* A sweep drops a bucket only when it would be full again, also for a     *)
(* request that waited for the lock: a bucket fills within 30 seconds      *)
(* (server.go: rps times 3 or 30) and is idle for 5 minutes, so that this  *)
(* holds for waits of up to two minutes.                                   *)
ASSUME LimitAssumption ==
  /\ Watched \in Clients
  /\ bucketSize \in Nat \ {0} /\ {refillRate, idleTimeout, MaxDelay, MaxClock} \subseteq Nat
  /\ bucketSize <= refillRate * (idleTimeout + 1 - 2 * MaxDelay)
ASSUME AuditAssumption == AuditBufSize \in Nat \ {0}
(* A duration is not negative, the default is a tick or more and so is the *)
(* longest.                                                                *)
ASSUME DurationAssumption ==
  Durations \subseteq Nat /\ {Fallback, MaxDuration} \subseteq Nat \ {0}
(* A run is submitted every second tick (orchestrator.go simInterval) or   *)
(* less often, and its result has room.                                    *)
ASSUME TickAssumption ==
  /\ simInterval \in Nat \ {0, 1} /\ AsyncBuffer \in Nat \ {0}
  /\ NodeStaleAge \in Nat /\ maxNodes \in Nat /\ IsFiniteSet(Ticks!Nodes)
ASSUME AlertAssumption ==
  IsFiniteSet(Alerts!Keys) /\ maxCooldowns \in Nat /\ EvictCount \in Nat \ {0}

-------------------------------------------------------------------------------
(* What a payload names is what the store keeps, although the slices that  *)
(* payloads are decoded into are pooled and used again; the increments     *)
(* reported for a service never exceed the requests made to it, through    *)
(* restarts, failed scrapes and failed discoveries; and the last point and *)
(* the ends a summary reports are those of the buffer.                     *)
IntakeTrue == Ingests!StoredAsSent /\ Scrapes!NeverOvercounts /\ ReadsAgree

(* In no window of time does a client get more requests through than a     *)
(* full bucket and its refill, however its requests are delayed and its    *)
(* bucket swept.                                                           *)
WindowBound == Limits!WindowBound

(* A control request that is answered with success has been done once and  *)
(* is in the audit log, one that is refused was not done; and the log's    *)
(* recent events are the last ones.                                        *)
AnswersHonest == Api!AnswersHonest /\ Api!RecentIsLast

(* A disturbance reaches the factor asked for within its duration, and     *)
(* while it lasts the simulation it forced is forced.                      *)
DisturbancesHold == Scenarios!Peaks /\ Scenarios!SimulationFollows

(* A tick that found windows broadcasts bundles; a client that applies the *)
(* diffs knows the graph, though ticks skip them; and the simulation shown *)
(* is at most an interval old.                                             *)
PayloadsTrue == Ticks!PayloadComplete /\ Ticks!ClientKnowsGraph /\ Ticks!FreshOverlay

(* No alert is raised twice within its period unless so many others are    *)
(* as recent that the engine had to forget it.                             *)
QuietUnlessCrowded == [][Alerts!QuietStep]_(Alerts!vars)

(* A condition that holds has been raised within the period.               *)
OperatorTold == Alerts!Reminded
==============================================================================
