------------------------------- MODULE Forecast --------------------------------
(***************************************************************************)
(* What the engine works out beside its ticks: the autopilot's plans, the  *)
(* simulation of a request's scenarios (Simulation), a batch of sandbox    *)
(* experiments (SandboxExecutor) and the log of their records              *)
(* (ExperimentLog), the policy's learning (PolicyLearner), the degree of   *)
(* autonomy (Autonomy) and the models of the services (ModellingStage).    *)
(*                                                                         *)
(* As in Observation, none of them writes the state of another: each has   *)
(* its own variables, and its own specification.                           *)
(***************************************************************************)
EXTENDS Autopilot, FiniteSets

CONSTANTS
  Services, Edges, IdleSets, Concurrency, maxQueueDepth, nScenarios,   (* simulation *)
  MaxRecoverySteps, MaxArrivals,
  NJobs, InitWorkers, MaxWorkers, JobBuffer, ResultBuffer,             (* batch      *)
  ReorderWindow, EnableAutoscale, FlushOnCancel, Cancellable, MayPanic,
  MaxBytes, EnableGzip, MaxClock, MaxRecords,                          (* log        *)
  Candidates, Horizon, LearnerTicks,                                   (* learning   *)
  Readings, AutonomyTicks,                                             (* autonomy   *)
  Modelled, WorkerPoolSize, StageTicks                                 (* models     *)

VARIABLES
  idle, pending, st, collapseDetected, runs,
  cancelled, fed, dispatched, feeder, resting, retiring, busy, sending, panicked, launching,
  resCh, resClosed, held, next, reducer, delivered, sentClosed,
  clock, live, rotated, archive, output, tmp, call, count, acked, replaced, taken, collided,
  learnerTick, step, answer, prevTD, observes, learned,
  autonomyTick, anomalyEW, autonomyMode, cooled, promotions,
  stageTick, pc, windows, observed, todo, worker, physics, filter, bundles, present

Runner == INSTANCE Simulation

Batch == INSTANCE SandboxExecutor
  WITH taken <- dispatched, idle <- resting, pending <- held

Log == INSTANCE ExperimentLog

Learner == INSTANCE PolicyLearner
  WITH MaxTicks <- LearnerTicks, tick <- learnerTick, pending <- answer

Modes == INSTANCE Autonomy
  WITH MaxTicks <- AutonomyTicks, tick <- autonomyTick, mode <- autonomyMode

Stage == INSTANCE ModellingStage
  WITH Services <- Modelled, MaxTicks <- StageTicks, tick <- stageTick

(* A queue has room for one request at least (runner.go: 150 by default).  *)
ASSUME SimulationAssumption ==
  /\ Concurrency \in Nat /\ maxQueueDepth \in Nat \ {0}
  /\ \A idleSet \in IdleSets : idleSet \subseteq Services
(* A pool has a worker at least (parallel_executor.go:89); a window may be *)
(* of any size.                                                            *)
ASSUME BatchAssumption ==
  /\ NJobs \in Nat /\ InitWorkers \in Nat \ {0} /\ ReorderWindow \in Nat
  /\ {EnableAutoscale, FlushOnCancel, Cancellable, MayPanic} \subseteq BOOLEAN
ASSUME LogAssumption == MaxBytes \in Nat /\ MaxClock \in Nat \ {0} /\ EnableGzip \in BOOLEAN
ASSUME LearnerAssumption == Candidates \in Nat /\ Horizon \in Nat \ {0}
(* A reading is the sigmoid of a sum that is never negative, in thousandths. *)
ASSUME ReadingAssumption == Readings \subseteq 500 .. 1000
ASSUME StageAssumption == WorkerPoolSize \in Nat \ {0}

-------------------------------------------------------------------------------
(* No order of events, shock or physics step loses a request or leaves a   *)
(* server idle beside a queue; the verdict on the system agrees with the   *)
(* outcomes of the services, merged or not; and every shocked service has  *)
(* its recovery ahead of it.                                               *)
SimulationSound == Runner!Conserved /\ Runner!VerdictsAgree /\ Runner!RecoveryScheduled

(* A batch that was not cancelled hands on the result of every job in      *)
(* order, and none hands on one twice; and a record whose call returned is *)
(* kept through rotations and crashes.                                     *)
ExperimentsSound == Batch!AllDelivered /\ Batch!NothingTwice /\ Log!RecordsKept

(* What several ticks share is used once: an answer is learned from once,  *)
(* full autonomy is a matter of the first ticks, and every service is      *)
(* modelled once a tick.                                                   *)
LearningSound == Learner!LearnedOnce /\ Modes!AutonomyIsEarly /\ Stage!ModelledOnce
================================================================================
