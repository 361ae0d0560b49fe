------------------------------ MODULE MCForecast ------------------------------
(***************************************************************************)
(* The components of Forecast on small instances; with the pool that       *)
(* grows, the sandbox's plants, the experience buffer, the models of the   *)
(* network of queues and the cost model, which are model-checked only.     *)
(*                                                                         *)
(* As in MCObservation each is exercised alone: a behaviour has a part,    *)
(* and the others stay as they began.  The parts of this module share the  *)
(* variables v1, v2 ... in the order in which their modules declare them;  *)
(* the slots a part does not need hold 0.                                  *)
(***************************************************************************)
EXTENDS Forecast

VARIABLES part, v1, v2, v3, v4, v5, v6, v7, v8, v9, v10, v11, v12, v13, v14, v15, v16, v17

(* A service that calls another, with a server and a place in the queue each.
   One scenario in which queues overflow, and two that are merged. *)
Calls == {<<"api", "db">>}
OneIdle == {{}, {"db"}}

Merges == INSTANCE Simulation WITH nScenarios <- 2, MaxArrivals <- 2

(* Seven jobs for a pool that grows, with a window that does not hold them. *)
Pool == INSTANCE SandboxExecutor
  WITH NJobs <- 7, InitWorkers <- 3, MaxWorkers <- 4, JobBuffer <- 4,
       ResultBuffer <- 1, ReorderWindow <- 1, EnableAutoscale <- TRUE,
       FlushOnCancel <- FALSE, Cancellable <- FALSE, MayPanic <- FALSE,
       cancelled <- v1, fed <- v2, taken <- v3, feeder <- v4, idle <- v5,
       retiring <- v6, busy <- v7, sending <- v8, panicked <- v9,
       launching <- v10, resCh <- v11, resClosed <- v12, pending <- v13,
       next <- v14, reducer <- v15, delivered <- v16, sentClosed <- v17

(* The plants of RunPhase1Comparison, and a worse one. *)
PlantConfigs ==
  {[scale |-> 100, retry |-> 0, cache |-> 0], [scale |-> 120, retry |-> -30, cache |-> 40],
   [scale |-> 50, retry |-> 30, cache |-> 0]}

(* Six steps with a shock, a burst that collapses a plant, and a rest in which
   it can recover, for the plants of phase 1 and a worse one. *)
Plants == INSTANCE SandboxPlant
  WITH Unit <- 100, Steps <- 6, BaseArrival <- 50, BaseService <- 100,
       ShockTimes <- {2, 4}, ShockMag <- 20, SaturationCap <- 1000,
       CapacityDrop <- 30, RetryGain <- 40, RetryClocks <- {1, 6},
       BurstSizes <- {350}, Noises <- {0}, RateLimit <- 120,
       BreakerThresh <- 40, FanoutBase <- 100, FanoutLoad <- 20,
       Configs <- PlantConfigs, LatencyLimit <- 70, t <- v1, gBacklog <- v2,
       serviceState <- v3, gCollapsed <- v4, burst <- v5, retryClock <- v6,
       prevNoise <- v7, plant <- v8, metrics <- v9, flags <- v10

(* Three cells, not a power of two, overwritten twice. *)
Buffer == INSTANCE ExperienceBuffer
  WITH capacity <- 3, Priorities <- {1, 3}, Episodes <- {1, 2}, MaxAdds <- 5,
       size <- v1, data <- v2, tree <- v3, episodeSlots <- v4, held <- v5

(* Every graph of three services with two weights, its nodes pruned or not. *)
Paths == INSTANCE GraphPaths
  WITH Ids <- {"a", "b", "c"}, Weights <- {1, 2}, Top <- 2, ReachHops <- 1,
       DepthHops <- 2, kind <- v1, nodes <- v2, weight <- v3, pass <- v4,
       todo <- v5, dist <- v6, prev <- v7, known <- v8, found <- v9

(* Every graph of three services, idle or loaded, with and without capacity. *)
Queues == INSTANCE CoupledQueues
  WITH Ids <- {"a", "b", "c"}, Rates <- {0, 50}, Capacities <- {0, 40},
       Weights <- {8}, Samples <- 30, maxIter <- 50, Tolerance <- 1, lambda <- v1,
       capacity <- v2, weight <- v3, mu <- v4, rho <- v5, todo <- v6,
       moved <- v7, pass <- v8, done <- v9

(* The pure part: the cost-based policies. *)
Advice == INSTANCE Policy
Counts == 1 .. 6
Latencies == {1, 250, 400, 500, 502, 600, 750, 1000, 2000, 5000}
Utils == {50, 112, 120, 140, 170}

-------------------------------------------------------------------------------
ofRunner == <<idle, pending, st, collapseDetected, runs>>
ofBatch == <<cancelled, fed, dispatched, feeder, resting, retiring, busy, sending, panicked,
             launching, resCh, resClosed, held, next, reducer, delivered, sentClosed>>
ofLog == <<clock, live, rotated, archive, output, tmp, call, count, acked, replaced, taken, collided>>
ofLearner == <<learnerTick, step, answer, prevTD, observes, learned>>
ofModes == <<autonomyTick, anomalyEW, autonomyMode, cooled, promotions>>
ofStage == <<stageTick, pc, windows, observed, todo, worker, physics, filter, bundles, present>>

(* The slots behind the first n. *)
after10 == <<v11, v12, v13, v14, v15, v16, v17>>
after9 == <<v10, after10>>
after5 == <<v6, v7, v8, v9, after9>>
after0 == <<v1, v2, v3, v4, v5, after5>>

Zero10 == v11 = 0 /\ v12 = 0 /\ v13 = 0 /\ v14 = 0 /\ v15 = 0 /\ v16 = 0 /\ v17 = 0
Zero9 == v10 = 0 /\ Zero10
Zero5 == v6 = 0 /\ v7 = 0 /\ v8 = 0 /\ v9 = 0 /\ Zero9
Zero0 == v1 = 0 /\ v2 = 0 /\ v3 = 0 /\ v4 = 0 /\ v5 = 0 /\ Zero5

allVars == <<part, vars, ofRunner, ofBatch, ofLog, ofLearner, ofModes, ofStage, after0>>

(* The services simulated are idle or not, and one of them is the shock's  *)
(* target, in the simulations only.                                        *)
InitAll ==
  /\ Init /\ Runner!Init /\ Batch!Init /\ Log!Init /\ Learner!Init /\ Modes!Init /\ Stage!Init
  /\ \/ part \in {"drops", "merges"}
     \/ idle = {} /\ pending = Runner!FirstEvents("none")
  /\ \/ part \in {"autopilot", "drops", "merges", "batch", "log", "learner", "modes", "stage", "pure"}
        /\ Zero0
     \/ part = "pool" /\ Pool!Init
     \/ part = "plants" /\ Plants!Init /\ Zero10
     \/ part = "buffer" /\ Buffer!Init /\ Zero5
     \/ part = "paths" /\ Paths!Init /\ Zero9
     \/ part = "queues" /\ Queues!Init /\ Zero9

(* The steps of one part. *)
In(p) ==
  /\ part = p /\ UNCHANGED part
  /\ p # "autopilot" => UNCHANGED vars
  /\ p \notin {"drops", "merges"} => UNCHANGED ofRunner
  /\ p # "batch" => UNCHANGED ofBatch
  /\ p # "log" => UNCHANGED ofLog
  /\ p # "learner" => UNCHANGED ofLearner
  /\ p # "modes" => UNCHANGED ofModes
  /\ p # "stage" => UNCHANGED ofStage
  /\ p \notin {"pool", "plants", "buffer", "paths", "queues"} => UNCHANGED after0

NextAll ==
  \/ In("autopilot") /\ Next
  \/ In("drops") /\ Runner!Next
  \/ In("merges") /\ Merges!Next
  \/ In("batch") /\ Batch!Next
  \/ In("log") /\ Log!Next
  \/ In("learner") /\ Learner!Next
  \/ In("modes") /\ Modes!Next
  \/ In("stage") /\ Stage!Next
  \/ In("pool") /\ Pool!Next
  \/ In("plants") /\ Plants!Next /\ UNCHANGED after10
  \/ In("buffer") /\ Buffer!Next /\ UNCHANGED after5
  \/ In("paths") /\ Paths!Next /\ UNCHANGED after9
  \/ In("queues") /\ Queues!Next /\ UNCHANGED after9

SpecAll == InitAll /\ [][NextAll]_allVars

-------------------------------------------------------------------------------
(* What is worked out is what the data say: no result is handed on twice   *)
(* by a pool that grows; an engine that scales more, retries less and      *)
(* caches more is never behind, and failures and recoveries are counted as *)
(* they happened; experiences are drawn by their priority; the critical    *)
(* path is the heaviest, reach and depth are those of the graph; the       *)
(* coupled queues settle where the equations hold, pressure reaches what   *)
(* it must and what is concluded from it fits the graph; and the advice of *)
(* the cost model follows the latency.                                     *)
SolutionsSound ==
  /\ part = "pool" => Pool!NothingTwice
  /\ part = "plants" => Plants!BetterNeverBehind /\ Plants!MetricsExact
  /\ part = "buffer" => Buffer!SamplesByPriority
  /\ part = "paths" => Paths!LongestFound /\ Paths!ReachAndDepth
  /\ part = "queues" => /\ Queues!Settled /\ Queues!PressureReaches
                        /\ Queues!CouplingFits /\ Queues!ConvergingMeansRelief
  /\ part = "pure" => /\ Advice!ScalesWithLatency(Counts, Latencies, Utils)
                      /\ Advice!PoliciesAgree(Counts, Latencies, Utils)
===============================================================================
