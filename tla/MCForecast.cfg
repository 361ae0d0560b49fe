\* Backlogs at and past the emergency threshold, rates of two and three steps,
\* and pressures that speed the ramp up by a little and by half.
SPECIFICATION SpecAll
CONSTANTS
  Required = {2, 4}
  Needs = {5}
  Seeds = {2}
  MinCapacity = 1
  MaxCapacity = 2
  Backlogs = {1, 20}
  Arrivals = {0, 4}
  RetryFactors = {0, 4}
  UpNormal = 1
  UpEmergency = 3
  Down = 1
  RetryUp = 3
  RetryDown = 2
  Pressures = {103, 154}
  MaxCapacityRamp = 1
  EmergencyBacklog = 15
  DegradedBacklog = 8
  OverrideWindow = 3
  MaxBacklog = 4
\* Two services with a server and a place in the queue each, and one scenario.
  Services = {"api", "db"}
  Edges <- Calls
  IdleSets <- OneIdle
  Concurrency = 1
  maxQueueDepth = 1
  nScenarios = 1
  MaxRecoverySteps = 1
  MaxArrivals = 3
\* Four jobs for three workers, cancelled or not, and a window that holds them.
  NJobs = 4
  InitWorkers = 3
  MaxWorkers = 3
  JobBuffer = 1
  ResultBuffer = 1
  ReorderWindow = 3
  EnableAutoscale = FALSE
  FlushOnCancel = TRUE
  Cancellable = TRUE
  MayPanic = TRUE
\* A file that each record fills, rotated within and across seconds.
  MaxBytes = 1
  EnableGzip = TRUE
  MaxClock = 3
  MaxRecords = 5
\* Two candidates a tick, and goroutines of up to four ticks at the lock.
  Candidates = 2
  Horizon = 1
  LearnerTicks = 4
\* The least, a middling and the largest reading, past the 24th tick.
  Readings = {500, 600, 964}
  AutonomyTicks = 26
\* Three services for two workers, in two ticks.
  Modelled = {"s1", "s2", "s3"}
  WorkerPoolSize = 2
  StageTicks = 2
CHECK_DEADLOCK FALSE
INVARIANTS AutopilotSafe SimulationSound   
