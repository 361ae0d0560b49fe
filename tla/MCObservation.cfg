\* A buffer of three that is written past its end twice.
SPECIFICATION SpecAll
CONSTANTS
  Points = {1, 2}
  capacity = 3
  MaxAppends = 8
\* Two containers, up to three requests each and one restart.
  Containers = {"web", "db"}
  ServiceOf <- OwnService
  Families <- TwoFamilies
  limit = 2
  MaxServed = 3
  MaxRestarts = 1
\* Two handlers that share the pool, three requests of up to two points.
  Handlers = {1, 2}
  MaxBatchSize = 2
  MaxUploads = 3
\* Two requests under way, stamped up to one unit before they get the lock;
\* a bucket of two, swept and made anew within the five units.
  InFlight = {"r1", "r2"}
  Clients = {"a", "b"}
  Watched = "a"
  bucketSize = 2
  refillRate = 1
  idleTimeout = 3
  SweepEvery = 2
  MaxDelay = 1
  MaxClock = 5
\* Every route, and an audit ring of three that two requests overwrite.
  Routes = {"policy", "step", "sandbox", "simulation", "rollout", "ack", "snapshot", "audit"}
  AuditBufSize = 3
  MaxRequests = 2
\* The shortest, the default and the longest duration, around four ticks.
  Durations = {0, 1, 3}
  Fallback = 2
  MaxDuration = 3
  MaxTicks = 4
\* A service and the one it calls.
  Services = {"api"}
  Deps <- CallsDb
  maxNodes = 2
  NodeStaleAge = 1
  simInterval = 2
  AsyncBuffer = 2
\* More alerts than the engine remembers, in periods of every length.
  Rules = {"horizon", "spike"}
  maxCooldowns = 3
  EvictCount = 1
  MaxGap = 2
  MaxTime = 4
CHECK_DEADLOCK FALSE
INVARIANTS SnapshotIsSuffix NumbersTrue IntakeTrue WindowBound    OperatorTold
PROPERTY QuietUnlessCrowded
