\* Two services in two shards, two ingesters, room for one service.
SPECIFICATION LiveSpec
CONSTANTS
  s1 = s1
  s2 = s2
  Services = {s1, s2}
  numShards = 2
  ShardOf <- Apart
  Ingesters = {i1, i2}
  Tick = tick
  Metrics = metrics
  maxSvc = 1
  bufCap = 2
  staleAge = 1
  freshCutoff = 1
  Delays = {0, 2}
  MaxNow = 3
  MaxIngests = 2
INVARIANTS AdmissionSound WindowsComplete
PROPERTY SilentIsPruned
