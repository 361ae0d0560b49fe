SPECIFICATION Spec
CONSTANTS
  Services = {s1}
  ReplicaCounts = {1, 4}
  Loads = {1, 2}
  SandboxEvery = 2
  Warm = 10
  Durations = {1, 2}
INVARIANTS
  NoQuickReversal
  RiskHoldsCapacity
  
PROPERTIES
  RateLimited
