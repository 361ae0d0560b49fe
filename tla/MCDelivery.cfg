SPECIFICATION SpecAll
CONSTANTS
  \* A queue of two and four snapshots: full, drained at Close, and overtaken.
  queueCap = 2
  MaxSnapshots = 4
  \* One client, five broadcasts and two places in its channel: it falls
  \* behind, is dropped, leaves or dies, at any point of its registration.
  Clients = {"c1"}
  Broadcasters = {"tick"}
  maxClients = 1
  sendBufferSize = 2
  MaxSeq = 5
  \* A queue of two, batches of one and two: full queues, a breaker that
  \* opens, tries again and closes, and a point left over at every stage.
  QueueSize = 2
  BatchSizes = {1, 2}
  Attempts = 2
  CircuitOpenAfter = 2
  MaxPoints = 5
CHECK_DEADLOCK FALSE
INVARIANTS DriftIsErrors WriterSound StreamWhole 
PROPERTIES OkMeansStored HubDeadLeave ShutdownsEnd
