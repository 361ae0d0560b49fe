SPECIFICATION Spec
CONSTANTS
  queueCap = 2
  MaxSnapshots = 4
INVARIANT DrainsResponse
