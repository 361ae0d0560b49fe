\* One handler, two requests: the second decodes into the slice of the first.
SPECIFICATION Spec
CONSTANTS
  Handlers = {1}
  MaxBatchSize = 1
  MaxRequests = 2
CHECK_DEADLOCK FALSE
INVARIANT OmittedIsEmpty
