CONSTANTS
  Handlers = {h1, h2}
  Aggregator = aggregator
SPECIFICATION ServerSpec
\* The process exits: the model ends there.
CHECK_DEADLOCK FALSE
INVARIANT
  DrainsRequests
