CONSTANTS
  Requests = {r1, r2, r3}
  Handlers = {r1}
  Aggregator = aggregator
  IPs = {ip1}
  LimitPerMin = 2
  LastMinute = 1
SPECIFICATION FairApiSpec
\* The process exits, requests arrive once and the clock stops: the model ends.
CHECK_DEADLOCK FALSE
INVARIANTS
  LimitHoldsWithinTheMinute
  RefusedOnlyOverLimit
  CountersExpire
  PoolClosesAfterCancel
PROPERTY
  SignalEndsProcess
