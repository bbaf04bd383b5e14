\* Windows pipeline under fairness: two lost channels, one crash or signal.
SPECIFICATION FairSpec
CONSTANTS
  e1 = e1
  e2 = e2
  e3 = e3
  empty = empty
  bad = bad
  Message = {e1, e2}
  Malformed <- MCMalformed
  Events <- MCEvents
  Prefetch = 2
  BatchSize = 2
  MaxLosses = 2
  MaxAttempts = 2
  MaxStops = 1
  MaxUnheard = 0
  Pipeline = "Windows"
INVARIANT HeldIsPending
PROPERTIES PublishedIsStoredOrAbandoned SignalStops
CHECK_DEADLOCK FALSE
