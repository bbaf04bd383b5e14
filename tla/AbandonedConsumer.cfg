\* Windows pipeline, no fault at all.
SPECIFICATION FairSpec
CONSTANTS
  e1 = e1
  e2 = e2
  e3 = e3
  empty = empty
  bad = bad
  Message = {e1, e2}
  Malformed <- MCMalformed
  Events <- MCEvents
  Prefetch = 1
  BatchSize = 2
  MaxLosses = 0
  MaxAttempts = 2
  MaxStops = 0
  MaxUnheard = 0
  Pipeline = "Windows"
PROPERTY PublishedIsStored
CHECK_DEADLOCK FALSE
