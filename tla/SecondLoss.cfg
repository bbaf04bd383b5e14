\* Two lost channels: the second is never noticed.
SPECIFICATION FairSpec
CONSTANTS
  e1 = e1
  e2 = e2
  e3 = e3
  empty = empty
  bad = bad
  Message = {e1}
  Malformed <- MCMalformed
  Events <- MCEvents
  Prefetch = 1
  BatchSize = 2
  MaxLosses = 2
  MaxAttempts = 2
  MaxStops = 0
  MaxUnheard = 0
  Pipeline = "Firewall"
PROPERTY ReconnectsAfterLoss
CHECK_DEADLOCK FALSE
