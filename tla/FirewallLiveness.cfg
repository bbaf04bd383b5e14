\* Firewall pipeline under fairness: a prefetch window of one, which an empty list can
\* fill; one lost channel, one crash or signal.
SPECIFICATION FairSpec
CONSTANTS
  e1 = e1
  e2 = e2
  e3 = e3
  empty = empty
  bad = bad
  Message = {e1, empty}
  Malformed <- MCMalformed
  Events <- MCEvents
  Prefetch = 1
  BatchSize = 2
  MaxLosses = 1
  MaxAttempts = 2
  MaxStops = 1
  MaxUnheard = 0
  Pipeline = "Firewall"
PROPERTIES StoredUnlessStarved ReconnectsAfterLoss
CHECK_DEADLOCK FALSE
