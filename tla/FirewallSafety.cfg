\* Firewall pipeline: a batch event, a whole batch, an empty and a malformed message; one fault of each kind.
SPECIFICATION Spec
CONSTANTS
  e1 = e1
  e2 = e2
  e3 = e3
  empty = empty
  bad = bad
  Message = {e1, e3, empty, bad}
  Malformed <- MCMalformed
  Events <- MCEvents
  Prefetch = 2
  BatchSize = 2
  MaxLosses = 1
  MaxAttempts = 2
  MaxStops = 1
  MaxUnheard = 1
  Pipeline = "Firewall"
INVARIANTS TypeOK NoLoss SettledOnce DuplicatesNeedFault
PROPERTY ImplementsPromise
CHECK_DEADLOCK FALSE
