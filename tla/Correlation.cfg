\* Two servers, two windows, database errors, one Stop() and one crash, under fairness.
SPECIFICATION FairSpec
CONSTANTS
  r1 = r1
  r2 = r2
  s1 = s1
  s2 = s2
  Server = {s1, s2}
  MaxWindow = 2
  Row = {r1}
  WindowOf <- MCWindowOf
  MaxCandidates = 2
  DbFaults = TRUE
  MaxStops = 1
  MaxCrashes = 1
INVARIANTS DoneIsComplete DecisionsRecorded OpenHasOwner
PROPERTIES OpenIsClosed ImplementsLedger
CHECK_DEADLOCK FALSE
