\* One server, no database error, no crash, one Stop(); every call returns.
SPECIFICATION PromptSpec
CONSTANTS
  r1 = r1
  r2 = r2
  s1 = s1
  s2 = s2
  Server = {s1}
  MaxWindow = 2
  Row = {r1, r2}
  WindowOf <- MCWindowOf
  MaxCandidates = 1
  DbFaults = FALSE
  MaxStops = 1
  MaxCrashes = 0
PROPERTY EveryOpenWindowIsMarked
CHECK_DEADLOCK FALSE
