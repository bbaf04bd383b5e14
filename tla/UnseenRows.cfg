\* One Windows row and a firewall row, inserted up to one period after their timestamp; no failing statement.
SPECIFICATION Spec
CONSTANTS
  w1 = w1
  w2 = w2
  f1 = f1
  Event = {w1, f1}
  Caller <- MCSource
  SourceOf <- MCSourceOf
  Fingerprints <- MCFingerprints
  RuleSeverity <- MCRuleSeverity
  Verdicts = {0}
  LLM = FALSE
  Threshold = 3
  OpenTicks = 1
  MaxBatchSize = 1
  OutChanBuffer = 1
  MaxTime = 2
  MaxLag = 1
  MaxDbFaults = 0
INVARIANT NoRowLeftBehind
CHECK_DEADLOCK FALSE
