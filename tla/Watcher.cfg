\* Two Windows rows and a firewall row, two poll periods, one failing statement, Stop().
SPECIFICATION FairSpec
CONSTANTS
  w1 = w1
  w2 = w2
  f1 = f1
  Event = {w1, w2, f1}
  Caller <- MCSource
  SourceOf <- MCSourceOf
  Fingerprints <- MCFingerprints
  RuleSeverity <- MCRuleSeverity
  Verdicts = {0}
  LLM = TRUE
  Threshold = 2
  OpenTicks = 0
  MaxBatchSize = 1
  OutChanBuffer = 1
  MaxTime = 2
  MaxLag = 0
  MaxDbFaults = 1
INVARIANTS PassedOnce OnTimeIsRead ReadIsAccounted CountedOutIsOpen
PROPERTY StopEnds
CHECK_DEADLOCK FALSE
