\* Three Windows events in two logs and two failures; every rule of the Windows
\* detector, every class of firewall row, eight scenarios of rows for the correlator,
\* every sequence of three rows of process events; three alerts and a cache of two; a
\* list of two events and a message that does not parse through the two services; a
\* Python queue of one.
SPECIFICATION Spec
CONSTANTS
  i1 = i1
  i2 = i2
  i3 = i3
  h1 = h1
  h2 = h2
  g1 = g1
  g2 = g2
  e1 = e1
  e2 = e2
  e3 = e3
  log1 = log1
  log2 = log2
  a1 = a1
  a2 = a2
  a3 = a3
  v1 = v1
  v2 = v2
  w1 = w1
  w2 = w2
  list = list
  bad = bad
  l1 = l1
  l2 = l2
  l3 = l3
  Record = {e1, e2, e3}
  LogOf <- MCLogOf
  AgentBatch = 2
  Interval = 1
  MaxSeconds = 4
  MaxAgentFaults = 2
  Host <- MCHost
  ChainRow <- MCChainRow
  MaxRows = 3
  Scenarios <- MCScenarios
  Window = 2
  FailThreshold = 2
  RowLimit = 2
  MaxLate = 1
  MaxAhead = 1
  MaxPasses = 4
  MaxErrors = 1
  Fingerprint = {a1, a2, a3}
  SuppressWindow = 2
  MaxCacheSize = 2
  OutCap = 1
  MaxTime = 4
  MaxFeeds = 4
  Event = {v1, v2}
  Source = {list, bad}
  EventsOf <- MCEventsOf
  Unparsable = {bad}
  EnrichWorker = {w1}
  EventCap = 1
  EnrichedCap = 1
  PublishBatch = 2
  MaxEnrichFaults = 1
  Writer = {w2}
  WriterCap = 1
  WriteBatchSize = 2
  MaxRetries = 2
  MaxWriterFaults = 1
  LogLine = {l1, l2, l3}
  QueueSize = 1
  PyBatchSize = 2
  MaxPublishFaults = 3
INVARIANTS AgentLossHasCause RulesAreReachable HighestLevelWins IncidentsAreCoincidences CoincidencesReported TreesMatchRows
INVARIANTS ReportsSpaced CountsConserved LossHasCause SettledIsInserted SophosLossHasCause
CHECK_DEADLOCK FALSE
