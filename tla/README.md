# Formal model of the ULS detection platform

This directory holds TLA+ modules for the ULS detection server and what surrounds it, the TLC
configurations that check them on small instances, and TLAPS proofs of what holds for every
instance. The code is the reference: every definition is translated from a source file, and
`PROJECT.json` maps each definition to the lines it stands for. `ULS/` below abbreviates
`src/server_side/uls-detection-server/`.

## 1. Inventory

Windows agents, a Sophos syslog receiver and SCADA clients publish events to three RabbitMQ
queues. The detection server (`ULS/cmd/server`) consumes each with a pipeline goroutine, runs
detection, and inserts into PostgreSQL. Two background components work on the tables: the LLM
watcher enriches new rows into `llm_pass_1`, and the correlation engine reads closed ten-minute
windows of it and writes incidents. Several servers may share one database and one broker.

| Component | State it keeps | Operations | Interacts by | What makes it correct |
|---|---|---|---|---|
| AMQP consumer (`internal/queue/consumer.go`) | connection, channel, `connected`, `reconnecting` | connect, Consume, handleReconnect, reconnect, Close | delivery channel, Ack/Nack on the channel a delivery came on | a lost channel is replaced; nothing is settled twice |
| Ingest pipelines (`cmd/server/main.go`) | a batch of events and their deliveries, a ticker, the signal channel | receive, reject, flush by size and time, resubscribe, shut down | consumer, database | at-least-once: acknowledged only when stored; everything is stored in the end |
| AMQP publisher (`internal/queue/publisher.go`) | channel, confirm channel, `connected`, a mutex | Publish, PublishBatch, reconnect, Close | callers block on the mutex; broker confirms | success means accepted by the broker; every call returns |
| SCADA HTTP bridge (`main.go:245`) | none of its own | POST /ingest_scada | publisher | 200 means every entry was accepted |
| LLM watcher (`internal/llmwatcher`) | `lastPoll`, a bounded channel, two goroutines | poll, fetch, dedup, cap, judge or pass through, send or drop, write, drain | reads event tables, writes `llm_pass_1` | each row read once, none silently lost, ingestion never blocked, Stop returns |
| Circuit breaker (`ollama.go`) | two atomics | IsOpen, RecordSuccess, RecordFailure | shared by two goroutines | enough failures open it |
| Correlation engine v2 (`internal/correlationengine`) | a context, the window in hand; `correlation_windows`, `bart_event_decisions`, `correlation_incidents` | tick, claim, fetch, classify, correlate, save, mark, Stop | one database shared by several servers; BART and LLM calls | one owner per window, complete and unduplicated incidents, an audit trail, every window closed |
| BART client and runner | a pipe to a Python process, a mutex | Classify, Close | one line out, one line in | an answer belongs to its question |
| Process chains (`processchain.go`) | trees under construction | creation and source-target events, upserts | security_events, process_chains | an edge stands at both its ends, once, where a row shows it |
| Enrichment and DB writer services (`internal/enrichment`, `internal/dbwriter`) | two bounded channels and a worker pool; a batch and a writer pool | receive, enrich, acknowledge, publish; batch, insert with retries, settle; Stop | two queues, database | an event is lost only where the code gives it up; a settled message is in the table |
| Deduplicator (`internal/dedup`) | a cache of fingerprints, an output channel | Feed, gc, evict | callers hold its mutex | one row per fingerprint and window, counts add up |
| Correlator v1 (`internal/correlator`) | a ticker; `correlated_incidents` | runPass: two queries, five rules, saveIncident | reads event tables or `llm_pass_1`; not started by `cmd/server` | an incident for each coincidence and only for one |
| Windows and firewall detectors (`internal/detector`, `internal/firewall`) | compiled patterns | Detect, a chain of rule functions | called by the pipelines | each rule has its chance; the worst finding wins |
| Syslog receiver, Go (`cmd/syslog-receiver`, `internal/syslogreceiver`) | a batch, a publisher, counters | read a datagram, normalise, flush, stop | UDP in, `Publisher` out | the counters it logs are true; a signal ends it |
| Sophos syslog receiver (`sophos_syslog_receiver.py`) | a bounded queue, a publishing thread | enqueue, batch, publish twice, stop | UDP/TCP in, pika out | an event is lost only for a cause the program has |
| Windows agent (`ULS_Agent.ps1`) | a watermark in memory, a flag for HTTP, fallback files | query the configured logs (four by default), send a batch by AMQP or HTTP, split, save to file | Event Log in, RabbitMQ out | the same |
| Universal log pipeline (Python) | queues, windows | detect format, parse, correlate | its own files | prototype |

Hard behaviours: the interleaving of a pipeline with the loss and replacement of its channel,
with shutdown and with a crash between INSERT and Ack; a publish whose confirm comes late; the
watcher's two goroutines and a full channel; several engines and one table; statements whose
outcome is unknown. The concrete hazards, each with its line, are the `hazards` of
`PROJECT.json`.

## 2. Modules

| Module | Models | State and actions |
|---|---|---|
| `AmqpQueue` | RabbitMQ as the server uses it (external) | `ready`, `unacked`, `abandoned`, `inbox`: where a message is; `epoch`: which channel. `Publish`, `Deliver`, `LoseChannel` are the broker's steps; `Settle`, `Requeue` are Ack and Nack |
| `Consumer` | `queue/consumer.go` | `handler` is the reconnection goroutine, `attempt` its loop. Every method is one step, as it holds the mutex; `reconnect()` has two |
| `Ingest` | `main.go`: the three pipelines | `pc` is the place in the loop, `batch` the deliveries in hand, `rows` how often a message was inserted. One action per `select` case, then `InsertOK`/`InsertFail`/`InsertUnheard` and one `Ack` or `Nack` per message. `Pipeline` picks the variant |
| `AtLeastOnce` | the promise of README section 3.2 | abstract specification, implemented by `Ingest` |
| `IngestProofs` | | theorems about `Ingest` |
| `Publisher` | `queue/publisher.go` | `holder` is who has the mutex, `stage` where a caller is in `Publish`, `confirms` the confirm channel |
| `ScadaBridge` | `main.go:245-295` | one goroutine per request over `Publisher` |
| `WindowLedger` | the promise of `correlation_windows` | abstract specification, implemented by `CorrEngine` |
| `CorrEngine` | `correlationengine/engine.go`, `repository.go`, `window.go` | one action per statement or outside call of `processWindow`; an `...Error` action chooses whether a failed statement took effect |
| `EngineProofs` | | theorems about `CorrEngine` |
| `CircuitBreaker` | `llmwatcher/ollama.go` | one action per atomic operation |
| `Watcher` | `llmwatcher/watcher.go`, `prompt.go` | `poller` and `writer` are the two goroutines, `out` the channel between them, `lastPoll` the watermark; time counts poll periods |
| `WatcherProofs` | | theorems about `Watcher` and `CircuitBreaker` |
| `BartRunner` | `correlationengine/bart_client.go`, `bart_runner.py` | `stdin`, `working`, `stdout` are the way of a request through the child; `phase` is where a Classify is; `readers` the goroutines in `ReadString`; `raced` that two were there at once, from when on any line may come out |
| `BartProofs` | | theorems about `BartRunner` |
| `Dedup` | `dedup/dedup.go` | `Feed` by its four outcomes, `Gc`, `Stop`, after which a Feed that sends panics; time counts ticks |
| `DedupProofs` | | theorems about `Dedup` |
| `EnrichedQueue` | the queue between the two services (external) | messages with serial numbers, as a batch may be published twice |
| `Enrichment` | `enrichment/service.go` | the position of receiver, workers and publisher; `PublishEvents` chooses what Publish returned: nil for a stored batch, an error, or nil on the late confirm of an earlier batch |
| `DbWriter` | `dbwriter/service.go` | batcher and writers; an attempt succeeds, fails, or is committed and reported as failed |
| `TwoStage` | the pipeline of `LOAD_BALANCING_ARCHITECTURE.md` | both services around the queue |
| `StageProofs` | | theorems about `TwoStage` |
| `SyslogParser` | `syslogreceiver/parser.go` | a line is what the code tests it for; `Normalize` says what fields it yields and whether it is an event |
| `SyslogReceiver` | `cmd/syslog-receiver/main.go` over `Publisher` | `place` is where the loop is; a publisher that was closed in the middle of a reconnection goes on as an orphan |
| `SophosReceiver` | `sophos_syslog_receiver.py` | the queue, the thread's batch, and for each lost event its cause |
| `CollectorProofs` | | theorems about `ScadaBridge` over `Publisher`, `SyslogReceiver` over `Publisher`, and `SophosReceiver` |
| `Agent` | `source_side/ULS_Agent.ps1` | `lastTimestamp`, the query of each log, the batch in hand, fallback files by the second they are named after |
| `WindowsDetector` | `detector/detector.go` | `detect...` are its rule functions, each a sequence of rules; `CanShow` says which signs the agent's fields allow an event; `Chain` is Detect's dispatch, `Deciding` the functions whose early return ends it |
| `FirewallDetector` | `firewall/detector.go` | the eight rules as a sequence over classes of flows; a class of ports is what this file and the correlator's rules tell apart |
| `CorrelatorV1` | `correlator/engine.go`, `rules.go` | a pass in steps: query, query, rules, one `saveIncident` each; rows go through the two detectors' `Detect`, so that a rule only sees what they can produce; a Windows row has its computer's name and a clock that may be late or ahead (`MaxAhead`) |
| `ProcessChain` | `correlationengine/processchain.go` | one action per row and per upsert; a window is claimed once, so nothing is there before |
| `DetectionProofs` | | theorems about `Agent`, the two detectors, `CorrelatorV1` and `ProcessChain` |
| `MCMissedLinks` | the correlator's documentation (`src/README.md:365-375`) | the documented sequences as scenarios, and what is said of them |
| `MCServices`, `MCDetection`, `MCIngest`, `MCCorrEngine`, `MCWatcher` | | constants for TLC, and for the first two the choice of the part a behaviour runs |

Composition: `Ingest` EXTENDS `Consumer` EXTENDS `AmqpQueue`; `ScadaBridge` and `SyslogReceiver`
EXTEND `Publisher`, each with callers of its own, and `SyslogReceiver` also `SyslogParser`;
`CorrelatorV1` EXTENDS both detectors; `Watcher` EXTENDS `CircuitBreaker`; `TwoStage` EXTENDS
`Enrichment` and `DbWriter`, which share `EnrichedQueue`. `MCServices` puts the three parts with
liveness properties that do not interact into one run, each behaviour running one of them;
`MCDetection` does the same for those with safety properties only. `CorrEngine` takes a row's
classification as a choice of outcomes; `BartRunner` is what is behind it. The watcher and the
engine meet in `llm_pass_1`: `CorrEngine!InsertPassRow` is the writer's INSERT, at any time and
late.

Data is abstracted to what the properties tell apart. A message is a name with a number of
events; detection, which changes field values and never fails, is left out of `Ingest`. A row is
a name with a window or a timestamp, a fingerprint and a rule severity. An LLM answer is a number
of incident candidates, or a severity. For the detectors an event is its source, its ID and the
set of patterns its fields match; `Entailed` says which patterns come with which, where a text
that matches one must match the other ("anydesk" contains "des", the Cobalt Strike pipe is in both
lists), and a pattern with a capital letter never matches a text in lower case.

## 3. Runs

Passing runs:

| Run | Asks | Bounds and why they are enough |
|---|---|---|
| `firewall_safety` | Does the firewall/SCADA pipeline keep its promise under faults? Type, `NoLoss`, `SettledOnce`, `DuplicatesNeedFault`, and `ImplementsPromise` (refinement of `AtLeastOnce`) | four messages: one short of a batch, a whole batch, an empty list and a malformed one; prefetch 2; one lost channel, two dials, one crash or signal, one unheard INSERT. Each kind of fault can fall between any two steps; the proofs cover larger instances |
| `firewall_liveness` | Is every message with events stored unless an empty list starves it (`StoredUnlessStarved`), is a lost channel replaced? | an event and an empty message and prefetch 1, so that the empty one fills the window; temporal checking is costly |
| `windows` | Does the loop in `main()`, with its second `Consume()` and its batch kept over a closed channel, hold only what is pending (`HeldIsPending`), store everything but what the abandoned subscription took (`PublishedIsStoredOrAbandoned`), and end on a signal (`SignalStops`)? The last two except where the loop is `Deaf`: after a second lost channel it waits for ever in `waitForConsume`, which looks at no signal | two messages that fill a batch together, prefetch 2, so the abandoned subscription can take one or both; two lost channels, so that the loop can become deaf, with a signal or a crash before, between or after them |
| `correlation` | Two servers, one database: `DoneIsComplete`, `OpenHasOwner`, `DecisionsRecorded`, `OpenIsClosed`, and refinement of `WindowLedger` | two windows (so that one can be skipped), a late row, calls that never return, up to two incidents, failing statements throughout, one Stop, one crash |
| `watcher` | Watcher and breaker: no row enriched twice, on-time rows read, and `ReadIsAccounted`: a row read was enriched no lower than it went in, dropped for a full channel, cut by the cap, lost with a statement, a look-alike of another, or sent after Stop and left in the channel | two Windows rows that may look alike and a firewall row, cap 1 and channel capacity 1 so that both limits are met, threshold 2, two poll periods, one failing statement |
| `services` | BART client: is a verdict the answer to its own row (`OwnVerdict`, `ReadersMatchAnswers`), does Stop return (`EngineStopReturns`)? Bridge: what is a 200 worth, how far do confirms lag (`OkIsStored`, `ConfirmsLag`), is every request answered (`EveryRequestAnswered`)? Go syslog receiver: do its counters tell the truth (`CountsTellTheTruth`), does a signal end it (`ReceiverStops`)? | BART: three rows (one late answer and a request after it) over a pipe that holds one. Bridge: requests of two, one and no valid entries, a broker that may stay silent or refuse one message, two lost channels (the second is not noticed), two dials, Close. Receiver: four datagrams, one of which is no event, batch 2, one lost channel or rejected message, a signal |
| `detection` | Agent: `AgentLossHasCause`. Detectors: is every rule but those listed reported (`RulesAreReachable`), when does a lower finding hide a higher one (`HighestLevelWins`)? Correlator: `IncidentsAreCoincidences`, `CoincidencesReported`. Chains: `TreesMatchRows`. Deduplicator: are reports of one fingerprint a window apart (`ReportsSpaced`), does every suppressed event count once (`CountsConserved`)? Two-stage pipeline: where can it lose an event (`LossHasCause`), is what it settled in the table (`SettledIsInserted`)? Python syslog receiver: `SophosLossHasCause` | agent: three events in two logs, four seconds, two failures or restarts. Detectors: each rule with each combination of signs that shows it, all classes of flows. Correlator: eight scenarios of two or three rows, window 2, LIMIT 2 so that it bites, a failing statement, four passes, a row one period late or ahead. Chains: up to three rows of two GUIDs and two hosts, a failing statement. Deduplicator: three fingerprints, four alerts and a cache of two, so that eviction happens. Pipeline: a list of two events, which can be published apart, and a message that does not parse; one fault in each service, two attempts per INSERT. Python receiver: three lines, a queue of one, batch 2, three failing attempts, a stop at any time |

Runs that show a disagreement with what the repository says (`findings` in `PROJECT.json`):

- `second_loss`: `for err := range c.notifyClose` evaluates its channel once, so only the first
  loss is served. `ULS/README.md:266` promises to survive broker restarts.
- `abandoned_consumer`: `main()` calls `Consume()` and then `waitForConsume()`, which calls it
  again. The first subscription stays and takes up to prefetch messages that nobody reads.
- `stop_mid_window`: after `Stop()` a window's failure is recorded with the cancelled context, so
  its row stays `processing`, and no server ever claims it again.
- `unseen_rows`: the watcher's watermark is the wall clock, but rows carry the agent's event time
  and are inserted later; a row inserted behind the watermark is never enriched.
- `missed_links`: `src/README.md:365-375` and the comments above the rules (`rules.go:158-162`,
  `220-224`) say that a credential dump is linked with a large transfer of its host, and a network
  logon with its traffic. Neither is: a Sysmon event 10 carries no source address, which the rule
  wants, and a logon of type 3 is INFO, which the query leaves out (`engine.go:180`).
  `SomeIsNeverLinked` proves that no rows of any agent change this.

Other observations made while modelling, without a run of their own:

- Ingest and services. While a channel is not replaced `waitForConsume` serves no signal
  (`main.go:403`), and after a second loss never again (`Deaf`). A prefetch window full of JSON `[]`
  stops deliveries (`StoredUnlessStarved` needs `Starved` for it). An INSERT of more than about 436
  Windows events exceeds PostgreSQL's limit on parameters and fails for ever: the pipelines'
  defaults stay below it, `DBWRITER_BATCH_SIZE` defaults to 500. The comment at
  `enrichment/service.go:264` says that the events of a failed publish are reprocessed from the
  source queue, but their messages were acknowledged at line 202; and after such a failure the next
  batch may be taken for published on the earlier one's confirm (`misconfirmed`). `DuplicateCount`
  counts the reported event itself (`dedup.go:129`).
- Watcher and engine. The writer drains and exits while the poll goroutine may still queue a window
  (`watcher.go:250`; `ReadIsAccounted` needs `sentLate` for it). A parse failure counts as an LLM
  failure although `ollama.go:182` says it does not open the circuit. Passthrough raises LOW to
  MEDIUM and HIGH to CRITICAL. `Engine.Stop` cannot return while a write to the BART child is stuck
  on a full pipe.
- Publisher. After a confirm timeout every later publish of the channel is answered with an earlier
  message's confirm (`publisher.go:179`, quantified by `ConfirmsLag`). A publisher closed in the
  middle of a reconnection goes on dialling and may end the process with `log.Fatal`.
- Windows detector. Ten rules can decide no event (the exceptions of `RulesAreReachable`, and
  `DeadRulesDecideNothing`). The documents beside the server list some of them as working:
  - T1558.001 asks for the Security event 4624 in a function called for Sysmon events only, but is
    listed in `MITRE_QUICK_REFERENCE.md:55`, `MITRE_MIGRATION_COMPLETE.md:144` and
    `TECHNIQUE_MAPPING.md:74`. So does T1499.004 for 4740, listed in `TECHNIQUE_MAPPING.md:182`.
  - The agent fills `ServiceName_3` and `ServiceFileName_3` from the event data of those names
    (`ULS_Agent.ps1:695-698`). System 7036 names its service in param1, so the Defender rule sees
    none (`IMPLEMENTATION_SUMMARY.md:104`, `MITRE_MIGRATION_COMPLETE.md:354`,
    `MIGRATION_VERIFICATION_REPORT.md:72`); 7045 has its file in ImagePath, so the rule for
    suspicious services sees none either (`MIGRATION_VERIFICATION_REPORT.md:71`).
  - Three patterns with capital letters are compared with lower-cased text.
  - The CRITICAL Cobalt Strike pipes stand behind the HIGH list that contains them; T1018 and T1092
    behind other rules that always match first.

  Beside these, a command line with "anydesk" contains "des": there the LOW rule for weak ciphers
  hides the HIGH one for remote access.
- Firewall detector. An intrusion alert (HIGH) on an allowed connection to a C2 port hides the rule
  that says CRITICAL, while the comment at `firewall/detector.go:16` says highest-confidence result;
  `HighestLevelWins` shows that this is the only exception.
- Correlator v1. On `llm_pass_1` no rule fires, as the fields they test are left empty. A beacon is
  also joined by its computer's name, where that name is the firewall's source address
  (`rules.go:47`). A brute force measures the blocks from the first failure only (`rules.go:125`), so
  that with an agent's clock ahead of the server's the later failures may be further from them.
  Rows nearly a window apart are mostly missed, and the same incident is saved again each pass, as
  ON CONFLICT has no key to meet.
- Syslog receivers. A failed batch is counted dropped although some of its events are on the queue.
  A plain line with "=" but no pair, and a short CEF line, are discarded; CEF behind a syslog header
  is not taken for CEF. Datagrams that are no event skip the ticker and the signal. The Python thread
  does not drain its queue at a stop, and its `_stop` Event shadows `Thread._stop`.
- Agent. The watermark moves on whatever failed; fallback files are named after the second, a second
  one overwrites the first, and nothing reads them again; a restart looks back one interval.

`CHECK_DEADLOCK FALSE` is set everywhere because the systems may really stop: the bounds on
faults end, everything published is stored, the last window is closed, or the process has exited.

### Fairness

- `Ingest`: the broker offers a ready message again and again (strong fairness, as the prefetch
  window opens and closes); goroutines run; Go's `select` picks among ready cases at random, so a
  case that is ready again and again is taken (strong); database failures are transient (strong
  fairness of `InsertOK`); compose restarts a dead server (`docker-compose.yml`, `restart:
  unless-stopped`). Nothing is assumed of publishers, faults or the success of a dial.
- `CorrEngine`: the loop goes on and a stopped server is restarted, but a call without a deadline may
  never return (`InOpenCall`): the write to the BART child (`bart_client.go:423`), and statements, as
  they run on `e.ctx`, which has no deadline. `OpenIsClosed` names such a call as its third exception.
  `StopMidWindow.cfg` uses `PromptSpec`, where every call returns: what it shows is no matter of a
  call that hangs.
- `Watcher`: both goroutines run, calls return, `select` is fair to `ctx.Done()`.
- `BartRunner`: the classifying goroutine and Close run; the child and the readers owe nothing.
- `ScadaBridge`: of the handlers that can take a step one does, and a dial returns. A handler that
  waits for the mutex may be passed by others, but these are finitely many. Nothing of the broker.
- `SyslogReceiver`: its goroutine runs, a dial returns, and `ReadFrom` (it has a deadline) returns.
  `ReceiverStops` also needs the datagrams that are no events to be finitely many, which the bound on
  datagrams gives, and the errors of `ReadFrom` that are no timeout as well: such an error changes
  nothing and goes straight back to `ReadFrom` (`main.go:150`), so it is a stuttering step. A
  stream of either really keeps the loop from the signal.
- What `detection` runs has safety properties only.

## 4. Proofs

A theorem states an invariant (`Spec => []Inv`), what no step may do (`Spec => [][A]_vars`), or that
an abstract specification is implemented; `DeadRulesDecideNothing` is about the function `Detect`
alone. Each holds for all values of the constants that the ASSUMEs of the component's modules allow,
and nothing else is assumed. Every safety property a run checks is the statement of a theorem.
Where `MCServices` or `MCDetection` lets a behaviour choose one of several parts,
the theorem is about that part's own Init and Next, without fairness: a safety property needs none,
and it holds of the fair specifications too.

| Module | Theorem | States |
|---|---|---|
| `IngestProofs` | `TypeCorrect`, `NothingLost`, `BatchIsPending`, `NoDoubleSettlement`, `DuplicatesAreFaults`, `PipelineImplementsPromise` | `TypeOK`, `NoLoss`, `HeldIsPending`, `SettledOnce`, `DuplicatesNeedFault`, refinement of `AtLeastOnce` |
| `EngineProofs` | `EngineTypeCorrect`, `WindowDoneIsComplete`, `VerdictsAreRecorded`, `OneOwnerPerWindow`, `EngineImplementsLedger`; `AskedOncePerWindow`, `OutcomeIsFinal` | types, `DoneIsComplete`, `DecisionsRecorded`, `OpenHasOwner`, refinement of `WindowLedger`; that no window is asked about twice, and that a marked one gets no more incidents |
| `WatcherProofs` | `WatcherTypeCorrect`, `OneVerdictPerRow`, `NoGapBetweenWindows`, `EveryRowReadIsAccounted`, `BreakerOpensWhenCountedOut` | types, `PassedOnce`, `OnTimeIsRead`, `ReadIsAccounted`, `CountedOutIsOpen` |
| `CollectorProofs` | `BridgeTypeCorrect`, `ConfirmsLagByTimeouts`, `OkMeansStored`; `TotalsAreTrue`; `SophosLosesForACause` | types, `ConfirmsLag`, `OkIsStored`; `CountsTellTheTruth`; `SophosLossHasCause` |
| `BartProofs` | `BartTypeCorrect`, `VerdictsAreOwn`, `ReadersAreOwed` | types, `OwnVerdict`, `ReadersMatchAnswers` |
| `StageProofs` | `StagesTypeCorrect`, `SettledMeansInserted`, `LostForACause`; `EveryPlaceHasItsRow`, `FailedInsertsDoubleNothing`, `OnlyOwedIsInserted` | types, `SettledIsInserted`, `LossHasCause`; `NoRowMissing`, `OneRowEach`, that only what is owed is inserted |
| `DedupProofs` | `DuplicatesAreSpaced`, `CountsAddUp`, `CacheStaysBounded`, `DedupTypeCorrect` | `ReportsSpaced`, `CountsConserved`, `CacheBounded`, types |
| `DetectionProofs` | `AgentLosesForACause`; `DeadRulesDecideNothing`, `LiveRulesAreReported`, `FirstThreatWins`; `IncidentsHold`, `PassesMissNothing`, `LLMPassLinksNothing`, `SomeIsNeverLinked`; `EvidenceIsTheRows` | `AgentLossHasCause`; that no event gets the verdict of a dead rule, `RulesAreReachable`, `HighestLevelWins`; `IncidentsAreCoincidences`, `CoincidencesReported`; that nothing is linked with `USE_LLM_PASS`, and that what `missed_links` shows is so for any rows (`NeverLinked`); `TreesMatchRows` |

### The arguments

None of the properties is inductive as it stands. What each proof adds to it, and why:

- **Ingest** (`IInv`). A message leaves the broker on an Ack, and an Ack is right only if the
  message is stored: while `pc = "ack"` everything in the batch is persisted; a delivery of the
  working channel in hand is unsettled, so it is not also ready for someone else; a message in hand
  from an older channel is still in the broker, since whoever settles it through the new channel
  must hold it too. A message is in at most one place of the broker (`OnePlace`). For
  `DuplicatesNeedFault` each message has a budget of one insertion per channel opened and one per
  unheard INSERT; against it count its rows and whatever may still become a row without a new
  channel (`Budgeted`). The refinement maps inserts to `Store`, settlements to `Finish`, publishing
  to `Accept`.
- **Engine** (`EngineInv`). A claim is an INSERT that only succeeds where no row is, so a window
  without a row has no owner (`Unowned`) and one that is being worked on has exactly one
  (`Claimed`). Completeness then counts: what the owner has still to save and what is in the table
  make up the LLM's answer (`Progress`), and nothing is there for a window nobody has asked about
  (`Untouched`); this is also the refinement to `WindowLedger`. `Classified` says that the rows a
  server has classified have their decisions. That the LLM is asked once per window needs the claim
  from both sides (`AskedInv`): who has yet to ask works on a window nobody asked about, and a window
  without a row is one. An outcome is final because an incident is only saved by the owner of a
  window that is still `processing`.
- **Watcher** (`WatcherInv`). Two windows never overlap since a tick asks for later rows than the
  one before (`Clock`), so a row is in one place only, of all the places between the SELECT and the
  table (`RowsApart`). A row that was read is represented by a look-alike that is accounted for
  (`ReadLeads`), and an answer in hand plays nothing down (`NeverDown`). For the breaker: when it is
  counted out and closed, a caller is about to open or to reset it (`CountedOut`), and between the
  two stores of `RecordSuccess` only the other caller's one failure can be counted (`Closing`).
- **Publisher and bridge** (`PubInv`, `BridgeInv`). What is in flight on an open channel is one
  confirm for each publish that gave up, and one for the publish that waits (`Lag`); that needs a dead
  channel to carry nothing, `reconnect()` to run once, and a caller to wait exactly while it holds
  the mutex. Before the first timeout the one confirm in flight is therefore the caller's own
  (`OwnConfirm`), and what Publish vouched for is stored.
- **Go receiver** (`ReceiverInv`). It is the publisher's only caller (`Turn`, `NothingElse`), so an
  ack is that of the entry it waits for (`AckIsTrue`); entries before it are stored once and
  entries after it are not (`StoredSoFar`); every datagram is in one place (`InOnePlace`).
- **Python receiver** (`SophosInv`). The first of two attempts may publish the batch and still
  raise, before anything is counted; so `sent_total` is compared with what was published and is not
  in hand (`SentCounted`).
- **BART** (`BartInv`). A line says nothing about its row; that the next line is the right one
  follows from how many are owed. Until two readers race, at most one request is in the pipe
  (`OneOwed`), it belongs to the only reader (`OwedToReader`), and a reader always has something
  owed to it while the child runs (`ReaderIsOwed`).
- **Two stages** (`StageInv`). What a worker has enriched of its message, but not what it still has
  to, is on its way, inserted, or has its cause (`Worked`). That no step ever takes this away is a
  lemma of its own; each action then only has to answer for the event it moves. Which events are in
  the table says nothing of how often. `NoRowMissing` and `OneRowEach` therefore count, for each
  event, the places it has in all published messages against its rows and its places in messages
  that are still owed (in the queue or unsettled). An INSERT adds the places of its batch and settles
  the same batch, which is right only if no message of it is in a second batch, or back in the queue:
  the batches of the batcher, the channel and the writers are apart (`ApartInMemory`) and, while the
  channel is open, unsettled (`Batches`). After a lost channel the same messages wait in the queue
  and are still in memory, so a message may be inserted twice: `OneRowEach` claims equality without a
  fault, `NoRowMissing` the inequality under all of them.
- **Deduplicator** (`SpacingInv`, `CountsInv`). Each report is remembered: by an eviction after it,
  by an entry at least as young, or its window is over (`Remembered`). The counts are a sum over
  the cache and one over the reports; lemmas say how such a sum changes at one place, and that the
  entry an eviction takes takes its count with it. They need the cache to be finite
  (`CacheBounded`). No count outgrows the calls of Feed: of an entry's because each duplicate is a
  call (`Calls`), of the forgotten ones because they are part of the suppressed ones.
- **Agent** (`AgentInv`). An event between the two watermarks is still to be read, is in the list to
  send, or is kept (`NothingSkipped`); while a batch counts as sent its events are in a slice to come
  or are kept (`BatchKept`), which carries over the splitting of a batch that is too large.
- **Windows detector** (`ReachableInv`). Detect is a chain of rule functions, each a list of rules, and
  what decides is the first function with a rule that applies, by its first such rule
  (`DetectEventDecides`). A rule decides an event that shows what it asks for if no rule before it
  applies to that event. The lemmas say of each list that its rules are `Proper` (they have a
  technique, and ask for no event the function is never called for) and that an earlier rule asks for
  something an event does not show that shows just what a later one asks for (`Ordered` within a
  list, `Apart` between the lists of a chain), but for the ten dead rules: two ask for the wrong
  event, two for a `ServiceSign`, three for a `CapitalPattern`, three are `Shadowed`. That these decide nothing is proved of any
  event the agent can send, with whatever other signs.
- **Firewall detector**. The level of each rule is at most that of the ones before it, but for one pair
  (`RanksOfTheRules`): the first that applies is the highest.
- **Correlator v1** (`CoincidenceInv` and its like). A rule applied to rows of the window yields
  coincidences; a pass that has begun sees rows that do not change any more, as an insertion carries
  the time of the insertion; and a pass half way, or saving, still holds what is to be reported
  (`Halfway`, `Saving`). That nothing is linked with `USE_LLM_PASS` is proved for all rows. The
  rest of `NeverLinked` (`NeverLinkedInv`) goes through the detector: only a Sysmon event other than a
  network connection is reported as a credential dump, and such a row has no source address to
  match; a logon of type 3 is INFO, so the query leaves it out.
- **Process chains** (`ChainInv`). A tree says exactly what the first `read` rows of its host show
  (`TreesMatch`): its nodes, its edges and when a node was last seen; and a tree is still to be
  stored or is stored as it is (`Storing`).

### Assumptions

The constants are positive where the code's defaults and checks make them so (batch sizes, channel
capacities, limits, attempts), bounds on faults and clocks are any natural numbers, sets of
messages are finite. Some assumptions say more:

- `BreakerAssumption`: the threshold is at least 2. The code's is 3 (`ollama.go`). With 1 the failure
  that comes between the two stores of `RecordSuccess` alone would count the breaker out while it
  is being closed.
- `PublisherAssumption`: the holders "nobody" and "the reconnecting goroutine" are not callers.
- `WatcherAssumption`: the callers of the breaker are the watcher's two sources, as in `infer`.
- `AgentAssumption`: the clock starts after one interval, as the first query looks one interval back.
- `RowsAssumption`: the rows of the scenarios are rows the agent can send (`ULS_Agent.ps1:627-717`): the
  log is that of the event's number, of the Sysmon events only the network connection has a source
  address, a logon has one type.
- `ChainAssumption`: there is a host; without one `buildAndStoreProcessChains` returns at once.

### Only model-checked

- Liveness: `StoredUnlessStarved`, `ReconnectsAfterLoss`, `PublishedIsStoredOrAbandoned`,
  `OpenIsClosed`, `EngineStopReturns`, `StopEnds`, `SignalStops`, `EveryRequestAnswered` and
  `ReceiverStops`. They rest on fairness, which needs ENABLED, and that is out of the prover's reach.

## 5. Plan

Done: 1 ingest core; 2 correlation engine; 3 watcher and breaker; 4 publisher and bridge; 5 BART
runner, deduplicator, enrichment and DB writer; 6 detectors, correlator v1, process chains; 7 syslog
receivers and agent. Left: 8 the Python pipeline.

The safety properties of all runs are proved; liveness is left to TLC.
Compositions to come: watcher with engine over `llm_pass_1`, bridge with SCADA ingest.
One hazard has no property: the INSERT above PostgreSQL's limit, as batches are small counts here.

## 6. Not modelled

Contents of events, the texts and regular expressions of rules (a pattern is a sign an event shows
or not), prompts and JSON, the field mapping of `mapToFirewallEvent`; DDL and `initdb` scripts, the
data models, configuration loading and metrics; the installers, `ULS_Setup.ps1` and deployment
scripts; the older copy of the agent under `server_side`; the Python pipeline, a prototype of its own
that exchanges no data with the platform. `PROJECT.json` lists these under `components` with the
reason of each.
