-------------------------------- MODULE Ingest --------------------------------
(***************************************************************************)
(* cmd/server/main.go: one ingest pipeline, from its queue to its table.   *)
(* Pipeline selects the variant: the Windows loop inlined in main(), or    *)
(* runFirewallPipeline / runScadaPipeline, which differ from it in         *)
(*   - startup: main() calls Consume() twice and keeps the second delivery *)
(*     channel only;                                                       *)
(*   - a closed delivery channel: the Windows loop keeps its batch, the    *)
(*     other two flush it first;                                           *)
(*   - shutdown: the Windows loop owns the signal, the other two see their *)
(*     consumer closed under them.                                         *)
(***************************************************************************)
EXTENDS Consumer, FiniteSetsExt

CONSTANTS
  Pipeline,    \* "Windows", "Firewall" or "SCADA"
  Malformed,   \* messages that do not unmarshal to an event or to a list of events
  Events,      \* how many events a message carries; a JSON "[]" carries none
  BatchSize,   \* BATCH_SIZE, counted in events
  MaxStops,    \* bound: how often the process crashes or is told to stop
  MaxUnheard   \* bound: how often a committed INSERT is reported as failed

ASSUME IngestAssumption ==
  /\ Pipeline \in {"Windows", "Firewall", "SCADA"}
  /\ Malformed \subseteq Message
  /\ Events \in [Message -> Nat]
  /\ BatchSize \in Nat \ {0}
  /\ MaxStops \in Nat
  /\ MaxUnheard \in Nat

VARIABLES
  pc,          \* where the pipeline's goroutine is
  after,       \* where it goes once the current flush has settled its batch
  batch,       \* batch.msgs, each with the epoch it was delivered in
  rows,        \* how many times a message's events have been inserted
  sigPending,  \* SIGINT or SIGTERM received and not yet served
  stopping,    \* main() has begun its deferred Close calls
  stops,       \* crashes and signals so far
  unheard      \* INSERTs so far that were committed but reported as failed

loopVars == <<pc, after, batch, rows, sigPending, stopping, stops, unheard>>
vars == <<queueVars, consumerVars, loopVars>>

Delivery == [msg : Message, epoch : Nat]

\* len(batch.events)
BatchEvents(b) == MapThenSumSet(LAMBDA d : Events[d.msg], b)

\* Nothing of this message is missing from the table.
Persisted(m) == rows[m] > 0 \/ Events[m] = 0

Places == {"down", "disabled", "firstConsume", "starting", "subscribing",
           "select", "insert", "ack", "nack", "exit"}

TypeOK ==
  /\ QueueTypeOK
  /\ ConsumerTypeOK
  /\ pc \in Places
  /\ after \in {"select", "subscribing", "exit"}
  /\ batch \subseteq Delivery
  /\ rows \in [Message -> Nat]
  /\ sigPending \in BOOLEAN
  /\ stopping \in BOOLEAN
  /\ stops \in 0..MaxStops
  /\ unheard \in 0..MaxUnheard

Init ==
  /\ QueueInit
  /\ ConsumerInit
  /\ pc = "down"
  /\ after = "select"
  /\ batch = {}
  /\ rows = [m \in Message |-> 0]
  /\ sigPending = FALSE
  /\ stopping = FALSE
  /\ stops = 0
  /\ unheard = 0

----------------------------------------------------------------------------
(* The broker, the network and the reconnection goroutine *)

Broker ==
  /\ \/ \E m \in Message : Publish(m) \/ Deliver(m) \/ DeliverAbandoned(m)
     \/ LoseChannel
  /\ UNCHANGED <<consumerVars, loopVars>>

HandleReconnect ==
  /\ ReconnectBegin \/ ReconnectSucceed \/ ReconnectFail
  /\ UNCHANGED loopVars

----------------------------------------------------------------------------
(* Start of the process *)

\* NewConsumer succeeds.  A restart begins with empty memory.
Start ==
  /\ pc = "down"
  /\ NewConsumer
  /\ pc' = IF Pipeline = "Windows" THEN "firstConsume" ELSE "starting"
  /\ UNCHANGED <<published, ready, unacked, abandoned, subscribed, orphaned, inbox, losses>>
  /\ UNCHANGED <<after, batch, rows, sigPending, stopping, stops, unheard>>

\* NewConsumer fails: main() runs on without the firewall or SCADA pipeline.
\* (For Windows it is log.Fatalf, and the process stays down.)
StartWithout ==
  /\ pc = "down"
  /\ Pipeline # "Windows"
  /\ pc' = "disabled"
  /\ UNCHANGED <<queueVars, consumerVars, after, batch, rows, sigPending, stopping, stops, unheard>>

\* The Consume() call whose delivery channel is overwritten.
FirstConsume ==
  /\ pc = "firstConsume"
  /\ orphaned' = IF CanConsume THEN epoch ELSE orphaned
  /\ pc' = "starting"
  /\ UNCHANGED <<published, ready, unacked, abandoned, channel, epoch, subscribed, inbox, losses>>
  /\ UNCHANGED <<consumerVars, after, batch, rows, sigPending, stopping, stops, unheard>>

\* waitForConsume: a failed Consume() is tried again 2 s later.
WaitForConsume ==
  /\ pc \in {"starting", "subscribing"}
  /\ CanConsume
  /\ subscribed' = epoch
  /\ inbox' = {}
  /\ pc' = "select"
  /\ UNCHANGED <<published, ready, unacked, abandoned, channel, epoch, orphaned, losses>>
  /\ UNCHANGED <<consumerVars, after, batch, rows, sigPending, stopping, stops, unheard>>

----------------------------------------------------------------------------
(* The cases of the select statement *)

\* flush(), then go on at next.  With no event in the batch flush returns at
\* once and the batch keeps its messages.
FlushThen(next) ==
  IF BatchEvents(batch') > 0
    THEN pc' = "insert" /\ after' = next
    ELSE pc' = next /\ UNCHANGED after

\* A message that cannot be parsed is rejected: Nack(false, false).
RejectMalformed(m) ==
  /\ pc = "select"
  /\ m \in inbox \cap Malformed
  /\ inbox' = inbox \ {m}
  /\ Settle(m, subscribed)
  /\ UNCHANGED <<consumerVars, loopVars>>

Receive(m) ==
  /\ pc = "select"
  /\ m \in inbox \ Malformed
  /\ inbox' = inbox \ {m}
  /\ batch' = batch \cup {[msg |-> m, epoch |-> subscribed]}
  /\ IF BatchEvents(batch') >= BatchSize
       THEN FlushThen("select")
       ELSE UNCHANGED <<pc, after>>
  /\ UNCHANGED <<published, ready, unacked, abandoned, channel, epoch, subscribed, orphaned, losses>>
  /\ UNCHANGED <<consumerVars, rows, sigPending, stopping, stops, unheard>>

\* Mutant of Tick: the timer only flushes a full batch.
TickWhenFull ==
  /\ pc = "select"
  /\ BatchEvents(batch) >= BatchSize
  /\ UNCHANGED batch
  /\ FlushThen("select")
  /\ UNCHANGED <<queueVars, consumerVars, rows, sigPending, stopping, stops, unheard>>

Tick ==
  /\ pc = "select"
  /\ BatchEvents(batch) > 0
  /\ UNCHANGED batch
  /\ FlushThen("select")
  /\ UNCHANGED <<queueVars, consumerVars, rows, sigPending, stopping, stops, unheard>>

\* Mutant of DeliveriesClosed: the goroutine returns instead of subscribing again.
DeliveriesClosedReturns ==
  /\ pc = "select"
  /\ ~Live(subscribed)
  /\ subscribed' = 0
  /\ inbox' = {}
  /\ UNCHANGED batch
  /\ FlushThen("exit")
  /\ UNCHANGED <<published, ready, unacked, abandoned, channel, epoch, orphaned, losses>>
  /\ UNCHANGED <<consumerVars, rows, sigPending, stopping, stops, unheard>>

\* The delivery channel is closed; what was still buffered in it is gone.
DeliveriesClosed ==
  /\ pc = "select"
  /\ ~Live(subscribed)
  /\ subscribed' = 0
  /\ inbox' = {}
  /\ UNCHANGED batch
  /\ IF Pipeline = "Windows"
       THEN pc' = "subscribing" /\ UNCHANGED after
       ELSE FlushThen("subscribing")
  /\ UNCHANGED <<published, ready, unacked, abandoned, channel, epoch, orphaned, losses>>
  /\ UNCHANGED <<consumerVars, rows, sigPending, stopping, stops, unheard>>

----------------------------------------------------------------------------
(* flush(): one multi-row INSERT, then an Ack or a Nack per message *)

Copies(m) == Cardinality({e \in 1..epoch : [msg |-> m, epoch |-> e] \in batch})

StoreBatch == rows' = [m \in Message |-> rows[m] + Copies(m)]

InsertOK ==
  /\ pc = "insert"
  /\ StoreBatch
  /\ pc' = "ack"
  /\ UNCHANGED <<queueVars, consumerVars, after, batch, sigPending, stopping, stops, unheard>>

\* Mutant of InsertFail: the batch is acknowledged although the INSERT failed.
InsertFailAcks ==
  /\ pc = "insert"
  /\ pc' = "ack"
  /\ UNCHANGED <<queueVars, consumerVars, after, batch, rows, sigPending, stopping, stops, unheard>>

\* Mutant of InsertFail: rows are inserted one by one, and stay when a later
\* one fails.
InsertFailPartial ==
  /\ pc = "insert"
  /\ \E S \in SUBSET {m \in Message : Copies(m) > 0} :
       rows' = [m \in Message |-> IF m \in S THEN rows[m] + 1 ELSE rows[m]]
  /\ pc' = "nack"
  /\ UNCHANGED <<queueVars, consumerVars, after, batch, sigPending, stopping, stops, unheard>>

InsertFail ==
  /\ pc = "insert"
  /\ pc' = "nack"
  /\ UNCHANGED <<queueVars, consumerVars, after, batch, rows, sigPending, stopping, stops, unheard>>

\* The INSERT is committed, but its reply is lost with the connection.
InsertUnheard ==
  /\ pc = "insert"
  /\ unheard < MaxUnheard
  /\ unheard' = unheard + 1
  /\ StoreBatch
  /\ pc' = "nack"
  /\ UNCHANGED <<queueVars, consumerVars, after, batch, sigPending, stopping, stops>>

\* Mutant of Ack: Ack(true), which settles every delivery of the channel.
AckMultiple(d) ==
  /\ pc = "ack"
  /\ d \in batch
  /\ batch' = batch \ {d}
  /\ unacked' = IF Live(d.epoch) THEN {} ELSE unacked
  /\ UNCHANGED <<published, ready, abandoned, channel, epoch, subscribed, orphaned, losses, inbox>>
  /\ UNCHANGED <<consumerVars, pc, after, rows, sigPending, stopping, stops, unheard>>

Ack(d) ==
  /\ pc = "ack"
  /\ d \in batch
  /\ batch' = batch \ {d}
  /\ Settle(d.msg, d.epoch)
  /\ UNCHANGED inbox
  /\ UNCHANGED <<consumerVars, pc, after, rows, sigPending, stopping, stops, unheard>>

\* Mutant of Nack: the message stays in batch.msgs after the flush.
NackKeepsBatch(d) ==
  /\ pc = "nack"
  /\ d \in batch
  /\ pc' = after
  /\ Requeue(d.msg, d.epoch)
  /\ UNCHANGED inbox
  /\ UNCHANGED <<consumerVars, batch, after, rows, sigPending, stopping, stops, unheard>>

\* Mutant of Nack: Nack(false, false) after a failed INSERT.
NackDrops(d) ==
  /\ pc = "nack"
  /\ d \in batch
  /\ batch' = batch \ {d}
  /\ Settle(d.msg, d.epoch)
  /\ UNCHANGED inbox
  /\ UNCHANGED <<consumerVars, pc, after, rows, sigPending, stopping, stops, unheard>>

Nack(d) ==
  /\ pc = "nack"
  /\ d \in batch
  /\ batch' = batch \ {d}
  /\ Requeue(d.msg, d.epoch)
  /\ UNCHANGED inbox
  /\ UNCHANGED <<consumerVars, pc, after, rows, sigPending, stopping, stops, unheard>>

\* The batch slices are truncated and the loop goes on.
FlushDone ==
  /\ pc \in {"ack", "nack"}
  /\ batch = {}
  /\ pc' = after
  /\ UNCHANGED <<queueVars, consumerVars, after, batch, rows, sigPending, stopping, stops, unheard>>

----------------------------------------------------------------------------
(* Shutdown, crash *)

\* main() calls signal.Notify once the Windows consumer is active.
Signal ==
  /\ pc # "down"
  /\ Pipeline = "Windows" => pc \notin {"firstConsume", "starting"}
  /\ ~sigPending /\ ~stopping
  /\ stops < MaxStops
  /\ stops' = stops + 1
  /\ sigPending' = TRUE
  /\ UNCHANGED <<queueVars, consumerVars, pc, after, batch, rows, stopping, unheard>>

\* Mutant of ServeSignal: the batch is flushed but the loop does not return.
ServeSignalFlushOnly ==
  /\ Pipeline = "Windows"
  /\ pc = "select"
  /\ sigPending
  /\ UNCHANGED <<sigPending, batch>>
  /\ FlushThen("select")
  /\ UNCHANGED <<queueVars, consumerVars, rows, stopping, stops, unheard>>

\* Windows: <-sigChan is a case of the select; it flushes and returns.
ServeSignal ==
  /\ Pipeline = "Windows"
  /\ pc = "select"
  /\ sigPending
  /\ sigPending' = FALSE
  /\ UNCHANGED batch
  /\ FlushThen("exit")
  /\ UNCHANGED <<queueVars, consumerVars, rows, stopping, stops, unheard>>

\* The deferred Close() of the consumer.  For the firewall and SCADA
\* pipelines it is main()'s, whatever their own goroutine is doing.
DeferredClose ==
  /\ ~stopping
  /\ IF Pipeline = "Windows" THEN pc = "exit" ELSE sigPending /\ pc # "down"
  /\ stopping' = TRUE
  /\ sigPending' = FALSE
  /\ Close
  /\ UNCHANGED <<published, epoch, subscribed, orphaned, inbox, losses>>
  /\ UNCHANGED <<pc, after, batch, rows, stops, unheard>>

\* cancel() is main()'s last deferred call: <-ctx.Done() flushes and
\* returns, and waitForConsume gives up.
ContextDone ==
  /\ Pipeline # "Windows"
  /\ stopping
  /\ pc \in {"starting", "subscribing", "select"}
  /\ UNCHANGED batch
  /\ IF pc = "select" THEN FlushThen("exit") ELSE pc' = "exit" /\ UNCHANGED after
  /\ UNCHANGED <<queueVars, consumerVars, rows, sigPending, stopping, stops, unheard>>

\* The process is gone: memory is lost and the broker requeues.
Die ==
  /\ pc' = "down"
  /\ after' = "select"
  /\ batch' = {}
  /\ sigPending' = FALSE
  /\ stopping' = FALSE
  /\ channel' = "closed"
  /\ ready' = InBroker
  /\ unacked' = {}
  /\ abandoned' = {}
  /\ subscribed' = 0
  /\ orphaned' = 0
  /\ inbox' = {}
  /\ connected' = FALSE
  /\ handler' = "exited"
  /\ attempt' = 0
  /\ UNCHANGED <<published, epoch, losses, rows, unheard>>

\* main() returns.
Exit ==
  /\ stopping
  /\ Pipeline = "Windows" => pc = "exit"
  /\ Die
  /\ UNCHANGED stops

\* log.Fatal in reconnect().
Fatal ==
  /\ OutOfAttempts
  /\ Die
  /\ UNCHANGED stops

Crash ==
  /\ pc # "down"
  /\ stops < MaxStops
  /\ stops' = stops + 1
  /\ Die

----------------------------------------------------------------------------

Next ==
  \/ Broker
  \/ HandleReconnect
  \/ Start \/ StartWithout \/ FirstConsume \/ WaitForConsume
  \/ \E m \in Message : RejectMalformed(m) \/ Receive(m)
  \/ Tick \/ DeliveriesClosed
  \/ InsertOK \/ InsertFail \/ InsertUnheard
  \/ \E d \in batch : Ack(d) \/ Nack(d)
  \/ FlushDone
  \/ Signal \/ ServeSignal \/ DeferredClose \/ ContextDone
  \/ Exit \/ Fatal \/ Crash

Spec == Init /\ [][Next]_vars

(***************************************************************************)
(* Fairness.  The broker keeps offering ready messages (SF: the window     *)
(* opens and closes); goroutines are scheduled; Go's select picks among    *)
(* its ready cases at random, so a case that is ready again and again is   *)
(* taken (SF); an INSERT tried again and again succeeds in the end (SF: DB *)
(* failures are transient); compose restarts a dead server ("restart:      *)
(* unless-stopped").  Nothing is assumed of publishers, crashes, signals   *)
(* or losses, nor that any particular dial succeeds.                       *)
(***************************************************************************)
Fairness ==
  /\ SF_vars(\E m \in Message : Deliver(m) /\ UNCHANGED <<consumerVars, loopVars>>)
  /\ SF_vars(\E m \in Message : Receive(m) \/ RejectMalformed(m))
  /\ WF_vars(HandleReconnect)
  /\ WF_vars(Fatal)
  /\ WF_vars(Start) /\ WF_vars(FirstConsume) /\ WF_vars(WaitForConsume)
  /\ SF_vars(Tick) /\ SF_vars(DeliveriesClosed)
  /\ SF_vars(InsertOK) /\ WF_vars(InsertFail)
  /\ WF_vars(\E d \in batch : Ack(d) \/ Nack(d))
  /\ WF_vars(FlushDone)
  /\ SF_vars(ServeSignal) /\ WF_vars(DeferredClose) /\ WF_vars(Exit)

FairSpec == Spec /\ Fairness

----------------------------------------------------------------------------
(* Properties *)

\* At-least-once: a well-formed message the broker accepted is in the queue,
\* held unsettled by a subscription, or in the table; only malformed ones are
\* dropped.  (flush() acknowledges after the INSERT; README.md section 3.2.)
NoLoss ==
  \A m \in published \ Malformed : m \in InBroker \/ Persisted(m)

Promise == INSTANCE AtLeastOnce WITH
  pending <- InBroker,
  Rejectable <- Malformed,
  Blank <- {m \in Message : Events[m] = 0}

\* The pipeline implements the abstract at-least-once queue: a message leaves
\* the broker only when it is stored or malformed, and an INSERT only touches
\* messages the broker still holds.
ImplementsPromise == Promise!Spec

\* What the loop holds is still owed by the broker, even what an earlier
\* channel delivered: a batch never holds a message that was acknowledged
\* through another delivery.  So a flush never inserts a finished message.
HeldIsPending ==
  /\ \A m \in inbox : m \in InBroker
  /\ pc # "ack" => \A d \in batch : d.msg \in InBroker

\* Every Ack and Nack sent on a working channel names a delivery that is
\* still unsettled: a second settlement would make the broker close the
\* channel (PRECONDITION_FAILED).
SettledOnce ==
  /\ \A d \in batch : Live(d.epoch) => d.msg \in unacked
  /\ Live(subscribed) => /\ inbox \subseteq unacked
                         /\ \A d \in batch : d.epoch = subscribed => d.msg \notin inbox

\* Duplicate rows come from faults only: a message is inserted at most once
\* per channel ever opened, and once more per INSERT whose outcome was not
\* heard.  Redelivery after a failed INSERT alone never duplicates.
DuplicatesNeedFault == \A m \in Message : rows[m] <= epoch + unheard

\* Every event-bearing message is stored in the end, unless the pipeline was
\* disabled at start-up ("firewall pipeline disabled").
PublishedIsStored ==
  \A m \in Message \ Malformed :
    (m \in published /\ Events[m] > 0) ~> (rows[m] > 0 \/ pc = "disabled")

\* The prefetch window is taken by empty lists: they wait for an event to be
\* flushed with, and no event can be delivered.
Starved ==
  /\ pc = "select" /\ inbox = {}
  /\ Cardinality(unacked) = Prefetch /\ BatchEvents(batch) = 0

\* Every event-bearing message is stored in the end, unless the pipeline was disabled
\* or its prefetch window is filled with empty lists for ever (main.go:366-384 keeps
\* them unacknowledged until an event is flushed).
StoredUnlessStarved ==
  \A m \in Message \ Malformed :
    (m \in published /\ Events[m] > 0) ~> (rows[m] > 0 \/ pc = "disabled" \/ []Starved)

\* waitForConsume (main.go:403) tries Consume() for ever on a channel that nobody will
\* open again: the handler has served its one loss.  It never looks at the signal.
Deaf ==
  /\ pc \in {"starting", "subscribing"}
  /\ channel = "lost" /\ handler = "exited"

\* Every event-bearing message is stored in the end, unless it stays with the subscription
\* that the first Consume() of main() registered and nobody reads, or the loop waits for
\* ever for a channel after a second loss.
PublishedIsStoredOrAbandoned ==
  \A m \in Message \ Malformed :
    (m \in published /\ Events[m] > 0) ~> (rows[m] > 0 \/ m \in abandoned \/ []Deaf)

\* A lost channel is replaced, unless the process dies over it ("Survive
\* broker restarts and temporary network interruptions"; "Fail fast if
\* unrecoverable after max attempts": README.md section 4.8).
ReconnectsAfterLoss == channel = "lost" ~> (channel = "open" \/ pc = "down")

\* A signal ends the process, unless the Windows loop waits for ever for a channel after a
\* second loss: waitForConsume does not look at sigChan, and only a kill ends it.
SignalStops == sigPending ~> (pc = "down" \/ []Deaf)
=============================================================================
