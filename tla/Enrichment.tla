------------------------------ MODULE Enrichment ------------------------------
(***************************************************************************)
(* internal/enrichment/service.go: a receiver goroutine, a pool of workers *)
(* and a publishing goroutine, joined by two bounded channels.  A worker   *)
(* acknowledges a message when its events are in the second channel, not   *)
(* when they are published.                                                *)
(*                                                                         *)
(* A delivery is received from the broker in one step; a detection result  *)
(* is data.  A worker that finds the context done returns: it takes no     *)
(* further step.  When the consumer's channel is lost the receiver returns *)
(* and nothing subscribes again until the process is restarted.            *)
(***************************************************************************)
EXTENDS EnrichedQueue

CONSTANTS
  Source,        \* messages of the source queue
  EventsOf,      \* the events of a message
  Unparsable,    \* messages that are neither an event nor a list
  EnrichWorker,
  EventCap,      \* capacity of eventChan: Prefetch * 2 in the code
  EnrichedCap,   \* capacity of enrichedChan: Prefetch * NumWorkers
  PublishBatch,
  MaxEnrichFaults \* bound: lost channels, Stop() calls and crashes

ASSUME EnrichmentAssumption ==
  /\ EventsOf \in [Source -> Seq(Event)]
  /\ Unparsable \subseteq Source
  /\ EventCap \in Nat \ {0} /\ EnrichedCap \in Nat \ {0} /\ PublishBatch \in Nat \ {0}
  /\ MaxEnrichFaults \in Nat

VARIABLES
  srcReady,      \* messages in the source queue
  srcUnacked,    \* unsettled deliveries
  srcOpen,       \* the consumer's AMQP channel is open
  receiver,      \* the receiver goroutine: at its select, sending, or returned
  inHand,        \* the message it is sending, none or one
  eventChan,
  job,           \* per worker: the message it works on, none or one
  left,          \* per worker: the events of it still to enrich
  enrichedChan,
  pubBatch,      \* publishWorker's batch
  pubReturned,   \* publishWorker has returned
  enrichStop,    \* Stop(): context cancelled and eventChan closed
  confirmLate,   \* the confirm of a batch whose Publish gave up may still come
  enrichFaults,
  \* History
  unpublished,   \* events of a batch whose Publish returned an error
  misconfirmed,  \* events of a batch whose Publish took the confirm of another
  forgottenEvents  \* events in memory when the process ended

enrichmentVars == <<srcReady, srcUnacked, srcOpen, receiver, inHand, eventChan, job, left,
                    enrichedChan, pubBatch, pubReturned, enrichStop, enrichFaults,
                    confirmLate, unpublished, misconfirmed, forgottenEvents>>
\* What only the receiver and the source queue use.
receiverVars == <<srcReady, srcUnacked, srcOpen, receiver, inHand>>
outcomeVars == <<confirmLate, unpublished, misconfirmed>>
publishVars == <<pubBatch, pubReturned, outcomeVars>>
faultVars == <<enrichStop, enrichFaults, forgottenEvents>>

Elements(s) == {s[i] : i \in DOMAIN s}

EnrichmentTypeOK ==
  /\ srcReady \subseteq Source /\ srcUnacked \subseteq Source
  /\ srcOpen \in BOOLEAN
  /\ receiver \in {"select", "sending", "returned"}
  /\ inHand \subseteq Source
  /\ eventChan \in Seq(Source) /\ Len(eventChan) <= EventCap
  /\ job \in [EnrichWorker -> SUBSET Source]
  /\ left \in [EnrichWorker -> Seq(Event)]
  /\ enrichedChan \in Seq(Event) /\ Len(enrichedChan) <= EnrichedCap
  /\ pubBatch \in Seq(Event) /\ Len(pubBatch) < PublishBatch
  /\ pubReturned \in BOOLEAN /\ enrichStop \in BOOLEAN /\ confirmLate \in BOOLEAN
  /\ enrichFaults \in 0..MaxEnrichFaults
  /\ unpublished \subseteq Event /\ misconfirmed \subseteq Event
  /\ forgottenEvents \subseteq Event

\* A fresh process, but for the queue and the history.
FreshEnrichment ==
  /\ srcOpen' = TRUE
  /\ receiver' = "select" /\ inHand' = {}
  /\ eventChan' = <<>>
  /\ job' = [w \in EnrichWorker |-> {}]
  /\ left' = [w \in EnrichWorker |-> <<>>]
  /\ enrichedChan' = <<>>
  /\ pubBatch' = <<>> /\ pubReturned' = FALSE
  /\ enrichStop' = FALSE /\ confirmLate' = FALSE

EnrichmentInit ==
  /\ srcReady = Source /\ srcUnacked = {}
  /\ srcOpen = TRUE
  /\ receiver = "select" /\ inHand = {}
  /\ eventChan = <<>>
  /\ job = [w \in EnrichWorker |-> {}]
  /\ left = [w \in EnrichWorker |-> <<>>]
  /\ enrichedChan = <<>>
  /\ pubBatch = <<>> /\ pubReturned = FALSE
  /\ enrichStop = FALSE /\ enrichFaults = 0
  /\ confirmLate = FALSE
  /\ unpublished = {} /\ misconfirmed = {} /\ forgottenEvents = {}

\* Ack or Nack without requeue, of a channel that may be gone.
SettleSource(msgs) == srcUnacked' = IF srcOpen THEN srcUnacked \ msgs ELSE srcUnacked

----------------------------------------------------------------------------
(* receiveMessages *)

ReceiveSource(m) ==
  /\ receiver = "select" /\ srcOpen
  /\ m \in srcReady
  /\ srcReady' = srcReady \ {m}
  /\ IF m \in Unparsable
       THEN UNCHANGED <<srcUnacked, receiver, inHand>>
       ELSE srcUnacked' = srcUnacked \cup {m} /\ receiver' = "sending" /\ inHand' = {m}
  /\ UNCHANGED <<srcOpen, eventChan, job, left, enrichedChan, publishVars, faultVars>>
  /\ UNCHANGED enrichedVars

SendToWorkers ==
  /\ receiver = "sending" /\ ~enrichStop
  /\ Len(eventChan) < EventCap
  /\ eventChan' = Append(eventChan, CHOOSE m \in inHand : TRUE)
  /\ inHand' = {} /\ receiver' = "select"
  /\ UNCHANGED <<srcReady, srcUnacked, srcOpen, job, left, enrichedChan, publishVars, faultVars>>
  /\ UNCHANGED enrichedVars

\* The delivery channel is closed, or the context is done.
ReceiverReturns ==
  /\ \/ receiver = "select" /\ (~srcOpen \/ enrichStop)
     \/ receiver = "sending" /\ enrichStop
  /\ receiver' = "returned" /\ inHand' = {}
  /\ UNCHANGED <<srcReady, srcUnacked, srcOpen, eventChan, job, left, enrichedChan,
                 publishVars, faultVars>>
  /\ UNCHANGED enrichedVars

----------------------------------------------------------------------------
(* enrichmentWorker *)

Idle(w) == job[w] = {}

\* A closed channel still yields what is buffered in it.
TakeDelivery(w) ==
  /\ Idle(w) /\ eventChan # <<>>
  /\ job' = [job EXCEPT ![w] = {Head(eventChan)}]
  /\ left' = [left EXCEPT ![w] = EventsOf[Head(eventChan)]]
  /\ eventChan' = Tail(eventChan)
  /\ UNCHANGED <<receiverVars, enrichedChan, publishVars, faultVars>>
  /\ UNCHANGED enrichedVars

EnrichEvent(w) ==
  /\ left[w] # <<>>
  /\ Len(enrichedChan) < EnrichedCap
  /\ enrichedChan' = Append(enrichedChan, Head(left[w]))
  /\ left' = [left EXCEPT ![w] = Tail(@)]
  /\ UNCHANGED <<receiverVars, eventChan, job, publishVars, faultVars>>
  /\ UNCHANGED enrichedVars

\* Mutant of AckDelivery: acknowledged before its events are enriched.
AckDeliveryFirst(w) ==
  /\ ~Idle(w)
  /\ SettleSource(job[w])
  /\ job' = IF left[w] = <<>> THEN [job EXCEPT ![w] = {}] ELSE job
  /\ UNCHANGED <<srcReady, srcOpen, receiver, inHand, eventChan, left, enrichedChan,
                 publishVars, faultVars>>
  /\ UNCHANGED enrichedVars

AckDelivery(w) ==
  /\ ~Idle(w) /\ left[w] = <<>>
  /\ SettleSource(job[w])
  /\ job' = [job EXCEPT ![w] = {}]
  /\ UNCHANGED <<srcReady, srcOpen, receiver, inHand, eventChan, left, enrichedChan,
                 publishVars, faultVars>>
  /\ UNCHANGED enrichedVars

----------------------------------------------------------------------------
(* publishWorker *)

\* publishBatch, and the batch is emptied whatever Publish returned (queue/publisher.go):
\*  - nil, and the broker has the batch;
\*  - an error, whether the broker has it or not.  After a timeout, or a Stop, the confirm
\*    may still come and stays in notifyConfirm, unless the channel is replaced;
\*  - nil, on the confirm of an earlier batch that is still there: the broker has not
\*    judged this one, and does not get it or rejects it.
PublishEvents(batch) ==
  \/ BrokerStores(batch) /\ UNCHANGED outcomeVars
  \/ /\ BrokerStores(batch) \/ UNCHANGED enrichedVars
     /\ unpublished' = unpublished \cup Elements(batch)
     /\ confirmLate' \in BOOLEAN
     /\ UNCHANGED misconfirmed
  \/ /\ confirmLate
     /\ misconfirmed' = misconfirmed \cup Elements(batch)
     /\ UNCHANGED <<enrichedVars, confirmLate, unpublished>>

CollectEvent ==
  /\ ~pubReturned /\ enrichedChan # <<>>
  /\ enrichedChan' = Tail(enrichedChan)
  /\ LET batch == Append(pubBatch, Head(enrichedChan))
     IN  IF Len(batch) >= PublishBatch
           THEN PublishEvents(batch) /\ pubBatch' = <<>>
           ELSE pubBatch' = batch /\ UNCHANGED <<outcomeVars, enrichedVars>>
  /\ UNCHANGED <<receiverVars, eventChan, job, left, pubReturned, faultVars>>

PublishTick ==
  /\ ~pubReturned /\ pubBatch # <<>>
  /\ PublishEvents(pubBatch)
  /\ pubBatch' = <<>>
  /\ UNCHANGED <<receiverVars, eventChan, job, left, enrichedChan, pubReturned, faultVars>>

PublisherReturns ==
  /\ ~pubReturned /\ enrichStop
  /\ pubReturned' = TRUE
  /\ IF pubBatch # <<>> THEN PublishEvents(pubBatch) ELSE UNCHANGED <<outcomeVars, enrichedVars>>
  /\ pubBatch' = <<>>
  /\ UNCHANGED <<receiverVars, eventChan, job, left, enrichedChan, faultVars>>

----------------------------------------------------------------------------
(* Stop, faults *)

EnrichFault == enrichFaults < MaxEnrichFaults /\ enrichFaults' = enrichFaults + 1

LoseSource ==
  /\ EnrichFault /\ srcOpen
  /\ srcOpen' = FALSE
  /\ srcReady' = srcReady \cup srcUnacked
  /\ srcUnacked' = {}
  /\ UNCHANGED <<receiver, inHand, eventChan, job, left, enrichedChan, publishVars,
                 enrichStop, forgottenEvents>>
  /\ UNCHANGED enrichedVars

StopEnrichment ==
  /\ EnrichFault /\ ~enrichStop
  /\ enrichStop' = TRUE
  /\ UNCHANGED <<receiverVars, eventChan, job, left, enrichedChan, publishVars, forgottenEvents>>
  /\ UNCHANGED enrichedVars

\* The process ends: after Stop(), by a crash, or by the panic of a receiver
\* that sends on the channel Stop() has closed.  It is started again.
EnrichmentEnds ==
  /\ \/ EnrichFault
     \/ enrichStop /\ UNCHANGED enrichFaults
  /\ forgottenEvents' = forgottenEvents \cup Elements(enrichedChan) \cup Elements(pubBatch)
  /\ srcReady' = srcReady \cup srcUnacked
  /\ srcUnacked' = {}
  /\ FreshEnrichment
  /\ UNCHANGED <<unpublished, misconfirmed, enrichedVars>>

EnrichmentNext ==
  \/ \E m \in Source : ReceiveSource(m)
  \/ SendToWorkers \/ ReceiverReturns
  \/ \E w \in EnrichWorker : TakeDelivery(w) \/ EnrichEvent(w) \/ AckDelivery(w)
  \/ CollectEvent \/ PublishTick \/ PublisherReturns
  \/ LoseSource \/ StopEnrichment \/ EnrichmentEnds
=============================================================================
