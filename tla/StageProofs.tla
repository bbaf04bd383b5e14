------------------------------ MODULE StageProofs ------------------------------
(***************************************************************************)
(* Proofs about the two-stage pipeline: the enrichment service, the queue  *)
(* between and the database writer.  An event is Safe when it is on its    *)
(* way to the table, in it, or lost for one of the three causes; no step   *)
(* of any goroutine of either service takes that from an event             *)
(* (SafeEver).  LossHasCause alone is not inductive: what an               *)
(* acknowledgement may rely on is Worked.  The rows are counted with the   *)
(* writer's batches kept apart (Batches).                                  *)
(***************************************************************************)
EXTENDS TwoStage, FiniteSetTheorems, TLAPS

TwoStageSpec == TwoStageInit /\ [][TwoStageNext]_twoStageVars

\* The serial numbers tell the messages apart.
Queue ==
  /\ EnrichedTypeOK
  /\ IsFiniteSet(enriched)
  /\ \A m \in enriched : m.serial <= Cardinality(enriched)

SourceOK ==
  /\ srcReady \subseteq Source /\ srcUnacked \subseteq Source
  /\ receiver \in {"select", "sending", "returned"}
  /\ inHand \subseteq Source
  /\ receiver = "sending" => inHand # {}
  /\ eventChan \in Seq(Source) /\ Len(eventChan) <= EventCap

WorkersOK ==
  /\ job \in [EnrichWorker -> SUBSET Source]
  /\ left \in [EnrichWorker -> Seq(Event)]
  /\ enrichedChan \in Seq(Event) /\ Len(enrichedChan) <= EnrichedCap

PublishOK ==
  /\ pubBatch \in Seq(Event) /\ Len(pubBatch) < PublishBatch
  /\ unpublished \subseteq Event /\ misconfirmed \subseteq Event
  /\ forgottenEvents \subseteq Event
  /\ confirmLate => unpublished # {}

Flags ==
  /\ srcOpen \in BOOLEAN /\ pubReturned \in BOOLEAN /\ enrichStop \in BOOLEAN
  /\ confirmLate \in BOOLEAN
  /\ writerOpen \in BOOLEAN /\ batcherOn \in BOOLEAN /\ writerStop \in BOOLEAN

FaultsOK == enrichFaults \in 0..MaxEnrichFaults /\ writerFaults \in 0..MaxWriterFaults

WriteOK ==
  /\ dbRows \in [Event -> Nat]
  /\ writeBatch \subseteq enriched
  /\ writeChan \in Seq(SUBSET enriched) /\ Len(writeChan) <= WriterCap
  /\ writing \in [Writer -> SUBSET enriched]
  /\ retries \in [Writer -> 0..MaxRetries - 1]

StageTypes == Queue /\ SourceOK /\ WorkersOK /\ PublishOK /\ Flags /\ FaultsOK /\ WriteOK

Safe(e) == OnItsWay(e) \/ CauseKnown(e)

\* What a worker has enriched of its message is safe.
Worked ==
  \A w \in EnrichWorker : \A m \in job[w] : \A e \in Elements(EventsOf[m]) :
    e \in Elements(left[w]) \/ Safe(e)

StageInv == StageTypes /\ SettledIsInserted /\ Worked /\ LossHasCause

----------------------------------------------------------------------------
(* Sequences, the queue, the INSERT *)

\* What appending to a channel and taking its head do to its elements.
LEMMA Channels ==
  ASSUME NEW T, NEW s \in Seq(T)
  PROVE  /\ Elements(s) \subseteq T /\ Elements(<<>>) = {} /\ Len(s) \in Nat
         /\ \A x \in T : /\ Append(s, x) \in Seq(T) /\ Len(Append(s, x)) = Len(s) + 1
                         /\ Elements(Append(s, x)) = Elements(s) \cup {x}
         /\ s # <<>> => /\ Head(s) \in T /\ Tail(s) \in Seq(T) /\ Len(Tail(s)) < Len(s)
                        /\ Elements(s) = {Head(s)} \cup Elements(Tail(s))
<1>1. Elements(s) \subseteq T /\ Elements(<<>>) = {} /\ Len(s) \in Nat
  BY DEF Elements
<1>2. ASSUME NEW x \in T
      PROVE  /\ Append(s, x) \in Seq(T) /\ Len(Append(s, x)) = Len(s) + 1
             /\ Elements(Append(s, x)) = Elements(s) \cup {x}
  <2>1. Append(s, x) \in Seq(T) /\ Len(Append(s, x)) = Len(s) + 1
    OBVIOUS
  <2>2. Elements(s) \subseteq Elements(Append(s, x))
    BY DEF Elements
  <2>3. x \in Elements(Append(s, x))
    <3>1. Len(s) + 1 \in DOMAIN Append(s, x) /\ Append(s, x)[Len(s) + 1] = x
      OBVIOUS
    <3>2. QED
      BY <3>1 DEF Elements
  <2>4. Elements(Append(s, x)) \subseteq Elements(s) \cup {x}
    BY DEF Elements
  <2>5. QED
    BY <2>1, <2>2, <2>3, <2>4
<1>3. ASSUME s # <<>>
      PROVE  /\ Head(s) \in T /\ Tail(s) \in Seq(T) /\ Len(Tail(s)) < Len(s)
             /\ Elements(s) = {Head(s)} \cup Elements(Tail(s))
  <2>1. Head(s) \in T /\ Tail(s) \in Seq(T) /\ Len(Tail(s)) < Len(s)
    BY <1>3
  <2>2. Head(s) \in Elements(s)
    BY <1>3 DEF Elements
  <2>3. Elements(Tail(s)) \subseteq Elements(s)
    BY <1>3 DEF Elements
  <2>4. ASSUME NEW i \in DOMAIN s PROVE s[i] \in {Head(s)} \cup Elements(Tail(s))
    <3>1. CASE i = 1
      BY <3>1
    <3>2. CASE i # 1
      <4>1. i - 1 \in DOMAIN Tail(s) /\ Tail(s)[i - 1] = s[i]
        BY <1>3, <3>2
      <4>2. QED
        BY <4>1 DEF Elements
    <3>3. QED
      BY <3>1, <3>2
  <2>5. QED
    BY <2>1, <2>2, <2>3, <2>4 DEF Elements
<1>4. QED
  BY <1>1, <1>2, <1>3

\* A batch the broker takes is a message of its own, and waits in the queue.
LEMMA Stored ==
  ASSUME Queue, NEW batch \in Seq(Event), BrokerStores(batch)
  PROVE  /\ Queue'
         /\ enriched \subseteq enriched' /\ waiting \subseteq waiting' /\ delivered' = delivered
         /\ enriched' \ waiting' \subseteq enriched \ waiting
         /\ \E m \in waiting' : m.events = batch
<1> DEFINE msg == [serial |-> Cardinality(enriched) + 1, events |-> batch]
<1>1. enriched' = enriched \cup {msg} /\ waiting' = waiting \cup {msg} /\ delivered' = delivered
  BY DEF BrokerStores
<1>2. Cardinality(enriched) \in Nat
  BY FS_CardinalityType DEF Queue
<1>3. msg.serial = Cardinality(enriched) + 1 /\ msg.events = batch /\ msg \in EnrichedMessage
  BY <1>2 DEF EnrichedMessage
<1>4. \A m \in enriched : m.serial \in Nat /\ m.serial <= Cardinality(enriched)
  BY DEF Queue, EnrichedTypeOK, EnrichedMessage
<1>5. msg \notin enriched
  BY <1>2, <1>3, <1>4
<1>6. IsFiniteSet(enriched') /\ Cardinality(enriched') = Cardinality(enriched) + 1
  BY <1>1, <1>5, FS_AddElement DEF Queue
<1>7. EnrichedTypeOK'
  BY <1>1, <1>3, <1>5 DEF Queue, EnrichedTypeOK
<1>8. \A m \in enriched' : m.serial <= Cardinality(enriched')
  <2>1. ASSUME NEW m \in enriched PROVE m.serial <= Cardinality(enriched) + 1
    BY <1>2, <1>4
  <2>2. QED
    BY <1>1, <1>2, <1>3, <1>6, <2>1
<1>9. QED
  BY <1>1, <1>3, <1>6, <1>7, <1>8 DEF Queue

\* The values of a function on a finite set are finitely many.
LEMMA FiniteImage ==
  ASSUME NEW S, IsFiniteSet(S), NEW f, f = [x \in S |-> f[x]]
  PROVE  IsFiniteSet({f[x] : x \in S})
<1> DEFINE R == {f[x] : x \in S}
<1>1. f \in [S -> R]
  OBVIOUS
<1>2. \A y \in R : \E x \in S : f[x] = y
  OBVIOUS
<1>3. f \in Surjection(S, R)
  BY <1>1, <1>2 DEF Surjection
<1>4. QED
  BY <1>3, FS_Surjection

\* An event stands in the messages of a batch a number of times, and in those of two
\* batches with no message in common as often as in both together.
LEMMA Counted ==
  ASSUME NEW all, IsFiniteSet(all), all \subseteq EnrichedMessage, NEW e
  PROVE  /\ \A batch \in SUBSET all :
              IsFiniteSet(Occurrences(e, batch)) /\ Cardinality(Occurrences(e, batch)) \in Nat
         /\ \A a, b \in SUBSET all : a \cap b = {} =>
              Cardinality(Occurrences(e, a \cup b)) =
                Cardinality(Occurrences(e, a)) + Cardinality(Occurrences(e, b))
<1>1. ASSUME NEW batch \in SUBSET all
      PROVE  IsFiniteSet(Occurrences(e, batch)) /\ Cardinality(Occurrences(e, batch)) \in Nat
  <2> DEFINE Of(m) == {<<m, i>> : i \in {j \in DOMAIN m.events : m.events[j] = e}}
  <2>1. IsFiniteSet(batch)
    BY FS_Subset
  <2>2. \A m \in batch : IsFiniteSet(Of(m))
    <3>1. ASSUME NEW m \in batch PROVE IsFiniteSet(Of(m))
      <4>1. m.events \in Seq(Event)
        BY DEF EnrichedMessage
      <4>2. DOMAIN m.events = 1..Len(m.events) /\ Len(m.events) \in Nat
        BY <4>1
      <4>3. IsFiniteSet(1..Len(m.events))
        BY <4>2, FS_Interval
      <4> DEFINE P == {j \in DOMAIN m.events : m.events[j] = e}
                 f == [i \in P |-> <<m, i>>]
      <4>4. IsFiniteSet(P)
        BY <4>2, <4>3, FS_Subset
      <4>5. f = [i \in P |-> f[i]] /\ Of(m) = {f[i] : i \in P}
        OBVIOUS
      <4> HIDE DEF P, f
      <4>6. IsFiniteSet({f[i] : i \in P})
        BY <4>4, <4>5, FiniteImage
      <4>7. QED
        BY <4>5, <4>6
    <3>2. QED
      BY <3>1
  <2>3. Occurrences(e, batch) = UNION {Of(m) : m \in batch}
    BY DEF Occurrences
  <2>4. IsFiniteSet({Of(m) : m \in batch})
    <3> DEFINE f == [m \in batch |-> Of(m)]
    <3>1. f = [m \in batch |-> f[m]] /\ {Of(m) : m \in batch} = {f[m] : m \in batch}
      OBVIOUS
    <3> HIDE DEF Of, f
    <3>2. IsFiniteSet({f[m] : m \in batch})
      BY <2>1, <3>1, FiniteImage
    <3>3. QED
      BY <3>1, <3>2
  <2>5. IsFiniteSet(Occurrences(e, batch))
    <3> DEFINE Parts == {Of(m) : m \in batch}
    <3>1. \A T \in Parts : IsFiniteSet(T)
      BY <2>2
    <3>2. IsFiniteSet(Parts)
      BY <2>4
    <3> HIDE DEF Parts
    <3>3. IsFiniteSet(UNION Parts)
      BY <3>1, <3>2, FS_UNION
    <3>4. QED
      BY <2>3, <3>3 DEF Parts
  <2>6. QED
    BY <2>5, FS_CardinalityType
<1>2. ASSUME NEW a \in SUBSET all, NEW b \in SUBSET all, a \cap b = {}
      PROVE  Cardinality(Occurrences(e, a \cup b)) =
               Cardinality(Occurrences(e, a)) + Cardinality(Occurrences(e, b))
  <2>1. Occurrences(e, a \cup b) = Occurrences(e, a) \cup Occurrences(e, b)
    BY DEF Occurrences
  <2>2. Occurrences(e, a) \cap Occurrences(e, b) = {}
    <3>1. \A s : \A p \in Occurrences(e, s) : p[1] \in s
      BY DEF Occurrences
    <3>2. QED
      BY <1>2, <3>1
  <2>3. IsFiniteSet(Occurrences(e, a)) /\ IsFiniteSet(Occurrences(e, b))
    BY <1>1
  <2>4. ASSUME NEW S, NEW T, IsFiniteSet(S), IsFiniteSet(T), S \cap T = {}
        PROVE  Cardinality(S \cup T) = Cardinality(S) + Cardinality(T)
    <3>1. Cardinality(S \cap T) = 0
      BY <2>4, FS_EmptySet
    <3>2. Cardinality(S) \in Nat /\ Cardinality(T) \in Nat
      BY <2>4, FS_CardinalityType
    <3>3. Cardinality(S \cup T) = Cardinality(S) + Cardinality(T) - Cardinality(S \cap T)
      BY <2>4, FS_Union
    <3>4. QED
      BY <3>1, <3>2, <3>3
  <2>5. QED
    BY <2>1, <2>2, <2>3, <2>4
<1>3. QED
  BY <1>1, <1>2

\* The INSERT of a batch puts every event of it in the table.
LEMMA Inserted ==
  ASSUME Queue, dbRows \in [Event -> Nat], NEW batch \in SUBSET enriched, InsertRows(batch)
  PROVE  /\ dbRows' \in [Event -> Nat]
         /\ \A e \in Event : dbRows'[e] >= dbRows[e]
         /\ \A m \in batch : \A e \in Elements(m.events) : dbRows'[e] > 0
<1>1. ASSUME NEW e \in Event
      PROVE  /\ Cardinality(Occurrences(e, batch)) \in Nat
             /\ \A m \in batch : e \in Elements(m.events) => Cardinality(Occurrences(e, batch)) # 0
  <2>1. IsFiniteSet(Occurrences(e, batch)) /\ Cardinality(Occurrences(e, batch)) \in Nat
    BY Counted DEF Queue, EnrichedTypeOK
  <2>2. ASSUME NEW m \in batch, e \in Elements(m.events) PROVE Cardinality(Occurrences(e, batch)) # 0
    <3>1. PICK i \in DOMAIN m.events : m.events[i] = e
      BY <2>2 DEF Elements
    <3>2. <<m, i>> \in Occurrences(e, batch)
      BY <3>1 DEF Occurrences
    <3>3. QED
      BY <2>1, <3>2, FS_EmptySet
  <2>3. QED
    BY <2>1, <2>2
<1>2. \A e \in Event : dbRows'[e] = dbRows[e] + Cardinality(Occurrences(e, batch))
  BY DEF InsertRows
<1>3. dbRows' \in [Event -> Nat]
  BY <1>1 DEF InsertRows
<1>4. \A e \in Event : dbRows'[e] >= dbRows[e]
  BY <1>1, <1>2
<1>5. ASSUME NEW m \in batch, NEW e \in Elements(m.events) PROVE dbRows'[e] > 0
  <2>1. e \in Event
    BY Channels DEF Queue, EnrichedTypeOK, EnrichedMessage
  <2>2. QED
    BY <1>1, <1>2, <1>5, <2>1
<1>6. QED
  BY <1>3, <1>4, <1>5

----------------------------------------------------------------------------
(* What a step of one service leaves of the other's, and of an event's safety *)

\* An event is safe for as long as the places it is safe in hand it on.
LEMMA SafeEver ==
  ASSUME dbRows \in [Event -> Nat], dbRows' \in [Event -> Nat], \A e \in Event : dbRows'[e] >= dbRows[e],
         \A e \in Elements(enrichedChan) \cup Elements(pubBatch) : Safe(e)',
         \A m \in waiting \cup delivered : \A e \in Elements(m.events) : Safe(e)',
         unpublished \subseteq unpublished', misconfirmed \subseteq misconfirmed',
         forgottenEvents \subseteq forgottenEvents'
  PROVE  \A e \in Event : Safe(e) => Safe(e)'
<1>1. ASSUME NEW e \in Event, Safe(e) PROVE Safe(e)'
  <2>1. CASE dbRows[e] > 0
    <3>1. dbRows'[e] > 0
      BY <2>1
    <3>2. QED
      BY <3>1 DEF Safe, OnItsWay, CauseKnown
  <2>2. CASE CauseKnown(e)
    BY <2>2 DEF Safe, CauseKnown
  <2>3. QED
    BY <1>1, <2>1, <2>2 DEF Safe, OnItsWay, CauseKnown
<1>2. QED
  BY <1>1

LEMMA WriterSide ==
  ASSUME StageInv, UNCHANGED writerVars, UNCHANGED enrichedVars
  PROVE  /\ Queue' /\ WriteOK' /\ SettledIsInserted'
         /\ UNCHANGED <<writerOpen, batcherOn, writerStop, writerFaults, enriched, waiting, delivered, dbRows>>
<1>1. UNCHANGED <<enriched, waiting, delivered>>
  BY DEF enrichedVars
<1>2. UNCHANGED <<dbRows, writerOpen, batcherOn, writeBatch, writeChan, writing, retries, writerStop, writerFaults>>
  BY DEF writerVars
<1>3. Queue' /\ WriteOK'
  BY <1>1, <1>2 DEF StageInv, StageTypes, Queue, EnrichedTypeOK, WriteOK
<1>4. SettledIsInserted'
  BY <1>1, <1>2 DEF StageInv, SettledIsInserted
<1>5. QED
  BY <1>1, <1>2, <1>3, <1>4

LEMMA EnrichmentSide ==
  ASSUME StageInv, UNCHANGED enrichmentVars, \A e \in Event : Safe(e) => Safe(e)'
  PROVE  /\ SourceOK' /\ WorkersOK' /\ PublishOK' /\ Worked' /\ LossHasCause'
         /\ UNCHANGED <<srcOpen, pubReturned, enrichStop, confirmLate, enrichFaults>>
<1>1. UNCHANGED <<srcReady, srcUnacked, srcOpen, receiver, inHand, eventChan, job, left, enrichedChan, pubBatch,
                  pubReturned, enrichStop, enrichFaults, confirmLate, unpublished, misconfirmed, forgottenEvents>>
  BY DEF enrichmentVars
<1>2. SourceOK' /\ WorkersOK' /\ PublishOK'
  BY <1>1 DEF StageInv, StageTypes, SourceOK, WorkersOK, PublishOK
<1>3. \A m \in Source : Elements(EventsOf[m]) \subseteq Event
  BY EnrichmentAssumption, Channels DEF EnrichmentAssumption
<1>4. Worked'
  <2>1. \A w \in EnrichWorker : job[w] \subseteq Source
    BY DEF StageInv, StageTypes, WorkersOK
  <2>2. QED
    BY <1>1, <1>3, <2>1 DEF StageInv, Worked
<1>5. LossHasCause'
  <2>1. Acknowledged' = Acknowledged /\ Acknowledged \subseteq Source
    BY <1>1 DEF Acknowledged
  <2>2. \A m \in Acknowledged : \A e \in Elements(EventsOf[m]) : Safe(e)
    BY DEF StageInv, LossHasCause, Safe
  <2>3. \A m \in Acknowledged : \A e \in Elements(EventsOf[m]) : Safe(e)'
    BY <1>3, <2>1, <2>2
  <2>4. QED
    BY <2>1, <2>3 DEF LossHasCause, Safe
<1>6. QED
  BY <1>1, <1>2, <1>4, <1>5

\* While the service only receives and hands on, nothing is added to what is acknowledged.
LEMMA NothingSettled ==
  ASSUME StageInv, \A e \in Event : Safe(e) => Safe(e)', Acknowledged' \subseteq Acknowledged
  PROVE  LossHasCause'
<1>1. \A m \in Source : Elements(EventsOf[m]) \subseteq Event
  BY EnrichmentAssumption, Channels DEF EnrichmentAssumption
<1>2. \A m \in Acknowledged : m \in Source /\ \A e \in Elements(EventsOf[m]) : Safe(e)
  BY DEF StageInv, LossHasCause, Safe, Acknowledged
<1>3. \A m \in Acknowledged' : \A e \in Elements(EventsOf[m]) : Safe(e)'
  BY <1>1, <1>2
<1>4. QED
  BY <1>3 DEF LossHasCause, Safe

----------------------------------------------------------------------------
(* The enrichment service *)

\* The receiver: a message is in the queue, unsettled, or was never parsable.
LEMMA SourceStep ==
  ASSUME StageInv, UNCHANGED writerVars,
         (\E m \in Source : ReceiveSource(m)) \/ SendToWorkers \/ ReceiverReturns
  PROVE  StageInv'
<1> USE DEF StageInv, StageTypes
<1>1. UNCHANGED enrichedVars
  BY DEF ReceiveSource, SendToWorkers, ReceiverReturns
<1>2. UNCHANGED <<srcOpen, job, left, enrichedChan, pubBatch, pubReturned, confirmLate, unpublished, misconfirmed, enrichStop, enrichFaults,
                  forgottenEvents>>
  BY DEF ReceiveSource, SendToWorkers, ReceiverReturns, publishVars, outcomeVars, faultVars
<1>3. /\ Queue' /\ WriteOK' /\ SettledIsInserted'
      /\ UNCHANGED <<writerOpen, batcherOn, writerStop, writerFaults, enriched, waiting, delivered, dbRows>>
  BY <1>1, WriterSide
<1>4. WorkersOK' /\ PublishOK'
  BY <1>2 DEF WorkersOK, PublishOK
<1>5. Flags' /\ FaultsOK'
  BY <1>2, <1>3 DEF Flags, FaultsOK
<1>6. SourceOK' /\ Acknowledged' \subseteq Acknowledged
  <2>1. CASE \E m \in Source : ReceiveSource(m)
    BY <2>1 DEF ReceiveSource, SourceOK, Acknowledged
  <2>2. CASE SendToWorkers
    <3>1. (CHOOSE m \in inHand : TRUE) \in Source
      BY <2>2 DEF SendToWorkers, SourceOK
    <3>2. UNCHANGED <<srcReady, srcUnacked>> /\ inHand' = {} /\ receiver' = "select"
      BY <2>2 DEF SendToWorkers
    <3>3. eventChan' \in Seq(Source) /\ Len(eventChan') = Len(eventChan) + 1 /\ Len(eventChan) \in Nat
      BY <2>2, <3>1, Channels DEF SendToWorkers, SourceOK
    <3>4. Len(eventChan') <= EventCap
      BY <2>2, <3>3, EnrichmentAssumption DEF SendToWorkers, EnrichmentAssumption
    <3>5. QED
      BY <3>2, <3>3, <3>4 DEF SourceOK, Acknowledged
  <2>3. CASE ReceiverReturns
    BY <2>3 DEF ReceiverReturns, SourceOK, Acknowledged
  <2>4. QED
    BY <2>1, <2>2, <2>3
<1>7. \A e \in Event : Safe(e) => Safe(e)'
  BY <1>2, <1>3 DEF Safe, OnItsWay, CauseKnown
<1>8. Worked'
  BY <1>2, <1>3 DEF Worked, Safe, OnItsWay, CauseKnown
<1>9. LossHasCause'
  BY <1>6, <1>7, NothingSettled
<1>10. QED
  BY <1>3, <1>4, <1>5, <1>6, <1>8, <1>9

\* A worker: its message is acknowledged when all its events are in the second channel.
LEMMA WorkerStep ==
  ASSUME StageInv, UNCHANGED writerVars,
         NEW w \in EnrichWorker, TakeDelivery(w) \/ EnrichEvent(w) \/ AckDelivery(w)
  PROVE  StageInv'
<1> USE DEF StageInv, StageTypes
<1>1. UNCHANGED enrichedVars
  BY DEF TakeDelivery, EnrichEvent, AckDelivery
<1>2. UNCHANGED <<srcReady, srcOpen, receiver, inHand, pubBatch, pubReturned, confirmLate, unpublished, misconfirmed, enrichStop, enrichFaults,
                  forgottenEvents>>
  BY DEF TakeDelivery, EnrichEvent, AckDelivery, receiverVars, publishVars, outcomeVars, faultVars
<1>3. /\ Queue' /\ WriteOK' /\ SettledIsInserted'
      /\ UNCHANGED <<writerOpen, batcherOn, writerStop, writerFaults, enriched, waiting, delivered, dbRows>>
  BY <1>1, WriterSide
<1>4. PublishOK'
  BY <1>2 DEF PublishOK
<1>5. Flags' /\ FaultsOK'
  BY <1>2, <1>3 DEF Flags, FaultsOK
<1>6. \A m \in Source : EventsOf[m] \in Seq(Event) /\ Elements(EventsOf[m]) \subseteq Event
  BY EnrichmentAssumption, Channels DEF EnrichmentAssumption
<1>7. CASE TakeDelivery(w)
  <2>1. /\ Head(eventChan) \in Source /\ eventChan' \in Seq(Source) /\ Len(eventChan') < Len(eventChan)
        /\ Len(eventChan) \in Nat /\ Len(eventChan') \in Nat
    BY <1>7, Channels DEF TakeDelivery, SourceOK
  <2>2. UNCHANGED <<srcUnacked, enrichedChan>>
    BY <1>7 DEF TakeDelivery, receiverVars
  <2>3. SourceOK'
    BY <1>2, <2>1, <2>2, EnrichmentAssumption DEF SourceOK, EnrichmentAssumption
  <2>4. job' = [job EXCEPT ![w] = {Head(eventChan)}] /\ left' = [left EXCEPT ![w] = EventsOf[Head(eventChan)]]
    BY <1>7 DEF TakeDelivery
  <2>5. WorkersOK'
    BY <1>6, <2>1, <2>2, <2>4 DEF WorkersOK
  <2>6. \A e \in Event : Safe(e) => Safe(e)'
    BY <1>2, <1>3, <2>2 DEF Safe, OnItsWay, CauseKnown
  <2>7. LossHasCause'
    BY <1>2, <2>2, <2>6, NothingSettled DEF Acknowledged
  <2>8. Worked'
    <3>1. ASSUME NEW v \in EnrichWorker, NEW m \in job'[v], NEW e \in Elements(EventsOf[m])
          PROVE  e \in Elements(left'[v]) \/ Safe(e)'
      <4>1. CASE v = w
        BY <2>4, <3>1, <4>1 DEF WorkersOK
      <4>2. CASE v # w
        <5>1. m \in job[v] /\ left'[v] = left[v] /\ m \in Source
          BY <2>4, <3>1, <4>2 DEF WorkersOK
        <5>2. QED
          BY <1>6, <2>6, <3>1, <5>1 DEF Worked
      <4>3. QED
        BY <4>1, <4>2
    <3>2. QED
      BY <3>1 DEF Worked
  <2>9. QED
    BY <1>3, <1>4, <1>5, <2>3, <2>5, <2>7, <2>8
<1>8. CASE EnrichEvent(w)
  <2>1. /\ left[w] # <<>> /\ Len(enrichedChan) < EnrichedCap
        /\ enrichedChan' = Append(enrichedChan, Head(left[w]))
        /\ left' = [left EXCEPT ![w] = Tail(left[w])]
        /\ UNCHANGED <<srcUnacked, eventChan, job>>
    BY <1>8 DEF EnrichEvent, receiverVars
  <2>2. /\ Head(left[w]) \in Event /\ Tail(left[w]) \in Seq(Event)
        /\ Elements(left[w]) = {Head(left[w])} \cup Elements(Tail(left[w]))
    BY <2>1, Channels DEF WorkersOK
  <2>3. /\ enrichedChan' \in Seq(Event) /\ Len(enrichedChan') = Len(enrichedChan) + 1 /\ Len(enrichedChan) \in Nat
        /\ Elements(enrichedChan') = Elements(enrichedChan) \cup {Head(left[w])}
    BY <2>1, <2>2, Channels DEF WorkersOK
  <2>4. SourceOK'
    BY <1>2, <2>1 DEF SourceOK
  <2>5. WorkersOK'
    BY <2>1, <2>2, <2>3, EnrichmentAssumption DEF WorkersOK, EnrichmentAssumption
  <2>6. \A e \in Event : Safe(e) => Safe(e)'
    BY <1>2, <1>3, <2>3 DEF Safe, OnItsWay, CauseKnown
  <2>7. LossHasCause'
    BY <1>2, <2>1, <2>6, NothingSettled DEF Acknowledged
  <2>8. PICK h \in Event : h = Head(left[w])
    BY <2>2
  <2>9. Safe(h)'
    BY <2>3, <2>8 DEF Safe, OnItsWay, CauseKnown
  <2>10. Worked'
    <3>1. ASSUME NEW v \in EnrichWorker, NEW m \in job'[v], NEW e \in Elements(EventsOf[m])
          PROVE  e \in Elements(left'[v]) \/ Safe(e)'
      <4>1. m \in job[v] /\ m \in Source /\ e \in Event
        BY <1>6, <2>1, <3>1 DEF WorkersOK
      <4>2. e \in Elements(left[v]) \/ Safe(e)
        BY <4>1, <3>1 DEF Worked
      <4>3. CASE v = w /\ e \in Elements(left[v])
        <5>1. left'[w] = Tail(left[w])
          BY <2>1 DEF WorkersOK
        <5>2. e = Head(left[w]) \/ e \in Elements(left'[w])
          BY <2>2, <4>3, <5>1
        <5>3. CASE e = Head(left[w])
          BY <2>8, <2>9, <5>3
        <5>4. QED
          BY <4>3, <5>2, <5>3
      <4>4. CASE v # w
        BY <2>1, <2>6, <4>1, <4>2, <4>4 DEF WorkersOK
      <4>5. QED
        BY <2>6, <4>1, <4>2, <4>3, <4>4
    <3>2. QED
      BY <3>1 DEF Worked
  <2>11. QED
    BY <1>3, <1>4, <1>5, <2>4, <2>5, <2>7, <2>10
<1>9. CASE AckDelivery(w)
  <2>1. /\ left[w] = <<>> /\ SettleSource(job[w])
        /\ job' = [job EXCEPT ![w] = {}]
        /\ UNCHANGED <<eventChan, left, enrichedChan>>
    BY <1>9 DEF AckDelivery
  <2>2. SourceOK'
    BY <1>2, <2>1 DEF SourceOK, SettleSource
  <2>3. WorkersOK'
    BY <2>1 DEF WorkersOK
  <2>4. \A e \in Event : Safe(e) => Safe(e)'
    BY <1>2, <1>3, <2>1 DEF Safe, OnItsWay, CauseKnown
  <2>5. \A m \in job[w] : \A e \in Elements(EventsOf[m]) : Safe(e)
    <3>1. Elements(left[w]) = {}
      BY <2>1, Channels DEF WorkersOK
    <3>2. QED
      BY <3>1 DEF Worked
  <2>6. Acknowledged' \subseteq Acknowledged \cup job[w]
    BY <1>2, <2>1 DEF Acknowledged, SettleSource
  <2>7. LossHasCause'
    <3>1. \A m \in Acknowledged \cup job[w] : m \in Source /\ \A e \in Elements(EventsOf[m]) : Safe(e)
      BY <2>5 DEF LossHasCause, Safe, Acknowledged, WorkersOK
    <3>2. \A m \in Acknowledged' : \A e \in Elements(EventsOf[m]) : Safe(e)'
      BY <1>6, <2>4, <2>6, <3>1
    <3>3. QED
      BY <3>2 DEF LossHasCause, Safe
  <2>8. Worked'
    <3>1. ASSUME NEW v \in EnrichWorker, NEW m \in job'[v], NEW e \in Elements(EventsOf[m])
          PROVE  e \in Elements(left'[v]) \/ Safe(e)'
      <4>1. m \in job[v] /\ m \in Source /\ left'[v] = left[v]
        BY <2>1, <3>1 DEF WorkersOK
      <4>2. QED
        BY <1>6, <2>4, <3>1, <4>1 DEF Worked
    <3>2. QED
      BY <3>1 DEF Worked
  <2>9. QED
    BY <1>3, <1>4, <1>5, <2>2, <2>3, <2>7, <2>8
<1>10. QED
  BY <1>7, <1>8, <1>9

\* What a Publish writes down.
Reported ==
  /\ confirmLate' \in BOOLEAN
  /\ confirmLate' => unpublished' # {}
  /\ unpublished \subseteq unpublished' /\ unpublished' \subseteq Event
  /\ misconfirmed \subseteq misconfirmed' /\ misconfirmed' \subseteq Event

\* Whatever became of a Publish, its events are with the broker or accounted for, and the
\* queue owes what it owed.
LEMMA Published ==
  ASSUME StageInv, UNCHANGED writerVars, NEW batch \in Seq(Event), batch # <<>>, PublishEvents(batch)
  PROVE  /\ Queue' /\ WriteOK' /\ SettledIsInserted'
         /\ UNCHANGED <<writerOpen, batcherOn, writerStop, writerFaults, dbRows>>
         /\ waiting \subseteq waiting' /\ delivered' = delivered
         /\ Reported
         /\ \A e \in Elements(batch) : CauseKnown(e)' \/ \E m \in waiting' : e \in Elements(m.events)
<1> USE DEF StageInv, StageTypes
<1>1. UNCHANGED <<dbRows, writerOpen, batcherOn, writeBatch, writeChan, writing, retries, writerStop, writerFaults>>
  BY DEF writerVars
<1>2. Elements(batch) \subseteq Event /\ Elements(batch) # {}
  <2>1. 1 \in DOMAIN batch
    OBVIOUS
  <2>2. QED
    BY <2>1, Channels DEF Elements
<1>3. /\ Reported
      /\ \/ BrokerStores(batch)
         \/ UNCHANGED enrichedVars /\ \A e \in Elements(batch) : CauseKnown(e)'
  <2>1. CASE BrokerStores(batch) /\ UNCHANGED outcomeVars
    BY <2>1, Zenon DEF outcomeVars, PublishOK, Flags, Reported
  <2>2. CASE /\ BrokerStores(batch) \/ UNCHANGED enrichedVars
             /\ unpublished' = unpublished \cup Elements(batch)
             /\ confirmLate' \in BOOLEAN
             /\ UNCHANGED misconfirmed
    BY <1>2, <2>2 DEF Reported, PublishOK, CauseKnown
  <2>3. CASE /\ confirmLate
             /\ misconfirmed' = misconfirmed \cup Elements(batch)
             /\ UNCHANGED <<enrichedVars, confirmLate, unpublished>>
    BY <1>2, <2>3 DEF Reported, PublishOK, Flags, CauseKnown
  <2>4. QED
    BY <2>1, <2>2, <2>3 DEF PublishEvents
<1>4. CASE UNCHANGED enrichedVars /\ \A e \in Elements(batch) : CauseKnown(e)'
  <2>1. UNCHANGED <<enriched, waiting, delivered>>
    BY <1>4 DEF enrichedVars
  <2>2. Queue' /\ WriteOK' /\ SettledIsInserted'
    BY <1>4, WriterSide
  <2>3. QED
    BY <1>1, <1>3, <1>4, <2>1, <2>2
<1>5. CASE BrokerStores(batch)
  <2>1. /\ Queue' /\ enriched \subseteq enriched' /\ waiting \subseteq waiting' /\ delivered' = delivered
        /\ enriched' \ waiting' \subseteq enriched \ waiting
        /\ \E m \in waiting' : m.events = batch
    BY <1>5, Stored
  <2>2. WriteOK'
    <3>1. SUBSET enriched \subseteq SUBSET enriched'
      BY <2>1
    <3>2. writeChan \in Seq(SUBSET enriched')
      <4>1. writeChan \in Seq(SUBSET enriched)
        BY DEF WriteOK
      <4>2. \A i \in 1..Len(writeChan) : writeChan[i] \in SUBSET enriched'
        BY <3>1, <4>1
      <4>3. QED
        BY <4>1, <4>2
    <3>3. writing \in [Writer -> SUBSET enriched']
      BY <3>1 DEF WriteOK
    <3>4. writeBatch \subseteq enriched'
      BY <2>1 DEF WriteOK
    <3>5. QED
      BY <1>1, <3>2, <3>3, <3>4 DEF WriteOK
  <2>3. SettledIsInserted'
    <3>1. enriched' \ (waiting' \cup delivered') \subseteq enriched \ (waiting \cup delivered)
      BY <2>1
    <3>2. QED
      BY <1>1, <3>1 DEF SettledIsInserted
  <2>4. \A e \in Elements(batch) : \E m \in waiting' : e \in Elements(m.events)
    BY <2>1
  <2>5. QED
    BY <1>1, <1>3, <2>1, <2>2, <2>3, <2>4
<1>6. QED
  BY <1>3, <1>4, <1>5

\* The publishing goroutine: an event leaves its memory for the queue, or is accounted for.
LEMMA PublisherStep ==
  ASSUME StageInv, UNCHANGED writerVars, CollectEvent \/ PublishTick \/ PublisherReturns
  PROVE  StageInv'
<1> USE DEF StageInv, StageTypes
<1>1. UNCHANGED <<srcReady, srcUnacked, srcOpen, receiver, inHand, eventChan, job, left, enrichStop, enrichFaults,
                  forgottenEvents>>
  BY DEF CollectEvent, PublishTick, PublisherReturns, receiverVars, faultVars
<1>2. PICK batch \in Seq(Event) :
        /\ enrichedChan' \in Seq(Event) /\ Len(enrichedChan') <= Len(enrichedChan)
        /\ Len(enrichedChan) \in Nat /\ Len(enrichedChan') \in Nat
        /\ Elements(enrichedChan) \cup Elements(pubBatch) \subseteq Elements(enrichedChan') \cup Elements(batch)
        /\ \/ batch # <<>> /\ PublishEvents(batch) /\ pubBatch' = <<>>
           \/ pubBatch' = batch /\ Len(batch) < PublishBatch /\ UNCHANGED <<outcomeVars, enrichedVars>>
  <2>1. CASE CollectEvent
    <3>1. /\ Head(enrichedChan) \in Event /\ Tail(enrichedChan) \in Seq(Event)
          /\ Len(Tail(enrichedChan)) < Len(enrichedChan) /\ Len(enrichedChan) \in Nat
          /\ Elements(enrichedChan) = {Head(enrichedChan)} \cup Elements(Tail(enrichedChan))
      BY <2>1, Channels DEF CollectEvent, WorkersOK
    <3> DEFINE b == Append(pubBatch, Head(enrichedChan))
    <3>2. b \in Seq(Event) /\ b # <<>> /\ Elements(b) = Elements(pubBatch) \cup {Head(enrichedChan)} /\ Len(b) \in Nat
      BY <3>1, Channels DEF PublishOK
    <3>3. Len(Tail(enrichedChan)) \in Nat
      BY <3>1
    <3>4. \/ PublishEvents(b) /\ pubBatch' = <<>>
          \/ pubBatch' = b /\ ~ (Len(b) >= PublishBatch) /\ UNCHANGED <<outcomeVars, enrichedVars>>
      BY <2>1 DEF CollectEvent
    <3>5. enrichedChan' = Tail(enrichedChan)
      BY <2>1 DEF CollectEvent
    <3>6. ~ (Len(b) >= PublishBatch) => Len(b) < PublishBatch
      BY <3>2, EnrichmentAssumption DEF EnrichmentAssumption
    <3> HIDE DEF b
    <3>7. QED
      BY <3>1, <3>2, <3>3, <3>4, <3>5, <3>6
  <2>2. CASE PublishTick \/ PublisherReturns
    <3>1. enrichedChan' = enrichedChan /\ pubBatch' = <<>>
      BY <2>2 DEF PublishTick, PublisherReturns
    <3>2. Len(enrichedChan) \in Nat /\ pubBatch \in Seq(Event) /\ Len(<<>>) = 0 /\ <<>> \in Seq(Event)
      BY Channels DEF WorkersOK, PublishOK
    <3>3. \/ pubBatch # <<>> /\ PublishEvents(pubBatch)
          \/ pubBatch = <<>> /\ UNCHANGED <<outcomeVars, enrichedVars>>
      BY <2>2 DEF PublishTick, PublisherReturns
    <3>4. 0 < PublishBatch
      BY EnrichmentAssumption DEF EnrichmentAssumption
    <3>5. QED
      BY <3>1, <3>2, <3>3, <3>4 DEF WorkersOK
  <2>3. QED
    BY <2>1, <2>2
<1>3. /\ Queue' /\ WriteOK' /\ SettledIsInserted'
      /\ UNCHANGED <<writerOpen, batcherOn, writerStop, writerFaults, dbRows>>
      /\ waiting \subseteq waiting' /\ delivered' = delivered
      /\ Reported
      /\ \A e \in Elements(batch) :
           e \in Elements(pubBatch') \/ CauseKnown(e)' \/ \E m \in waiting' : e \in Elements(m.events)
  <2>1. CASE batch # <<>> /\ PublishEvents(batch)
    BY <2>1, Published
  <2>2. CASE pubBatch' = batch /\ UNCHANGED <<outcomeVars, enrichedVars>>
    <3>1. /\ Queue' /\ WriteOK' /\ SettledIsInserted'
          /\ UNCHANGED <<writerOpen, batcherOn, writerStop, writerFaults, enriched, waiting, delivered, dbRows>>
      BY <2>2, WriterSide
    <3>2. Reported
      BY <2>2, Zenon DEF outcomeVars, PublishOK, Flags, Reported
    <3>3. QED
      BY <2>2, <3>1, <3>2
  <2>3. QED
    BY <1>2, <2>1, <2>2
<1>4. SourceOK'
  BY <1>1 DEF SourceOK
<1>5. WorkersOK'
  BY <1>1, <1>2, EnrichmentAssumption DEF WorkersOK, EnrichmentAssumption
<1>6. PublishOK'
  <2>1. <<>> \in Seq(Event) /\ Len(<<>>) = 0 /\ 0 < PublishBatch
    BY EnrichmentAssumption DEF EnrichmentAssumption
  <2>2. pubBatch' \in Seq(Event) /\ Len(pubBatch') < PublishBatch
    BY <1>2, <2>1
  <2>3. QED
    BY <1>1, <1>3, <2>2 DEF PublishOK, Reported
<1>7. Flags'
  <2>1. pubReturned' \in {pubReturned, TRUE}
    BY DEF CollectEvent, PublishTick, PublisherReturns
  <2>2. QED
    BY <1>1, <1>3, <2>1, Zenon DEF Flags, Reported
<1>8. FaultsOK'
  BY <1>1, <1>3 DEF FaultsOK
<1>9. \A e \in Event : Safe(e) => Safe(e)'
  <2>1. \A e \in Elements(enrichedChan) \cup Elements(pubBatch) : Safe(e)'
    BY <1>2, <1>3 DEF Safe, OnItsWay, CauseKnown
  <2>2. \A m \in waiting \cup delivered : \A e \in Elements(m.events) : Safe(e)'
    BY <1>3 DEF Safe, OnItsWay, CauseKnown
  <2>3. dbRows \in [Event -> Nat] /\ dbRows' = dbRows
    BY <1>3 DEF WriteOK
  <2>4. \A e \in Event : dbRows'[e] >= dbRows[e]
    BY <2>3
  <2>5. QED
    BY <1>1, <1>3, <2>1, <2>2, <2>3, <2>4, SafeEver DEF Reported
<1>10. LossHasCause'
  BY <1>1, <1>9, NothingSettled DEF Acknowledged
<1>11. Worked'
  <2>1. \A m \in Source : Elements(EventsOf[m]) \subseteq Event
    BY EnrichmentAssumption, Channels DEF EnrichmentAssumption
  <2>2. \A w \in EnrichWorker : job[w] \subseteq Source
    BY DEF WorkersOK
  <2>3. QED
    BY <1>1, <1>9, <2>1, <2>2 DEF Worked
<1>12. QED
  BY <1>3, <1>4, <1>5, <1>6, <1>7, <1>8, <1>10, <1>11

\* Stop(), a lost connection, the end of the process: what was in memory is accounted for,
\* and what was not acknowledged is with the broker again.
LEMMA EnrichmentFaultStep ==
  ASSUME StageInv, UNCHANGED writerVars, LoseSource \/ StopEnrichment \/ EnrichmentEnds
  PROVE  StageInv'
<1> USE DEF StageInv, StageTypes
<1>1. UNCHANGED enrichedVars /\ UNCHANGED <<unpublished, misconfirmed>> /\ confirmLate' \in {confirmLate, FALSE}
  BY DEF LoseSource, StopEnrichment, EnrichmentEnds, FreshEnrichment, publishVars, outcomeVars
<1>2. /\ Queue' /\ WriteOK' /\ SettledIsInserted'
      /\ UNCHANGED <<writerOpen, batcherOn, writerStop, writerFaults, enriched, waiting, delivered, dbRows>>
  BY <1>1, WriterSide
<1>3. FaultsOK'
  <2>1. enrichFaults' = enrichFaults \/ (enrichFaults < MaxEnrichFaults /\ enrichFaults' = enrichFaults + 1)
    BY DEF LoseSource, StopEnrichment, EnrichmentEnds, EnrichFault
  <2>2. QED
    BY <1>2, <2>1, EnrichmentAssumption DEF FaultsOK, EnrichmentAssumption
<1>4. Flags'
  <2>1. srcOpen' \in {srcOpen, TRUE, FALSE} /\ pubReturned' \in {pubReturned, FALSE}
        /\ enrichStop' \in {enrichStop, TRUE, FALSE}
    BY DEF LoseSource, StopEnrichment, EnrichmentEnds, FreshEnrichment, receiverVars, publishVars, outcomeVars
  <2>2. QED
    BY <1>1, <1>2, <2>1, Zenon DEF Flags
<1>5. \A m \in Source : Elements(EventsOf[m]) \subseteq Event
  BY EnrichmentAssumption, Channels DEF EnrichmentAssumption
<1>6. Acknowledged' \subseteq Acknowledged
  BY DEF LoseSource, StopEnrichment, EnrichmentEnds, receiverVars, Acknowledged
<1>7. CASE LoseSource \/ StopEnrichment
  <2>1. UNCHANGED <<receiver, inHand, eventChan, job, left, enrichedChan, pubBatch, forgottenEvents>>
    BY <1>7 DEF LoseSource, StopEnrichment, receiverVars, publishVars, outcomeVars
  <2>2. srcReady' \subseteq Source /\ srcUnacked' \subseteq Source
    BY <1>7 DEF LoseSource, StopEnrichment, receiverVars, SourceOK
  <2>3. SourceOK' /\ WorkersOK' /\ PublishOK'
    <3>1. confirmLate' => unpublished' # {}
      BY <1>1, Zenon DEF PublishOK
    <3>2. QED
      BY <1>1, <2>1, <2>2, <3>1 DEF SourceOK, WorkersOK, PublishOK
  <2>4. \A e \in Event : Safe(e) => Safe(e)'
    BY <1>1, <1>2, <2>1 DEF Safe, OnItsWay, CauseKnown
  <2>5. LossHasCause'
    BY <1>6, <2>4, NothingSettled
  <2>6. Worked'
    <3>1. \A w \in EnrichWorker : job[w] \subseteq Source
      BY DEF WorkersOK
    <3>2. QED
      BY <1>5, <2>1, <2>4, <3>1 DEF Worked
  <2>7. QED
    BY <1>2, <1>3, <1>4, <2>3, <2>5, <2>6
<1>8. CASE EnrichmentEnds
  <2>1. /\ forgottenEvents' = forgottenEvents \cup Elements(enrichedChan) \cup Elements(pubBatch)
        /\ srcReady' = srcReady \cup srcUnacked /\ srcUnacked' = {}
        /\ FreshEnrichment
    BY <1>8 DEF EnrichmentEnds
  <2>2. /\ <<>> \in Seq(Event) /\ <<>> \in Seq(Source) /\ Len(<<>>) = 0
        /\ 0 < PublishBatch /\ 0 <= EventCap /\ 0 <= EnrichedCap
    BY EnrichmentAssumption DEF EnrichmentAssumption
  <2>3. SourceOK'
    BY <2>1, <2>2 DEF SourceOK, FreshEnrichment
  <2>4. WorkersOK'
    BY <2>1, <2>2 DEF WorkersOK, FreshEnrichment
  <2>5. PublishOK'
    <3>1. Elements(enrichedChan) \subseteq Event /\ Elements(pubBatch) \subseteq Event
      BY Channels DEF WorkersOK, PublishOK
    <3>2. QED
      BY <1>1, <2>1, <2>2, <3>1 DEF PublishOK, FreshEnrichment
  <2>6. \A e \in Event : Safe(e) => Safe(e)'
    BY <1>1, <1>2, <2>1 DEF Safe, OnItsWay, CauseKnown
  <2>7. LossHasCause'
    BY <1>6, <2>6, NothingSettled
  <2>8. Worked'
    BY <2>1 DEF FreshEnrichment, Worked
  <2>9. QED
    BY <1>2, <1>3, <1>4, <2>3, <2>4, <2>5, <2>7, <2>8
<1>9. QED
  BY <1>7, <1>8

----------------------------------------------------------------------------
(* The database writer *)

\* As long as what is owed and the rows stay, the writer's steps touch no event.
LEMMA EventsKept ==
  ASSUME StageInv, UNCHANGED enrichmentVars, dbRows' \in [Event -> Nat], \A e \in Event : dbRows'[e] >= dbRows[e],
         \A m \in (waiting \cup delivered) \ (waiting' \cup delivered') :
           \A e \in Elements(m.events) : dbRows'[e] > 0
  PROVE  \A e \in Event : Safe(e) => Safe(e)'
<1> USE DEF StageInv, StageTypes
<1>1. UNCHANGED <<enrichedChan, pubBatch, unpublished, misconfirmed, forgottenEvents>>
  BY DEF enrichmentVars
<1>2. \A e \in Elements(enrichedChan) \cup Elements(pubBatch) : Safe(e)'
  BY <1>1 DEF Safe, OnItsWay, CauseKnown
<1>3. \A m \in waiting \cup delivered : \A e \in Elements(m.events) : Safe(e)'
  <2>1. ASSUME NEW m \in waiting \cup delivered, NEW e \in Elements(m.events) PROVE Safe(e)'
    <3>1. CASE m \in waiting' \cup delivered'
      BY <3>1 DEF Safe, OnItsWay, CauseKnown
    <3>2. CASE m \notin waiting' \cup delivered'
      BY <3>2 DEF Safe, OnItsWay, CauseKnown
    <3>3. QED
      BY <3>1, <3>2
  <2>2. QED
    BY <2>1
<1>4. dbRows \in [Event -> Nat]
  BY DEF WriteOK
<1>5. QED
  BY <1>1, <1>2, <1>3, <1>4, SafeEver

\* Whatever leaves the queue for good in a step has its events in the table.
LEMMA OwedOrInserted ==
  ASSUME StageInv, enriched' = enriched, dbRows' \in [Event -> Nat], \A e \in Event : dbRows'[e] >= dbRows[e],
         \A m \in (waiting \cup delivered) \ (waiting' \cup delivered') :
           \A e \in Elements(m.events) : dbRows'[e] > 0
  PROVE  SettledIsInserted'
<1>1. dbRows \in [Event -> Nat]
  BY DEF StageInv, StageTypes, WriteOK
<1>2. \A m \in enriched : m.events \in Seq(Event)
  BY DEF StageInv, StageTypes, Queue, EnrichedTypeOK, EnrichedMessage
<1>3. ASSUME NEW m \in enriched' \ (waiting' \cup delivered'), NEW i \in DOMAIN m.events
      PROVE  dbRows'[m.events[i]] > 0
  <2>1. m \in enriched /\ m.events[i] \in Event /\ m.events[i] \in Elements(m.events)
    BY <1>2, <1>3 DEF Elements
  <2>2. CASE m \in waiting \cup delivered
    BY <1>3, <2>1, <2>2
  <2>3. CASE m \notin waiting \cup delivered
    <3>1. dbRows[m.events[i]] > 0
      BY <1>3, <2>1, <2>3 DEF StageInv, SettledIsInserted
    <3>2. QED
      BY <1>1, <2>1, <3>1
  <2>4. QED
    BY <2>2, <2>3
<1>4. QED
  BY <1>3 DEF SettledIsInserted

\* The batcher and a writer that takes a batch hand messages on, still owed by the queue.
LEMMA BatcherStep ==
  ASSUME StageInv, UNCHANGED enrichmentVars,
         \/ \E m \in waiting : CollectMessage(m)
         \/ Flush \/ BatcherReturns
         \/ \E w \in Writer : TakeBatch(w)
  PROVE  StageInv'
<1> USE DEF StageInv, StageTypes
<1>1. UNCHANGED <<enriched, dbRows, writerOpen, retries, writerStop, writerFaults>> /\ batcherOn' \in {batcherOn, FALSE}
  BY DEF CollectMessage, Flush, BatcherReturns, TakeBatch, enrichedVars
<1>2. /\ waiting' \subseteq waiting /\ waiting' \cap delivered' = {}
      /\ waiting' \cup delivered' = waiting \cup delivered
  BY DEF CollectMessage, Flush, BatcherReturns, TakeBatch, enrichedVars, Queue, EnrichedTypeOK
<1>3. Queue'
  <2>1. waiting' \subseteq enriched /\ delivered' \subseteq enriched
    BY <1>2 DEF Queue, EnrichedTypeOK
  <2>2. QED
    BY <1>1, <1>2, <2>1 DEF Queue, EnrichedTypeOK
<1>4. Len(writeChan) \in Nat /\ <<>> \in Seq(SUBSET enriched) /\ WriterCap \in Nat
  BY WriterAssumption DEF WriteOK, WriterAssumption
<1>5. \A S \in SUBSET enriched :
        Append(writeChan, S) \in Seq(SUBSET enriched) /\ Len(Append(writeChan, S)) = Len(writeChan) + 1
  BY DEF WriteOK
<1>6. WriteOK'
  <2>1. CASE \E m \in waiting : CollectMessage(m)
    <3>1. /\ writeBatch' \subseteq writeBatch \cup waiting
          /\ UNCHANGED <<writeChan, writing>>
      BY <2>1 DEF CollectMessage
    <3>2. writeBatch' \subseteq enriched
      BY <3>1 DEF WriteOK, Queue, EnrichedTypeOK
    <3>3. QED
      BY <1>1, <3>1, <3>2 DEF WriteOK
  <2>2. CASE Flush \/ BatcherReturns
    <3>1. /\ writing' = writing
          /\ \/ FlushTo(writeBatch)
             \/ UNCHANGED <<writeChan, writeBatch>>
      BY <2>2 DEF Flush, BatcherReturns
    <3>2. CASE FlushTo(writeBatch)
      <4>1. Len(writeChan) < WriterCap /\ writeChan' = Append(writeChan, writeBatch) /\ writeBatch' = {}
        BY <3>2 DEF FlushTo
      <4>2. writeBatch \in SUBSET enriched
        BY DEF WriteOK
      <4>3. writeChan' \in Seq(SUBSET enriched) /\ Len(writeChan') <= WriterCap
        BY <1>4, <1>5, <4>1, <4>2
      <4>4. QED
        BY <1>1, <3>1, <4>1, <4>3 DEF WriteOK
    <3>3. CASE UNCHANGED <<writeChan, writeBatch>>
      BY <1>1, <3>1, <3>3 DEF WriteOK
    <3>4. QED
      BY <3>1, <3>2, <3>3
  <2>3. CASE \E w \in Writer : TakeBatch(w)
    <3>1. PICK w \in Writer : TakeBatch(w)
      BY <2>3
    <3>2. /\ writeChan # <<>> /\ writeBatch' = writeBatch
          /\ writing' = [writing EXCEPT ![w] = Head(writeChan)]
          /\ writeChan' = Tail(writeChan)
      BY <3>1 DEF TakeBatch
    <3>3. Head(writeChan) \in SUBSET enriched
      BY <3>2 DEF WriteOK
    <3>4. writeChan' \in Seq(SUBSET enriched) /\ Len(writeChan') = Len(writeChan) - 1
      BY <3>2 DEF WriteOK
    <3>5. Len(writeChan') <= WriterCap
      BY <1>4, <3>4 DEF WriteOK
    <3>6. writing' \in [Writer -> SUBSET enriched]
      BY <3>2, <3>3 DEF WriteOK
    <3>7. QED
      BY <1>1, <3>2, <3>4, <3>5, <3>6 DEF WriteOK
  <2>4. QED
    BY <2>1, <2>2, <2>3
<1>7. dbRows' \in [Event -> Nat] /\ \A e \in Event : dbRows'[e] >= dbRows[e]
  BY <1>1 DEF WriteOK
<1>8. \A e \in Event : Safe(e) => Safe(e)'
  BY <1>2, <1>7, EventsKept
<1>9. SettledIsInserted'
  BY <1>1, <1>2, <1>7, OwedOrInserted
<1>10. /\ SourceOK' /\ WorkersOK' /\ PublishOK' /\ Worked' /\ LossHasCause'
       /\ UNCHANGED <<srcOpen, pubReturned, enrichStop, confirmLate, enrichFaults>>
  BY <1>8, EnrichmentSide
<1>11. Flags'
  BY <1>1, <1>10, Zenon DEF Flags
<1>12. FaultsOK'
  BY <1>1, <1>10 DEF FaultsOK
<1>13. QED
  BY <1>3, <1>6, <1>9, <1>10, <1>11, <1>12

\* An attempt to insert a batch: it is in the table, or tried again, or given back.
LEMMA WriterStep ==
  ASSUME StageInv, UNCHANGED enrichmentVars,
         NEW w \in Writer, InsertSucceeds(w) \/ InsertFails(w) \/ InsertUnheard(w)
  PROVE  StageInv'
<1> USE DEF StageInv, StageTypes
<1>1. UNCHANGED <<writerOpen, batcherOn, writeBatch, writeChan, writerStop>>
  BY DEF InsertSucceeds, InsertFails, InsertUnheard
<1>2. writing[w] \subseteq enriched
  BY DEF WriteOK
<1>3. dbRows' = dbRows \/ InsertRows(writing[w])
  BY DEF InsertSucceeds, InsertFails, InsertUnheard
<1>4. dbRows' \in [Event -> Nat] /\ \A e \in Event : dbRows'[e] >= dbRows[e]
  <2>1. CASE dbRows' = dbRows
    BY <2>1 DEF WriteOK
  <2>2. CASE InsertRows(writing[w])
    BY <1>2, <2>2, Inserted DEF WriteOK
  <2>3. QED
    BY <1>3, <2>1, <2>2
<1>5. enriched' = enriched
  BY DEF InsertSucceeds, InsertFails, InsertUnheard, AfterFailure, AckBatch, NackBatch, enrichedVars
<1>6. /\ waiting' \subseteq enriched /\ delivered' \subseteq enriched /\ waiting' \cap delivered' = {}
      /\ waiting \subseteq waiting'
  BY <1>2 DEF InsertSucceeds, InsertFails, InsertUnheard, AfterFailure, AckBatch, NackBatch, enrichedVars,
              Queue, EnrichedTypeOK
<1>7. \A m \in (waiting \cup delivered) \ (waiting' \cup delivered') :
        \A e \in Elements(m.events) : dbRows'[e] > 0
  <2>1. CASE InsertSucceeds(w)
    <3>1. \A m \in writing[w] : \A e \in Elements(m.events) : dbRows'[e] > 0
      BY <1>2, <2>1, Inserted DEF InsertSucceeds, WriteOK
    <3>2. (waiting \cup delivered) \ (waiting' \cup delivered') \subseteq writing[w]
      BY <2>1 DEF InsertSucceeds, AckBatch
    <3>3. QED
      BY <3>1, <3>2
  <2>2. CASE InsertFails(w) \/ InsertUnheard(w)
    <3>1. waiting \cup delivered \subseteq waiting' \cup delivered'
      BY <2>2 DEF InsertFails, InsertUnheard, AfterFailure, NackBatch, enrichedVars
    <3>2. QED
      BY <3>1
  <2>3. QED
    BY <2>1, <2>2
<1>8. Queue'
  BY <1>5, <1>6 DEF Queue, EnrichedTypeOK
<1>9. WriteOK'
  <2>1. writing' \in [Writer -> SUBSET enriched]
    BY DEF InsertSucceeds, InsertFails, InsertUnheard, AfterFailure, BatchDone, WriteOK
  <2>2. retries' \in [Writer -> 0..MaxRetries - 1]
    <3>1. MaxRetries \in Nat /\ MaxRetries > 0 /\ retries[w] \in 0..MaxRetries - 1
      BY WriterAssumption DEF WriterAssumption, WriteOK
    <3>2. \/ retries' = [retries EXCEPT ![w] = 0]
          \/ retries[w] + 1 < MaxRetries /\ retries' = [retries EXCEPT ![w] = retries[w] + 1]
      BY DEF InsertSucceeds, InsertFails, InsertUnheard, AfterFailure, BatchDone
    <3>3. retries \in [Writer -> 0..MaxRetries - 1]
      BY DEF WriteOK
    <3>4. CASE retries' = [retries EXCEPT ![w] = 0]
      BY <3>1, <3>3, <3>4
    <3>5. CASE retries[w] + 1 < MaxRetries /\ retries' = [retries EXCEPT ![w] = retries[w] + 1]
      <4>1. retries[w] + 1 \in 0..MaxRetries - 1
        BY <3>1, <3>5
      <4>2. QED
        BY <3>3, <3>5, <4>1
    <3>6. QED
      BY <3>2, <3>4, <3>5
  <2>3. QED
    BY <1>1, <1>4, <1>5, <2>1, <2>2 DEF WriteOK
<1>10. \A e \in Event : Safe(e) => Safe(e)'
  BY <1>4, <1>7, EventsKept
<1>11. SettledIsInserted'
  BY <1>4, <1>5, <1>7, OwedOrInserted
<1>12. /\ SourceOK' /\ WorkersOK' /\ PublishOK' /\ Worked' /\ LossHasCause'
       /\ UNCHANGED <<srcOpen, pubReturned, enrichStop, confirmLate, enrichFaults>>
  BY <1>10, EnrichmentSide
<1>13. Flags'
  BY <1>1, <1>12, Zenon DEF Flags
<1>14. FaultsOK'
  <2>1. writerFaults' = writerFaults \/ (writerFaults < MaxWriterFaults /\ writerFaults' = writerFaults + 1)
    BY DEF InsertSucceeds, InsertFails, InsertUnheard, WriterFault
  <2>2. QED
    BY <1>12, <2>1, WriterAssumption DEF FaultsOK, WriterAssumption
<1>15. QED
  BY <1>8, <1>9, <1>11, <1>12, <1>13, <1>14

\* Stop(), a lost connection, the end of the process: every delivery is in the queue again.
LEMMA WriterFaultStep ==
  ASSUME StageInv, UNCHANGED enrichmentVars, LoseEnriched \/ StopWriter \/ WriterEnds
  PROVE  StageInv'
<1> USE DEF StageInv, StageTypes
<1>1. UNCHANGED <<enriched, dbRows>>
  BY DEF LoseEnriched, StopWriter, WriterEnds, Redeliver, enrichedVars
<1>2. waiting' \cup delivered' = waiting \cup delivered /\ waiting' \cap delivered' = {}
  BY DEF LoseEnriched, StopWriter, WriterEnds, Redeliver, enrichedVars, Queue, EnrichedTypeOK
<1>3. Queue'
  <2>1. waiting' \subseteq enriched /\ delivered' \subseteq enriched
    BY <1>2 DEF Queue, EnrichedTypeOK
  <2>2. QED
    BY <1>1, <1>2, <2>1 DEF Queue, EnrichedTypeOK
<1>4. WriteOK'
  <2>1. CASE LoseEnriched \/ StopWriter
    BY <1>1, <2>1 DEF LoseEnriched, StopWriter, WriteOK
  <2>2. CASE WriterEnds
    <3>1. /\ writeBatch' = {} /\ writeChan' = <<>>
          /\ writing' = [v \in Writer |-> {}] /\ retries' = [v \in Writer |-> 0]
      BY <2>2 DEF WriterEnds
    <3>2. 0 \in 0..MaxRetries - 1 /\ 0 <= WriterCap /\ Len(<<>>) = 0 /\ <<>> \in Seq(SUBSET enriched)
      BY WriterAssumption DEF WriterAssumption
    <3>3. QED
      BY <1>1, <3>1, <3>2 DEF WriteOK
  <2>3. QED
    BY <2>1, <2>2
<1>5. dbRows' \in [Event -> Nat] /\ \A e \in Event : dbRows'[e] >= dbRows[e]
  BY <1>1 DEF WriteOK
<1>6. \A e \in Event : Safe(e) => Safe(e)'
  BY <1>2, <1>5, EventsKept
<1>7. SettledIsInserted'
  BY <1>1, <1>2, <1>5, OwedOrInserted
<1>8. /\ SourceOK' /\ WorkersOK' /\ PublishOK' /\ Worked' /\ LossHasCause'
      /\ UNCHANGED <<srcOpen, pubReturned, enrichStop, confirmLate, enrichFaults>>
  BY <1>6, EnrichmentSide
<1>9. Flags'
  <2>1. /\ writerOpen' \in {writerOpen, TRUE, FALSE} /\ batcherOn' \in {batcherOn, TRUE}
        /\ writerStop' \in {writerStop, TRUE, FALSE}
    BY DEF LoseEnriched, StopWriter, WriterEnds
  <2>2. QED
    BY <1>8, <2>1, Zenon DEF Flags
<1>10. FaultsOK'
  <2>1. writerFaults' = writerFaults \/ (writerFaults < MaxWriterFaults /\ writerFaults' = writerFaults + 1)
    BY DEF LoseEnriched, StopWriter, WriterEnds, WriterFault
  <2>2. QED
    BY <1>8, <2>1, WriterAssumption DEF FaultsOK, WriterAssumption
<1>11. QED
  BY <1>3, <1>4, <1>7, <1>8, <1>9, <1>10

----------------------------------------------------------------------------
(* What holds in every reachable state *)

LEMMA StagesMade == TwoStageInit => StageInv
<1> SUFFICES ASSUME TwoStageInit PROVE StageInv
  OBVIOUS
<1> USE DEF TwoStageInit, EnrichedInit, EnrichmentInit, WriterInit
<1>1. Queue
  BY FS_EmptySet DEF Queue, EnrichedTypeOK
<1>2. SourceOK /\ WorkersOK /\ PublishOK
  <2>1. 0 <= EventCap /\ 0 <= EnrichedCap /\ 0 < PublishBatch
    BY EnrichmentAssumption DEF EnrichmentAssumption
  <2>2. QED
    BY <2>1 DEF SourceOK, WorkersOK, PublishOK
<1>3. Flags
  BY Zenon DEF Flags
<1>4. FaultsOK
  BY EnrichmentAssumption, WriterAssumption DEF EnrichmentAssumption, WriterAssumption, FaultsOK
<1>5. WriteOK
  <2>1. 0 \in 0..MaxRetries - 1 /\ 0 <= WriterCap /\ 0 \in Nat
    BY WriterAssumption DEF WriterAssumption
  <2>2. QED
    BY <2>1 DEF WriteOK
<1>6. SettledIsInserted /\ Worked
  BY DEF SettledIsInserted, Worked
<1>7. LossHasCause
  BY DEF LossHasCause, Acknowledged
<1>8. QED
  BY <1>1, <1>2, <1>3, <1>4, <1>5, <1>6, <1>7 DEF StageInv, StageTypes

LEMMA StageStep ==
  ASSUME StageInv, [TwoStageNext]_twoStageVars
  PROVE  StageInv'
<1>1. CASE EnrichmentNext /\ UNCHANGED writerVars
  <2>1. CASE (\E m \in Source : ReceiveSource(m)) \/ SendToWorkers \/ ReceiverReturns
    BY <1>1, <2>1, SourceStep
  <2>2. CASE \E w \in EnrichWorker : TakeDelivery(w) \/ EnrichEvent(w) \/ AckDelivery(w)
    BY <1>1, <2>2, WorkerStep
  <2>3. CASE CollectEvent \/ PublishTick \/ PublisherReturns
    BY <1>1, <2>3, PublisherStep
  <2>4. CASE LoseSource \/ StopEnrichment \/ EnrichmentEnds
    BY <1>1, <2>4, EnrichmentFaultStep
  <2>5. QED
    BY <1>1, <2>1, <2>2, <2>3, <2>4 DEF EnrichmentNext
<1>2. CASE WriterNext /\ UNCHANGED enrichmentVars
  <2>1. CASE (\E m \in waiting : CollectMessage(m)) \/ Flush \/ BatcherReturns \/ \E w \in Writer : TakeBatch(w)
    BY <1>2, <2>1, BatcherStep
  <2>2. CASE \E w \in Writer : InsertSucceeds(w) \/ InsertFails(w) \/ InsertUnheard(w)
    BY <1>2, <2>2, WriterStep
  <2>3. CASE LoseEnriched \/ StopWriter \/ WriterEnds
    BY <1>2, <2>3, WriterFaultStep
  <2>4. QED
    BY <1>2, <2>1, <2>2, <2>3 DEF WriterNext
<1>3. CASE UNCHANGED twoStageVars
  <2>1. UNCHANGED enrichmentVars /\ UNCHANGED writerVars /\ UNCHANGED enrichedVars
    BY <1>3 DEF twoStageVars
  <2>2. /\ Queue' /\ WriteOK' /\ SettledIsInserted'
        /\ UNCHANGED <<writerOpen, batcherOn, writerStop, writerFaults, enriched, waiting, delivered, dbRows>>
    BY <2>1, WriterSide
  <2>3. \A e \in Event : Safe(e) => Safe(e)'
    BY <2>1, <2>2 DEF enrichmentVars, Safe, OnItsWay, CauseKnown
  <2>4. /\ SourceOK' /\ WorkersOK' /\ PublishOK' /\ Worked' /\ LossHasCause'
        /\ UNCHANGED <<srcOpen, pubReturned, enrichStop, confirmLate, enrichFaults>>
    BY <2>1, <2>3, EnrichmentSide
  <2>5. Flags' /\ FaultsOK'
    BY <2>2, <2>4 DEF StageInv, StageTypes, Flags, FaultsOK
  <2>6. QED
    BY <2>2, <2>4, <2>5 DEF StageInv, StageTypes
<1>4. QED
  BY <1>1, <1>2, <1>3 DEF TwoStageNext

LEMMA StageInvAlways == TwoStageSpec => []StageInv
BY StagesMade, StageStep, PTL DEF TwoStageSpec

\* The variables of both services and of the queue between them keep their types.
THEOREM StagesTypeCorrect == TwoStageSpec => []TwoStageTypeOK
<1>1. ASSUME StageInv PROVE TwoStageTypeOK
  <2> USE <1>1 DEF StageInv, StageTypes
  <2>1. EnrichedTypeOK
    BY DEF Queue
  <2>2. EnrichmentTypeOK
    BY Zenon DEF SourceOK, WorkersOK, PublishOK, Flags, FaultsOK, EnrichmentTypeOK
  <2>3. WriterTypeOK
    BY Zenon DEF WriteOK, Flags, FaultsOK, WriterTypeOK
  <2>4. QED
    BY <2>1, <2>2, <2>3 DEF TwoStageTypeOK
<1>2. QED
  BY <1>1, StageInvAlways, PTL

\* A message that has left the enriched queue for good has all its events in the table
\* (dbwriter/service.go, writeBatch), whatever fails, is retried, stopped or restarted.
THEOREM SettledMeansInserted == TwoStageSpec => []SettledIsInserted
BY StageInvAlways, PTL DEF StageInv

\* Once its message is acknowledged, an event is on its way to the table or in it, end to
\* end, or it was lost for one of the three causes: its Publish failed, or took an earlier
\* message's confirm for its own, or the enrichment process ended with it in memory.
THEOREM LostForACause == TwoStageSpec => []LossHasCause
BY StageInvAlways, PTL DEF StageInv

----------------------------------------------------------------------------
(* A row for each event of each message *)

Owed == waiting \cup delivered
Count(e, batch) == Cardinality(Occurrences(e, batch))

\* What a batch is made of: unsettled deliveries, which are back in the queue once the
\* channel is lost.
Ready == IF writerOpen THEN delivered ELSE waiting

\* No message is in two places of the writer.
ApartInMemory ==
  /\ \A i \in DOMAIN writeChan : writeChan[i] \cap writeBatch = {}
  /\ \A i, j \in DOMAIN writeChan : i # j => writeChan[i] \cap writeChan[j] = {}
  /\ \A w \in Writer :
       /\ writing[w] \cap writeBatch = {}
       /\ \A i \in DOMAIN writeChan : writing[w] \cap writeChan[i] = {}
       /\ \A v \in Writer : v # w => writing[w] \cap writing[v] = {}

Batches ==
  /\ writerFaults = 0 => writerOpen /\ ~ writerStop
  /\ writerOpen \/ delivered = {}
  /\ writeBatch \subseteq Ready
  /\ \A i \in DOMAIN writeChan : writeChan[i] \subseteq Ready
  /\ \A w \in Writer : writing[w] \subseteq Ready
  /\ ApartInMemory

\* Every event of every message the queue has let go has its own row.
NoRowMissing == \A e \in Event : dbRows[e] + Count(e, Owed) >= Count(e, enriched)
\* And no other, as long as nothing has failed but INSERTs.
OneRowEach == writerFaults = 0 => \A e \in Event : dbRows[e] + Count(e, Owed) = Count(e, enriched)

RowsInv == StageInv /\ Batches /\ NoRowMissing /\ OneRowEach

\* Batches stay apart whatever becomes of the messages that are in none of them.
LEMMA BatchesStay ==
  ASSUME Batches, UNCHANGED <<writerOpen, writeBatch, writeChan, writing>>,
         writerFaults' = 0 => writerFaults = 0 /\ writerStop' = writerStop,
         Ready \subseteq Ready', writerOpen \/ delivered' = {}
  PROVE  Batches'
BY DEF Batches, ApartInMemory

\* While the queue owes as much and the rows stay, nothing is missing.
LEMMA CountsStay ==
  ASSUME NoRowMissing, OneRowEach, UNCHANGED <<enriched, dbRows>>, Owed' = Owed,
         writerFaults' = 0 => writerFaults = 0
  PROVE  NoRowMissing' /\ OneRowEach'
<1>1. \A e : Count(e, Owed)' = Count(e, Owed) /\ Count(e, enriched)' = Count(e, enriched)
  BY DEF Count, Occurrences
<1>2. QED
  BY <1>1 DEF NoRowMissing, OneRowEach

\* The enrichment service only adds messages to the queue.
LEMMA EnrichmentAdds ==
  ASSUME RowsInv, EnrichmentNext, UNCHANGED writerVars
  PROVE  Batches' /\ NoRowMissing' /\ OneRowEach'
<1>1. UNCHANGED <<dbRows, writerOpen, batcherOn, writeBatch, writeChan, writing, retries, writerStop, writerFaults>>
  BY DEF writerVars
<1>2. \/ UNCHANGED enrichedVars
      \/ \E batch : BrokerStores(batch)
  BY DEF EnrichmentNext, ReceiveSource, SendToWorkers, ReceiverReturns, TakeDelivery, EnrichEvent, AckDelivery,
         CollectEvent, PublishTick, PublisherReturns, PublishEvents, LoseSource, StopEnrichment, EnrichmentEnds
<1>3. CASE UNCHANGED enrichedVars
  <2>1. UNCHANGED <<enriched, waiting, delivered>>
    BY <1>3 DEF enrichedVars
  <2>2. Batches'
    BY <1>1, <2>1, BatchesStay DEF RowsInv, Batches, Ready
  <2>3. QED
    BY <1>1, <2>1, <2>2, CountsStay DEF RowsInv, Owed
<1>4. ASSUME NEW batch, BrokerStores(batch) PROVE Batches' /\ NoRowMissing' /\ OneRowEach'
  <2> DEFINE msg == [serial |-> Cardinality(enriched) + 1, events |-> batch]
  <2>1. enriched' = enriched \cup {msg} /\ waiting' = waiting \cup {msg} /\ delivered' = delivered
    BY <1>4 DEF BrokerStores
  <2>2. Batches'
    BY <1>1, <2>1, BatchesStay DEF RowsInv, Batches, Ready
  <2>3. msg \notin enriched
    <3>1. \A m \in enriched : m.serial \in Nat /\ m.serial <= Cardinality(enriched)
      BY DEF RowsInv, StageInv, StageTypes, Queue, EnrichedTypeOK, EnrichedMessage
    <3>2. Cardinality(enriched) \in Nat
      BY FS_CardinalityType DEF RowsInv, StageInv, StageTypes, Queue
    <3>3. QED
      BY <3>1, <3>2
  <2>4. IsFiniteSet(enriched') /\ enriched' \subseteq EnrichedMessage
    <3>1. StageInv'
      BY <1>1, StageStep DEF RowsInv, TwoStageNext
    <3>2. QED
      BY <3>1 DEF StageInv, StageTypes, Queue, EnrichedTypeOK
  <2> HIDE DEF msg
  <2>5. Owed \subseteq enriched /\ Owed' = Owed \cup {msg}
    BY <2>1 DEF Owed, RowsInv, StageInv, StageTypes, Queue, EnrichedTypeOK
  <2>6. ASSUME NEW e \in Event
        PROVE  /\ Count(e, enriched)' = Count(e, enriched) + Count(e, {msg})
               /\ Count(e, Owed)' = Count(e, Owed) + Count(e, {msg})
               /\ Count(e, enriched) \in Nat /\ Count(e, Owed) \in Nat /\ Count(e, {msg}) \in Nat
    <3>1. PICK all : all = enriched'
      OBVIOUS
    <3>2. /\ enriched \in SUBSET all /\ {msg} \in SUBSET all /\ Owed \in SUBSET all
          /\ enriched \cap {msg} = {} /\ Owed \cap {msg} = {}
      BY <2>1, <2>3, <2>5, <3>1
    <3>3. /\ \A b \in SUBSET all : Count(e, b) \in Nat
          /\ \A a, b \in SUBSET all : a \cap b = {} => Count(e, a \cup b) = Count(e, a) + Count(e, b)
      BY <2>4, <3>1, Counted DEF Count
    <3>4. Count(e, enriched)' = Count(e, enriched \cup {msg}) /\ Count(e, Owed)' = Count(e, Owed \cup {msg})
      BY <2>1, <2>5 DEF Count, Occurrences
    <3>5. QED
      BY <3>2, <3>3, <3>4
  <2>7. \A e \in Event : dbRows[e] \in Nat
    BY DEF RowsInv, StageInv, StageTypes, WriteOK
  <2>8. NoRowMissing'
    BY <1>1, <2>6, <2>7 DEF RowsInv, NoRowMissing
  <2>9. OneRowEach'
    BY <1>1, <2>6, <2>7 DEF RowsInv, OneRowEach
  <2>10. QED
    BY <2>2, <2>8, <2>9
<1>5. QED
  BY <1>2, <1>3, <1>4

\* The batcher and a writer that takes a batch move messages, each to one place.
LEMMA BatcherMoves ==
  ASSUME RowsInv, UNCHANGED enrichmentVars,
         \/ \E m \in waiting : CollectMessage(m)
         \/ Flush \/ BatcherReturns
         \/ \E w \in Writer : TakeBatch(w)
  PROVE  Batches' /\ NoRowMissing' /\ OneRowEach'
<1>1. UNCHANGED <<enriched, dbRows, writerOpen, writerStop, writerFaults>> /\ Owed' = Owed
  BY DEF CollectMessage, Flush, BatcherReturns, TakeBatch, enrichedVars, Owed
<1>2. NoRowMissing' /\ OneRowEach'
  BY <1>1, CountsStay DEF RowsInv
<1>3. writeChan \in Seq(SUBSET enriched) /\ writing \in [Writer -> SUBSET enriched]
  BY DEF RowsInv, StageInv, StageTypes, WriteOK
<1>4. CASE \E m \in waiting : CollectMessage(m)
  <2>1. PICK m \in waiting : CollectMessage(m)
    BY <1>4
  <2>2. /\ writerOpen /\ waiting' = waiting \ {m} /\ delivered' = delivered \cup {m}
        /\ writeBatch' = writeBatch \cup {m} /\ UNCHANGED <<writeChan, writing>>
    BY <2>1 DEF CollectMessage
  <2>3. m \notin delivered
    BY <2>1 DEF RowsInv, StageInv, StageTypes, Queue, EnrichedTypeOK
  <2>4. Ready = delivered /\ Ready' = delivered \cup {m}
    BY <1>1, <2>2 DEF Ready
  <2>5. ApartInMemory'
    BY <2>2, <2>3, <2>4 DEF RowsInv, Batches, ApartInMemory
  <2>6. Batches'
    BY <1>1, <2>2, <2>4, <2>5 DEF RowsInv, Batches
  <2>7. QED
    BY <1>2, <2>6
<1>5. CASE UNCHANGED <<waiting, delivered, writing>> /\ FlushTo(writeBatch)
  <2>1. writeChan' = Append(writeChan, writeBatch) /\ writeBatch' = {}
    BY <1>5 DEF FlushTo
  <2>2. PICK n \in Nat : n = Len(writeChan)
    BY <1>3
  <2>3. /\ DOMAIN writeChan = 1..n /\ DOMAIN writeChan' = 1..n + 1 /\ writeChan'[n + 1] = writeBatch
        /\ \A i \in 1..n : writeChan'[i] = writeChan[i]
    BY <1>3, <2>1, <2>2
  <2>4. \A i \in 1..n + 1 : i \in 1..n \/ i = n + 1
    OBVIOUS
  <2>5. Ready' = Ready
    BY <1>1, <1>5 DEF Ready
  <2>6. ApartInMemory'
    BY <1>5, <2>1, <2>3, <2>4 DEF RowsInv, Batches, ApartInMemory
  <2>7. \A i \in DOMAIN writeChan' : writeChan'[i] \subseteq Ready
    BY <2>3, <2>4 DEF RowsInv, Batches
  <2>8. Batches'
    BY <1>1, <1>5, <2>1, <2>5, <2>6, <2>7 DEF RowsInv, Batches
  <2>9. QED
    BY <1>2, <2>8
<1>6. CASE UNCHANGED <<waiting, delivered, writeBatch, writeChan, writing>>
  BY <1>1, <1>2, <1>6, BatchesStay DEF RowsInv, Batches, Ready
<1>7. CASE \E w \in Writer : TakeBatch(w)
  <2>1. PICK w \in Writer : TakeBatch(w)
    BY <1>7
  <2>2. /\ writeChan # <<>> /\ UNCHANGED <<waiting, delivered, writeBatch>>
        /\ writing' = [writing EXCEPT ![w] = Head(writeChan)] /\ writeChan' = Tail(writeChan)
    BY <2>1 DEF TakeBatch, enrichedVars
  <2>3. /\ 1 \in DOMAIN writeChan /\ Head(writeChan) = writeChan[1]
        /\ \A i \in DOMAIN writeChan' : i + 1 \in DOMAIN writeChan /\ writeChan'[i] = writeChan[i + 1] /\ i + 1 # 1
        /\ \A i, j \in DOMAIN writeChan' : i # j => i + 1 # j + 1
    BY <1>3, <2>2
  <2>4. Ready' = Ready
    BY <1>1, <2>2 DEF Ready
  <2>5. writing'[w] = writeChan[1] /\ \A v \in Writer \ {w} : writing'[v] = writing[v]
    BY <1>3, <2>2, <2>3
  <2>6. ApartInMemory'
    BY <2>2, <2>3, <2>5 DEF RowsInv, Batches, ApartInMemory
  <2>7. Batches'
    BY <1>1, <2>2, <2>3, <2>4, <2>5, <2>6 DEF RowsInv, Batches
  <2>8. QED
    BY <1>2, <2>7
<1>8. QED
  BY <1>4, <1>5, <1>6, <1>7 DEF Flush, BatcherReturns, enrichedVars

\* What an INSERT adds to the table, and what the batch is for the queue.
LEMMA BatchCounted ==
  ASSUME RowsInv, NEW w \in Writer, NEW e \in Event
  PROVE  /\ dbRows[e] \in Nat /\ Count(e, enriched) \in Nat /\ Count(e, Owed) \in Nat
         /\ Count(e, writing[w]) \in Nat /\ Count(e, Owed \ writing[w]) \in Nat
         /\ Count(e, Owed) = Count(e, Owed \ writing[w]) + Count(e, writing[w])
<1>1. IsFiniteSet(enriched) /\ enriched \subseteq EnrichedMessage /\ Owed \subseteq enriched
  BY DEF RowsInv, StageInv, StageTypes, Queue, EnrichedTypeOK, Owed
<1>2. writing[w] \subseteq Owed
  BY DEF RowsInv, Batches, Ready, Owed
<1>3. /\ \A b \in SUBSET enriched : Count(e, b) \in Nat
      /\ \A a, b \in SUBSET enriched : a \cap b = {} => Count(e, a \cup b) = Count(e, a) + Count(e, b)
  <2>1. PICK all : all = enriched
    OBVIOUS
  <2>2. /\ \A b \in SUBSET all : Count(e, b) \in Nat
        /\ \A a, b \in SUBSET all : a \cap b = {} => Count(e, a \cup b) = Count(e, a) + Count(e, b)
    BY <1>1, <2>1, Counted DEF Count
  <2>3. QED
    BY <2>1, <2>2
<1>4. (Owed \ writing[w]) \cup writing[w] = Owed /\ (Owed \ writing[w]) \cap writing[w] = {}
  BY <1>2
<1>5. Count(e, Owed) = Count(e, Owed \ writing[w]) + Count(e, writing[w])
  BY <1>1, <1>2, <1>3, <1>4
<1>6. QED
  BY <1>1, <1>2, <1>3, <1>5 DEF RowsInv, StageInv, StageTypes, WriteOK

\* A writer that is done, either way, keeps no message, and takes none from another.
LEMMA WriterDone ==
  ASSUME RowsInv, NEW w \in Writer, UNCHANGED <<writerOpen, writeBatch, writeChan, writerStop>>,
         writing' = [writing EXCEPT ![w] = {}],
         writerFaults' = 0 => writerFaults = 0,
         delivered' = IF writerOpen THEN delivered \ writing[w] ELSE delivered,
         waiting \subseteq waiting'
  PROVE  Batches'
<1>1. writing \in [Writer -> SUBSET enriched]
  BY DEF RowsInv, StageInv, StageTypes, WriteOK
<1>2. writing'[w] = {} /\ \A v \in Writer \ {w} : writing'[v] = writing[v] /\ writing[v] \cap writing[w] = {}
  BY <1>1 DEF RowsInv, Batches, ApartInMemory
<1>3. \A s : s \subseteq Ready /\ s \cap writing[w] = {} => s \subseteq Ready'
  BY DEF Ready
<1>4. ApartInMemory'
  BY <1>2 DEF RowsInv, Batches, ApartInMemory
<1>5. writeBatch \subseteq Ready' /\ \A i \in DOMAIN writeChan : writeChan[i] \subseteq Ready'
  BY <1>3 DEF RowsInv, Batches, ApartInMemory
<1>6. \A v \in Writer : writing'[v] \subseteq Ready'
  BY <1>2, <1>3 DEF RowsInv, Batches
<1>7. writerOpen' \/ delivered' = {}
  BY DEF RowsInv, Batches
<1>8. QED
  BY <1>4, <1>5, <1>6, <1>7 DEF RowsInv, Batches

LEMMA WriterRows ==
  ASSUME RowsInv, UNCHANGED enrichmentVars,
         NEW w \in Writer, InsertSucceeds(w) \/ InsertFails(w) \/ InsertUnheard(w)
  PROVE  Batches' /\ NoRowMissing' /\ OneRowEach'
<1>1. UNCHANGED <<enriched, writerOpen, writeBatch, writeChan, writerStop>>
  BY DEF InsertSucceeds, InsertFails, InsertUnheard, AfterFailure, AckBatch, NackBatch, enrichedVars
<1>2. writerFaults' = writerFaults \/ (InsertUnheard(w) /\ writerFaults' = writerFaults + 1)
  BY DEF InsertSucceeds, InsertFails, InsertUnheard, WriterFault
<1>3. writerFaults \in Nat
  BY WriterAssumption DEF RowsInv, StageInv, StageTypes, FaultsOK, WriterAssumption
<1>4. Batches'
  <2>1. CASE UNCHANGED <<writing, waiting, delivered>>
    BY <1>1, <1>2, <1>3, <2>1, BatchesStay DEF RowsInv, Batches, Ready
  <2>2. CASE /\ writing' = [writing EXCEPT ![w] = {}]
             /\ delivered' = IF writerOpen THEN delivered \ writing[w] ELSE delivered
             /\ waiting \subseteq waiting'
    <3>1. writerFaults' = 0 => writerFaults = 0
      BY <1>2, <1>3
    <3>2. QED
      BY <1>1, <2>2, <3>1, WriterDone
  <2>3. QED
    BY <2>1, <2>2 DEF InsertSucceeds, InsertFails, InsertUnheard, AfterFailure, AckBatch, NackBatch, BatchDone, enrichedVars
<1>5. \A e \in Event : Count(e, enriched)' = Count(e, enriched)
  BY <1>1 DEF Count, Occurrences
<1>6. CASE InsertSucceeds(w)
  <2>1. \A e \in Event : dbRows'[e] = dbRows[e] + Count(e, writing[w])
    BY <1>6 DEF InsertSucceeds, InsertRows, Count
  <2>2. writerFaults' = writerFaults
    BY <1>6 DEF InsertSucceeds
  <2>3. Owed' = IF writerOpen THEN Owed \ writing[w] ELSE Owed
    <3>1. writing[w] \subseteq Ready /\ waiting \cap delivered = {}
      BY DEF RowsInv, Batches, StageInv, StageTypes, Queue, EnrichedTypeOK
    <3>2. QED
      BY <1>6, <3>1 DEF InsertSucceeds, AckBatch, Owed, Ready
  <2>4. \A e \in Event : Count(e, Owed)' = IF writerOpen THEN Count(e, Owed \ writing[w]) ELSE Count(e, Owed)
    BY <2>3 DEF Count, Occurrences
  <2>5. ASSUME NEW e \in Event PROVE dbRows'[e] + Count(e, Owed)' >= dbRows[e] + Count(e, Owed)
    BY <2>1, <2>4, BatchCounted
  <2>6. ASSUME NEW e \in Event, writerOpen PROVE dbRows'[e] + Count(e, Owed)' = dbRows[e] + Count(e, Owed)
    BY <2>1, <2>4, <2>6, BatchCounted
  <2>7. NoRowMissing'
    <3>1. ASSUME NEW e \in Event PROVE dbRows'[e] + Count(e, Owed)' >= Count(e, enriched)
      <4>1. dbRows[e] + Count(e, Owed) >= Count(e, enriched)
        BY DEF RowsInv, NoRowMissing
      <4>2. /\ dbRows[e] \in Nat /\ Count(e, Owed) \in Nat /\ Count(e, enriched) \in Nat
            /\ dbRows'[e] \in Nat /\ Count(e, Owed)' \in Nat
        BY <2>1, <2>4, BatchCounted
      <4>3. QED
        BY <2>5, <4>1, <4>2
    <3>2. QED
      BY <1>5, <3>1 DEF NoRowMissing
  <2>8. OneRowEach'
    BY <1>5, <2>2, <2>6 DEF RowsInv, Batches, OneRowEach
  <2>9. QED
    BY <1>4, <2>7, <2>8
<1>7. ASSUME InsertFails(w) \/ InsertUnheard(w) PROVE Owed' = Owed
  <2>1. writing[w] \subseteq Ready
    BY DEF RowsInv, Batches
  <2>2. \/ UNCHANGED <<waiting, delivered>>
        \/ NackBatch(writing[w])
    BY <1>7 DEF InsertFails, InsertUnheard, AfterFailure, enrichedVars
  <2>3. QED
    BY <2>1, <2>2 DEF NackBatch, Owed, Ready
<1>8. CASE InsertFails(w)
  <2>1. dbRows' = dbRows /\ writerFaults' = writerFaults
    BY <1>8 DEF InsertFails
  <2>2. QED
    BY <1>1, <1>4, <1>7, <1>8, <2>1, CountsStay DEF RowsInv
<1>9. CASE InsertUnheard(w)
  <2>1. writerFaults' # 0
    BY <1>3, <1>9 DEF InsertUnheard, WriterFault
  <2>2. \A e \in Event : dbRows'[e] = dbRows[e] + Count(e, writing[w])
    BY <1>9 DEF InsertUnheard, InsertRows, Count
  <2>3. \A e \in Event : Count(e, Owed)' = Count(e, Owed)
    BY <1>7, <1>9 DEF Count, Occurrences
  <2>4. ASSUME NEW e \in Event PROVE dbRows'[e] + Count(e, Owed)' >= Count(e, enriched)
    <3>1. dbRows[e] + Count(e, Owed) >= Count(e, enriched)
      BY DEF RowsInv, NoRowMissing
    <3>2. /\ dbRows[e] \in Nat /\ Count(e, Owed) \in Nat /\ Count(e, enriched) \in Nat
          /\ Count(e, writing[w]) \in Nat
      BY BatchCounted
    <3>3. QED
      BY <2>2, <2>3, <3>1, <3>2
  <2>5. NoRowMissing' /\ OneRowEach'
    BY <1>5, <2>1, <2>4 DEF NoRowMissing, OneRowEach
  <2>6. QED
    BY <1>4, <2>5
<1>10. QED
  BY <1>6, <1>8, <1>9

\* Stop(), a lost connection, the end of the process: what was unsettled is in the queue.
LEMMA WriterFaultRows ==
  ASSUME RowsInv, UNCHANGED enrichmentVars, LoseEnriched \/ StopWriter \/ WriterEnds
  PROVE  Batches' /\ NoRowMissing' /\ OneRowEach'
<1>1. UNCHANGED <<enriched, dbRows>> /\ Owed' = Owed
  BY DEF LoseEnriched, StopWriter, WriterEnds, Redeliver, enrichedVars, Owed
<1>2. writerFaults' # 0
  <2>1. writerFaults \in Nat /\ (writerFaults = 0 => ~ writerStop)
    BY WriterAssumption DEF RowsInv, Batches, StageInv, StageTypes, FaultsOK, WriterAssumption
  <2>2. QED
    BY <2>1 DEF LoseEnriched, StopWriter, WriterEnds, WriterFault
<1>3. NoRowMissing' /\ OneRowEach'
  BY <1>1, <1>2, CountsStay DEF RowsInv
<1>4. CASE LoseEnriched
  <2>1. /\ writerOpen /\ writerOpen' = FALSE /\ waiting' = waiting \cup delivered /\ delivered' = {}
        /\ UNCHANGED <<writeBatch, writeChan, writing>>
    BY <1>4 DEF LoseEnriched, Redeliver
  <2>2. Ready \subseteq Ready'
    BY <2>1 DEF Ready
  <2>3. ApartInMemory'
    BY <2>1 DEF RowsInv, Batches, ApartInMemory
  <2>4. QED
    BY <1>2, <1>3, <2>1, <2>2, <2>3 DEF RowsInv, Batches
<1>5. CASE StopWriter
  <2>1. UNCHANGED <<writerOpen, waiting, delivered, writeBatch, writeChan, writing>>
    BY <1>5 DEF StopWriter, enrichedVars
  <2>2. QED
    BY <1>2, <1>3, <2>1, BatchesStay DEF RowsInv, Batches, Ready
<1>6. CASE WriterEnds
  <2>1. /\ writerOpen' = TRUE /\ writeBatch' = {} /\ writeChan' = <<>>
        /\ writing' = [v \in Writer |-> {}]
    BY <1>6 DEF WriterEnds
  <2>2. DOMAIN writeChan' = {}
    BY <2>1
  <2>3. ApartInMemory'
    BY <2>1, <2>2 DEF ApartInMemory
  <2>4. QED
    BY <1>2, <1>3, <2>1, <2>2, <2>3 DEF Batches
<1>7. QED
  BY <1>4, <1>5, <1>6

LEMMA RowsStart == TwoStageInit => RowsInv
<1>1. SUFFICES ASSUME TwoStageInit PROVE RowsInv
  OBVIOUS
<1> USE <1>1 DEF TwoStageInit, EnrichedInit, WriterInit
<1>2. StageInv
  BY StagesMade
<1>3. Batches
  BY DEF Batches, ApartInMemory, Ready
<1>4. Owed = {} /\ enriched = {} /\ \A e \in Event : dbRows[e] = 0
  BY DEF Owed
<1>5. \A e : Count(e, {}) = 0
  BY FS_EmptySet DEF Count, Occurrences
<1>6. NoRowMissing /\ OneRowEach
  BY <1>4, <1>5 DEF NoRowMissing, OneRowEach
<1>7. QED
  BY <1>2, <1>3, <1>6 DEF RowsInv

LEMMA RowsStep == RowsInv /\ [TwoStageNext]_twoStageVars => RowsInv'
<1> SUFFICES ASSUME RowsInv, [TwoStageNext]_twoStageVars PROVE RowsInv'
  OBVIOUS
<1>1. StageInv'
  BY StageStep DEF RowsInv
<1>2. CASE EnrichmentNext /\ UNCHANGED writerVars
  BY <1>1, <1>2, EnrichmentAdds DEF RowsInv
<1>3. CASE WriterNext /\ UNCHANGED enrichmentVars
  <2>1. CASE (\E m \in waiting : CollectMessage(m)) \/ Flush \/ BatcherReturns \/ \E w \in Writer : TakeBatch(w)
    BY <1>1, <1>3, <2>1, BatcherMoves DEF RowsInv
  <2>2. CASE \E w \in Writer : InsertSucceeds(w) \/ InsertFails(w) \/ InsertUnheard(w)
    BY <1>1, <1>3, <2>2, WriterRows DEF RowsInv
  <2>3. CASE LoseEnriched \/ StopWriter \/ WriterEnds
    BY <1>1, <1>3, <2>3, WriterFaultRows DEF RowsInv
  <2>4. QED
    BY <1>3, <2>1, <2>2, <2>3 DEF WriterNext
<1>4. CASE UNCHANGED twoStageVars
  <2>1. /\ UNCHANGED <<enriched, waiting, delivered>>
        /\ UNCHANGED <<dbRows, writerOpen, batcherOn, writeBatch, writeChan, writing, retries, writerStop, writerFaults>>
    BY <1>4 DEF twoStageVars, enrichedVars, writerVars
  <2>2. Batches'
    BY <2>1, BatchesStay DEF RowsInv, Batches, Ready
  <2>3. QED
    BY <1>1, <2>1, <2>2, CountsStay DEF RowsInv, Owed
<1>5. QED
  BY <1>2, <1>3, <1>4 DEF TwoStageNext

\* No row is lost: an event has as many rows as it has places in the messages that have
\* left the enriched queue for good, or more (dbwriter/service.go, batcher, writeBatch),
\* whatever fails, is retried, stopped or restarted.
THEOREM EveryPlaceHasItsRow == TwoStageSpec => []NoRowMissing
BY RowsStart, RowsStep, PTL DEF TwoStageSpec, RowsInv

\* And no row is double while only INSERTs fail: until a channel is lost, an INSERT
\* committed unheard, Stop() called or the process ended, retries and messages given back
\* to the queue leave each event with exactly one row for each of its places.
THEOREM FailedInsertsDoubleNothing == TwoStageSpec => []OneRowEach
BY RowsStart, RowsStep, PTL DEF TwoStageSpec, RowsInv

\* A message that has left the queue for good is never inserted again, not even by a
\* writer that still held it when the connection was lost or Stop() called: a step that
\* adds a row for an event inserts a message the queue still owes.
THEOREM OnlyOwedIsInserted ==
  TwoStageSpec =>
    [][\A e \in Event : dbRows'[e] > dbRows[e] => \E m \in Owed : e \in Elements(m.events)]_twoStageVars
<1>1. ASSUME RowsInv, TwoStageNext, NEW e \in Event, dbRows'[e] > dbRows[e]
      PROVE  \E m \in Owed : e \in Elements(m.events)
  <2>1. dbRows' # dbRows
    <3>1. dbRows[e] \in Nat
      BY <1>1 DEF RowsInv, StageInv, StageTypes, WriteOK
    <3>2. QED
      BY <1>1, <3>1
  <2>2. PICK w \in Writer : InsertRows(writing[w])
    BY <1>1, <2>1 DEF TwoStageNext, writerVars, WriterNext, CollectMessage, Flush, BatcherReturns, TakeBatch,
       InsertSucceeds, InsertFails, InsertUnheard, LoseEnriched, StopWriter, WriterEnds
  <2>3. Occurrences(e, writing[w]) # {}
    <3>1. dbRows'[e] = dbRows[e] + Cardinality(Occurrences(e, writing[w])) /\ dbRows[e] \in Nat
      BY <1>1, <2>2 DEF InsertRows, RowsInv, StageInv, StageTypes, WriteOK
    <3>2. Cardinality({}) = 0
      BY FS_EmptySet
    <3>3. QED
      BY <1>1, <3>1, <3>2
  <2>4. PICK m \in writing[w] : \E i \in DOMAIN m.events : m.events[i] = e
    BY <2>3 DEF Occurrences
  <2>5. m \in Owed
    BY <1>1, <2>4 DEF RowsInv, Batches, Ready, Owed
  <2>6. QED
    BY <2>4, <2>5 DEF Elements
<1>2. RowsInv /\ [TwoStageNext]_twoStageVars =>
        [\A e \in Event : dbRows'[e] > dbRows[e] => \E m \in Owed : e \in Elements(m.events)]_twoStageVars
  BY <1>1
<1>3. QED
  BY <1>2, RowsStart, RowsStep, PTL DEF TwoStageSpec
=============================================================================
