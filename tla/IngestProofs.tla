----------------------------- MODULE IngestProofs -----------------------------
(***************************************************************************)
(* Proofs about Ingest for every set of messages, prefetch window, batch   *)
(* size, pipeline variant and number of faults.                            *)
(***************************************************************************)
EXTENDS Ingest, FiniteSetTheorems, TLAPS

(***************************************************************************)
(* The inductive invariant.  NoLoss, HeldIsPending and SettledOnce are not *)
(* inductive alone: acknowledging is safe only because an acknowledged     *)
(* batch has been stored (AckMeansStored), and an Ack on the working       *)
(* channel cannot pull a message from under a buffered or batched copy     *)
(* only because such an Ack comes from the current subscription            *)
(* (CurrentReader) and places are disjoint (OnePlace).                     *)
(***************************************************************************)
OnePlace ==
  /\ ready \cap unacked = {}
  /\ ready \cap abandoned = {}
  /\ unacked \cap abandoned = {}
  /\ InBroker \subseteq published

BatchWellFormed ==
  \A d \in batch : d.msg \notin Malformed /\ d.epoch \in 1..epoch

CurrentReader == \A d \in batch : Live(d.epoch) => subscribed = d.epoch

AckMeansStored == pc = "ack" => \A d \in batch : Persisted(d.msg)

SelectSubscribed ==
  /\ pc = "select" => subscribed > 0
  /\ pc \in {"insert", "ack", "nack"} /\ after = "select" => subscribed > 0
  /\ channel = "open" => epoch > 0

IInv ==
  /\ TypeOK
  /\ OnePlace
  /\ BatchWellFormed
  /\ CurrentReader
  /\ AckMeansStored
  /\ SelectSubscribed
  /\ NoLoss
  /\ HeldIsPending
  /\ SettledOnce

LEMMA CopiesFacts ==
  ASSUME TypeOK
  PROVE  /\ \A m \in Message : Copies(m) \in Nat
         /\ \A d \in batch : d.epoch \in 1..epoch => Copies(d.msg) > 0
<1> DEFINE E(m) == {e \in 1..epoch : [msg |-> m, epoch |-> e] \in batch}
<1>1. \A m \in Message : IsFiniteSet(E(m))
  <2>1. epoch \in Nat
    BY DEF TypeOK, QueueTypeOK
  <2>2. IsFiniteSet(1..epoch)
    BY <2>1, FS_Interval
  <2>3. QED
    BY <2>2, FS_Subset
<1>2. \A m \in Message : Copies(m) \in Nat
  BY <1>1, FS_CardinalityType DEF Copies
<1>3. ASSUME NEW d \in batch, d.epoch \in 1..epoch
      PROVE  Copies(d.msg) > 0
  <2>1. d \in Delivery
    BY DEF TypeOK
  <2>2. d = [msg |-> d.msg, epoch |-> d.epoch] /\ d.msg \in Message
    BY <2>1 DEF Delivery
  <2>3. d.epoch \in E(d.msg)
    BY <1>3, <2>2
  <2>4. Cardinality(E(d.msg)) # 0
    BY <2>2, <2>3, <1>1, FS_EmptySet
  <2>5. Copies(d.msg) # 0
    BY <2>4 DEF Copies
  <2>6. QED
    BY <2>2, <2>5, <1>2
<1>4. QED
  BY <1>2, <1>3

LEMMA InitIInv == Init => IInv
<1> SUFFICES ASSUME Init PROVE IInv
  OBVIOUS
<1> USE IngestAssumption, QueueAssumption, AttemptsAssumption
    DEF IngestAssumption, QueueAssumption, AttemptsAssumption, Init, QueueInit, ConsumerInit
<1>1. TypeOK
  <2>1. QueueTypeOK
    BY DEF QueueTypeOK
  <2>2. connected \in BOOLEAN /\ sigPending \in BOOLEAN /\ stopping \in BOOLEAN
    BY Zenon
  <2>3. handler \in {"waiting", "reconnecting", "exited"} /\ attempt \in 0..MaxAttempts
    OBVIOUS
  <2>4. pc \in Places /\ after \in {"select", "subscribing", "exit"} /\ batch \subseteq Delivery
    BY DEF Places
  <2>5. rows \in [Message -> Nat] /\ stops \in 0..MaxStops /\ unheard \in 0..MaxUnheard
    OBVIOUS
  <2>6. QED
    BY <2>1, <2>2, <2>3, <2>4, <2>5, Zenon DEF TypeOK, ConsumerTypeOK
<1>2. OnePlace /\ BatchWellFormed /\ CurrentReader /\ AckMeansStored /\ SelectSubscribed
  BY DEF OnePlace, BatchWellFormed, CurrentReader, AckMeansStored, SelectSubscribed, InBroker
<1>3. NoLoss /\ HeldIsPending /\ SettledOnce
  BY DEF NoLoss, HeldIsPending, SettledOnce, Live
<1>4. QED
  BY <1>1, <1>2, <1>3 DEF IInv

\* Type correctness is preserved by every step.
LEMMA TypeStep ==
  ASSUME TypeOK, Next
  PROVE  TypeOK'
<1> USE IngestAssumption, QueueAssumption, AttemptsAssumption
    DEF IngestAssumption, QueueAssumption, AttemptsAssumption
<1> USE DEF TypeOK, QueueTypeOK, ConsumerTypeOK, Places, Delivery, InBroker,
            queueVars, consumerVars, loopVars, FlushThen, Live
<1>1. CASE Broker
  BY <1>1 DEF Broker, Publish, Deliver, DeliverAbandoned, LoseChannel
<1>2. CASE HandleReconnect
  <2>1. connected' \in BOOLEAN /\ sigPending' \in BOOLEAN /\ stopping' \in BOOLEAN
    BY <1>2, Zenon DEF HandleReconnect, ReconnectBegin, ReconnectSucceed, ReconnectFail, OpenChannel
  <2>2. QueueTypeOK'
    BY <1>2 DEF HandleReconnect, ReconnectBegin, ReconnectSucceed, ReconnectFail, OpenChannel
  <2>3. handler' \in {"waiting", "reconnecting", "exited"} /\ attempt' \in 0..MaxAttempts
    BY <1>2 DEF HandleReconnect, ReconnectBegin, ReconnectSucceed, ReconnectFail, OpenChannel
  <2>4. /\ pc' \in Places /\ after' \in {"select", "subscribing", "exit"}
        /\ batch' \subseteq Delivery /\ rows' \in [Message -> Nat] /\ stops' \in 0..MaxStops
        /\ unheard' \in 0..MaxUnheard
    BY <1>2 DEF HandleReconnect, ReconnectBegin, ReconnectSucceed, ReconnectFail, OpenChannel
  <2>5. QED
    BY <2>1, <2>2, <2>3, <2>4, Zenon
<1>3. CASE Start \/ StartWithout
  <2>1. connected' \in BOOLEAN /\ sigPending' \in BOOLEAN /\ stopping' \in BOOLEAN
    BY <1>3, Zenon DEF Start, StartWithout, NewConsumer, OpenChannel
  <2>2. QueueTypeOK'
    BY <1>3 DEF Start, StartWithout, NewConsumer, OpenChannel
  <2>3. handler' \in {"waiting", "reconnecting", "exited"} /\ attempt' \in 0..MaxAttempts
    BY <1>3 DEF Start, StartWithout, NewConsumer, OpenChannel
  <2>4. /\ pc' \in Places /\ after' \in {"select", "subscribing", "exit"}
        /\ batch' \subseteq Delivery /\ rows' \in [Message -> Nat] /\ stops' \in 0..MaxStops
        /\ unheard' \in 0..MaxUnheard
    BY <1>3 DEF Start, StartWithout, NewConsumer, OpenChannel
  <2>5. QED
    BY <2>1, <2>2, <2>3, <2>4, Zenon
<1>4. CASE FirstConsume \/ WaitForConsume
  BY <1>4 DEF FirstConsume, WaitForConsume
<1>5. ASSUME NEW m \in Message, RejectMalformed(m)
      PROVE  TypeOK'
  BY <1>5 DEF RejectMalformed, Settle
<1>6. ASSUME NEW m \in Message, Receive(m)
      PROVE  TypeOK'
  BY <1>6 DEF Receive
<1>7. CASE Tick
  BY <1>7 DEF Tick
<1>8. CASE DeliveriesClosed
  BY <1>8 DEF DeliveriesClosed
<1>9. CASE InsertOK
  BY <1>9, CopiesFacts DEF InsertOK, StoreBatch
<1>10. CASE InsertFail \/ InsertUnheard
  BY <1>10, CopiesFacts DEF InsertFail, InsertUnheard, StoreBatch
<1>11. ASSUME NEW d \in batch, Ack(d)
       PROVE  TypeOK'
  BY <1>11 DEF Ack, Settle
<1>12. ASSUME NEW d \in batch, Nack(d)
       PROVE  TypeOK'
  BY <1>12 DEF Nack, Requeue
<1>13. CASE FlushDone
  BY <1>13 DEF FlushDone
<1>14. CASE Signal
  BY <1>14 DEF Signal
<1>15. CASE ServeSignal
  BY <1>15 DEF ServeSignal
<1>16. CASE DeferredClose
  BY <1>16 DEF DeferredClose, Close, CloseChannel
<1>17. CASE ContextDone
  BY <1>17 DEF ContextDone
<1>18. CASE Exit \/ Fatal \/ Crash
  <2>1. connected' \in BOOLEAN /\ sigPending' \in BOOLEAN /\ stopping' \in BOOLEAN
    BY <1>18, Zenon DEF Exit, Fatal, Crash, Die
  <2>2. QueueTypeOK'
    BY <1>18 DEF Exit, Fatal, Crash, Die
  <2>3. handler' \in {"waiting", "reconnecting", "exited"} /\ attempt' \in 0..MaxAttempts
    BY <1>18 DEF Exit, Fatal, Crash, Die
  <2>4. /\ pc' \in Places /\ after' \in {"select", "subscribing", "exit"}
        /\ batch' \subseteq Delivery /\ rows' \in [Message -> Nat] /\ stops' \in 0..MaxStops
        /\ unheard' \in 0..MaxUnheard
    BY <1>18 DEF Exit, Fatal, Crash, Die
  <2>5. QED
    BY <2>1, <2>2, <2>3, <2>4, Zenon
<1>19. QED
  BY <1>1, <1>2, <1>3, <1>4, <1>5, <1>6, <1>7, <1>8, <1>9, <1>10, <1>11, <1>12,
     <1>13, <1>14, <1>15, <1>16, <1>17, <1>18 DEF Next

Safety ==
  OnePlace /\ BatchWellFormed /\ CurrentReader /\ AckMeansStored /\ SelectSubscribed
  /\ NoLoss /\ HeldIsPending /\ SettledOnce

\* The variables Safety reads, but for where the goroutine is.
core == <<published, ready, unacked, abandoned, channel, epoch, subscribed, inbox,
          batch, rows>>

\* A step that only moves the goroutine (or touches what Safety does not
\* read) preserves Safety if it enters and leaves "ack" and "select" properly.
LEMMA QuietStep ==
  ASSUME IInv, UNCHANGED core,
         pc' = "ack" => pc = "ack",
         pc = "ack" /\ pc' # "ack" => batch = {},
         pc' = "select" => subscribed > 0,
         pc' \in {"insert", "ack", "nack"} /\ after' = "select" => subscribed > 0
  PROVE  Safety'
<1> USE DEF IInv, core
<1>1. OnePlace' /\ BatchWellFormed' /\ CurrentReader' /\ AckMeansStored' /\ SelectSubscribed'
  BY DEF OnePlace, BatchWellFormed, CurrentReader, AckMeansStored, SelectSubscribed,
         InBroker, Live, Persisted
<1>2. NoLoss' /\ HeldIsPending' /\ SettledOnce'
  BY DEF NoLoss, HeldIsPending, SettledOnce, InBroker, Live, Persisted
<1>3. QED
  BY <1>1, <1>2 DEF Safety

\* The broker's own steps: the pipeline's memory does not change.
LEMMA BrokerStep ==
  ASSUME IInv, Broker
  PROVE  Safety'
<1> USE DEF IInv, TypeOK, QueueTypeOK, loopVars
<1>1. ASSUME NEW m \in Message, Publish(m), UNCHANGED <<consumerVars, loopVars>>
      PROVE  Safety'
  <2> USE <1>1 DEF Publish
  <2>1. OnePlace'
    BY DEF OnePlace, InBroker
  <2>2. BatchWellFormed' /\ CurrentReader' /\ AckMeansStored' /\ SelectSubscribed' /\ SettledOnce'
    BY DEF BatchWellFormed, CurrentReader, AckMeansStored, SelectSubscribed, SettledOnce,
           Live, Persisted
  <2>3. NoLoss' /\ HeldIsPending'
    BY DEF NoLoss, HeldIsPending, InBroker, Persisted
  <2>4. QED
    BY <2>1, <2>2, <2>3 DEF Safety
<1>2. ASSUME NEW m \in Message, Deliver(m), UNCHANGED <<consumerVars, loopVars>>
      PROVE  Safety'
  <2> USE <1>2 DEF Deliver
  <2>1. OnePlace'
    BY DEF OnePlace, InBroker
  <2>2. BatchWellFormed' /\ CurrentReader' /\ AckMeansStored' /\ SelectSubscribed'
    BY DEF BatchWellFormed, CurrentReader, AckMeansStored, SelectSubscribed, Live, Persisted
  <2>3. NoLoss' /\ HeldIsPending'
    BY DEF NoLoss, HeldIsPending, InBroker, Persisted
  <2>4. SettledOnce'
    BY DEF SettledOnce, OnePlace, Live
  <2>5. QED
    BY <2>1, <2>2, <2>3, <2>4 DEF Safety
<1>3. ASSUME NEW m \in Message, DeliverAbandoned(m), UNCHANGED <<consumerVars, loopVars>>
      PROVE  Safety'
  <2> USE <1>3 DEF DeliverAbandoned
  <2>1. OnePlace'
    BY DEF OnePlace, InBroker
  <2>2. BatchWellFormed' /\ CurrentReader' /\ AckMeansStored' /\ SelectSubscribed' /\ SettledOnce'
    BY DEF BatchWellFormed, CurrentReader, AckMeansStored, SelectSubscribed, SettledOnce,
           Live, Persisted
  <2>3. NoLoss' /\ HeldIsPending'
    BY DEF NoLoss, HeldIsPending, InBroker, Persisted
  <2>4. QED
    BY <2>1, <2>2, <2>3 DEF Safety
<1>4. ASSUME LoseChannel, UNCHANGED <<consumerVars, loopVars>>
      PROVE  Safety'
  <2> USE <1>4 DEF LoseChannel
  <2>1. OnePlace'
    BY DEF OnePlace, InBroker
  <2>2. BatchWellFormed' /\ CurrentReader' /\ AckMeansStored' /\ SelectSubscribed' /\ SettledOnce'
    BY DEF BatchWellFormed, CurrentReader, AckMeansStored, SelectSubscribed, SettledOnce,
           Live, Persisted
  <2>3. NoLoss' /\ HeldIsPending'
    BY DEF NoLoss, HeldIsPending, InBroker, Persisted
  <2>4. QED
    BY <2>1, <2>2, <2>3 DEF Safety
<1>5. QED
  BY <1>1, <1>2, <1>3, <1>4 DEF Broker

\* Connecting, subscribing and dying: batch and buffer are empty, or belong to
\* a channel that no longer works.
LEMMA LifecycleStep ==
  ASSUME IInv, TypeOK',
         Start \/ (ReconnectSucceed /\ UNCHANGED loopVars) \/ WaitForConsume
           \/ DeliveriesClosed \/ DeferredClose \/ Exit \/ Fatal \/ Crash
  PROVE  Safety'
<1> USE DEF IInv, TypeOK, QueueTypeOK
<1>1. ASSUME Start \/ (ReconnectSucceed /\ UNCHANGED loopVars)
      PROVE  Safety'
  <2> USE <1>1 DEF Start, ReconnectSucceed, NewConsumer, OpenChannel, loopVars
  <2>1. OnePlace' /\ AckMeansStored' /\ SelectSubscribed'
    BY DEF OnePlace, AckMeansStored, SelectSubscribed, InBroker, Persisted
  <2>2. BatchWellFormed'
    BY DEF BatchWellFormed
  <2>3. CurrentReader' /\ SettledOnce'
    BY DEF CurrentReader, SettledOnce, BatchWellFormed, Live
  <2>4. NoLoss' /\ HeldIsPending'
    BY DEF NoLoss, HeldIsPending, InBroker, Persisted
  <2>5. QED
    BY <2>1, <2>2, <2>3, <2>4 DEF Safety
<1>2. ASSUME WaitForConsume
      PROVE  Safety'
  <2> USE <1>2 DEF WaitForConsume
  <2>1. OnePlace' /\ AckMeansStored' /\ BatchWellFormed'
    BY DEF OnePlace, AckMeansStored, BatchWellFormed, InBroker, Persisted
  <2>2. SelectSubscribed'
    BY DEF SelectSubscribed, CanConsume
  <2>3. CurrentReader' /\ SettledOnce'
    BY DEF CurrentReader, SettledOnce, Live
  <2>4. NoLoss' /\ HeldIsPending'
    BY DEF NoLoss, HeldIsPending, InBroker, Persisted
  <2>5. QED
    BY <2>1, <2>2, <2>3, <2>4 DEF Safety
<1>3. ASSUME DeliveriesClosed
      PROVE  Safety'
  <2> USE <1>3 DEF DeliveriesClosed, FlushThen
  <2>1. OnePlace' /\ AckMeansStored' /\ BatchWellFormed' /\ SelectSubscribed'
    BY DEF OnePlace, AckMeansStored, BatchWellFormed, SelectSubscribed, InBroker, Persisted
  <2>2. CurrentReader' /\ SettledOnce'
    BY DEF CurrentReader, SettledOnce, Live
  <2>3. NoLoss' /\ HeldIsPending'
    BY DEF NoLoss, HeldIsPending, InBroker, Persisted
  <2>4. QED
    BY <2>1, <2>2, <2>3 DEF Safety
<1>4. ASSUME DeferredClose
      PROVE  Safety'
  <2> USE <1>4 DEF DeferredClose, Close, CloseChannel
  <2>1. OnePlace' /\ AckMeansStored' /\ BatchWellFormed' /\ SelectSubscribed'
    BY DEF OnePlace, AckMeansStored, BatchWellFormed, SelectSubscribed, InBroker, Persisted
  <2>2. CurrentReader' /\ SettledOnce'
    BY DEF CurrentReader, SettledOnce, Live
  <2>3. NoLoss' /\ HeldIsPending'
    BY DEF NoLoss, HeldIsPending, InBroker, Persisted
  <2>4. QED
    BY <2>1, <2>2, <2>3 DEF Safety
<1>5. ASSUME Die
      PROVE  Safety'
  <2> USE <1>5 DEF Die
  <2>1. OnePlace' /\ AckMeansStored' /\ BatchWellFormed' /\ SelectSubscribed'
    BY DEF OnePlace, AckMeansStored, BatchWellFormed, SelectSubscribed, InBroker, Persisted
  <2>2. CurrentReader' /\ SettledOnce'
    BY DEF CurrentReader, SettledOnce, Live
  <2>3. NoLoss' /\ HeldIsPending'
    BY DEF NoLoss, HeldIsPending, InBroker, Persisted
  <2>4. QED
    BY <2>1, <2>2, <2>3 DEF Safety
<1>6. QED
  BY <1>1, <1>2, <1>3, <1>4, <1>5 DEF Exit, Fatal, Crash

\* The delivery cases of the select statement.
LEMMA DeliveryStep ==
  ASSUME IInv, NEW m \in Message, RejectMalformed(m) \/ Receive(m)
  PROVE  Safety'
<1> USE DEF IInv, TypeOK, QueueTypeOK, loopVars
<1>1. ASSUME RejectMalformed(m)
      PROVE  Safety'
  <2> USE <1>1 DEF RejectMalformed, Settle
  <2>1. OnePlace' /\ AckMeansStored' /\ BatchWellFormed' /\ SelectSubscribed'
    BY DEF OnePlace, AckMeansStored, BatchWellFormed, SelectSubscribed, InBroker, Persisted
  <2>2. CurrentReader' /\ SettledOnce'
    BY DEF CurrentReader, SettledOnce, BatchWellFormed, Live
  <2>3. NoLoss' /\ HeldIsPending'
    BY DEF NoLoss, HeldIsPending, BatchWellFormed, InBroker, Persisted
  <2>4. QED
    BY <2>1, <2>2, <2>3 DEF Safety
<1>2. ASSUME Receive(m)
      PROVE  Safety'
  <2> DEFINE d0 == [msg |-> m, epoch |-> subscribed]
  <2>1. /\ pc = "select" /\ m \in inbox /\ m \notin Malformed
        /\ inbox' = inbox \ {m}
        /\ batch' = batch \cup {d0}
        /\ UNCHANGED <<published, ready, unacked, abandoned, channel, epoch, subscribed, rows>>
    BY <1>2 DEF Receive
  <2>2. pc' \in {"select", "insert"} /\ after' \in {"select", after}
    BY <1>2, <2>1 DEF Receive, FlushThen
  <2>3. subscribed \in 1..epoch
    BY <2>1 DEF SelectSubscribed
  <2>4. d0.msg = m /\ d0.epoch = subscribed
    OBVIOUS
  <2> HIDE DEF d0
  <2>5. OnePlace' /\ AckMeansStored' /\ SelectSubscribed'
    BY <2>1, <2>2, <2>3 DEF OnePlace, AckMeansStored, SelectSubscribed, InBroker
  <2>6. BatchWellFormed' /\ CurrentReader'
    BY <2>1, <2>3, <2>4 DEF BatchWellFormed, CurrentReader, Live
  <2>7. SettledOnce'
    BY <2>1, <2>4 DEF SettledOnce, Live
  <2>8. NoLoss' /\ HeldIsPending'
    BY <2>1, <2>4 DEF NoLoss, HeldIsPending, InBroker, Persisted
  <2>9. QED
    BY <2>5, <2>6, <2>7, <2>8 DEF Safety
<1>3. QED
  BY <1>1, <1>2

\* flush(): the INSERT and the settlements.
LEMMA FlushStep ==
  ASSUME IInv, InsertOK \/ InsertUnheard \/ \E d \in batch : Ack(d) \/ Nack(d)
  PROVE  Safety'
<1> USE DEF IInv, TypeOK, QueueTypeOK
<1>1. ASSUME InsertOK \/ InsertUnheard
      PROVE  Safety'
  <2>1. /\ pc = "insert" /\ pc' \in {"ack", "nack"}
        /\ UNCHANGED <<published, ready, unacked, abandoned, channel, epoch, subscribed,
                       inbox, batch, after>>
        /\ rows' = [m \in Message |-> rows[m] + Copies(m)]
    BY <1>1 DEF InsertOK, InsertUnheard, StoreBatch, queueVars
  <2>2. \A m \in Message : rows[m] \in Nat /\ rows'[m] \in Nat /\ rows'[m] >= rows[m]
    BY <2>1, CopiesFacts
  <2>3. \A d \in batch : Persisted(d.msg)'
    <3> TAKE d \in batch
    <3>1. d.msg \in Message /\ Copies(d.msg) > 0
      BY CopiesFacts DEF Delivery, BatchWellFormed
    <3>2. rows'[d.msg] > 0
      BY <2>1, <3>1, CopiesFacts
    <3>3. QED
      BY <3>2 DEF Persisted
  <2>4. \A m \in Message : Persisted(m) => Persisted(m)'
    BY <2>2 DEF Persisted
  <2>5. OnePlace' /\ BatchWellFormed' /\ CurrentReader' /\ SelectSubscribed' /\ SettledOnce'
    BY <2>1 DEF OnePlace, BatchWellFormed, CurrentReader, SelectSubscribed, SettledOnce,
                InBroker, Live
  <2>6. AckMeansStored'
    BY <2>1, <2>3 DEF AckMeansStored
  <2>7. NoLoss' /\ HeldIsPending'
    BY <2>1, <2>4 DEF NoLoss, HeldIsPending, InBroker
  <2>8. QED
    BY <2>5, <2>6, <2>7 DEF Safety
<1>2. ASSUME NEW d \in batch, Ack(d)
      PROVE  Safety'
  <2> USE <1>2 DEF Ack, Settle
  <2>1. OnePlace' /\ BatchWellFormed' /\ CurrentReader' /\ SelectSubscribed' /\ AckMeansStored'
    BY DEF OnePlace, BatchWellFormed, CurrentReader, SelectSubscribed, AckMeansStored,
           InBroker, Live, Persisted
  <2>2. \A d2 \in batch : d2.msg = d.msg /\ d2.epoch = d.epoch => d2 = d
    BY DEF Delivery
  <2>3. SettledOnce'
    BY <2>2 DEF SettledOnce, CurrentReader, Live
  <2>4. NoLoss' /\ HeldIsPending'
    BY DEF NoLoss, HeldIsPending, AckMeansStored, SettledOnce, CurrentReader, InBroker,
           Live, Persisted
  <2>5. QED
    BY <2>1, <2>3, <2>4 DEF Safety
<1>3. ASSUME NEW d \in batch, Nack(d)
      PROVE  Safety'
  <2> USE <1>3 DEF Nack, Requeue
  <2>1. d.msg \in Message /\ (Live(d.epoch) => d.msg \in unacked)
    BY DEF Delivery, SettledOnce
  <2>2. InBroker' = InBroker
    BY <2>1 DEF InBroker
  <2>3. OnePlace'
    BY <2>1, <2>2 DEF OnePlace, InBroker
  <2>4. BatchWellFormed' /\ CurrentReader' /\ SelectSubscribed' /\ AckMeansStored'
    BY DEF BatchWellFormed, CurrentReader, SelectSubscribed, AckMeansStored, Live
  <2>5. \A d2 \in batch : d2.msg = d.msg /\ d2.epoch = d.epoch => d2 = d
    BY DEF Delivery
  <2>6. SettledOnce'
    BY <2>5 DEF SettledOnce, CurrentReader, Live
  <2>7. NoLoss' /\ HeldIsPending'
    BY <2>2 DEF NoLoss, HeldIsPending, Persisted
  <2>8. QED
    BY <2>3, <2>4, <2>6, <2>7 DEF Safety
<1>4. QED
  BY <1>1, <1>2, <1>3

LEMMA StepIInv ==
  ASSUME IInv, [Next]_vars
  PROVE  IInv'
<1>1. CASE Next
  <2>1. TypeOK'
    BY <1>1, TypeStep DEF IInv
  <2>2. Safety'
    <3>1. CASE Broker
      BY <3>1, BrokerStep
    <3>2. CASE Start \/ (ReconnectSucceed /\ UNCHANGED loopVars) \/ WaitForConsume
                \/ DeliveriesClosed \/ DeferredClose \/ Exit \/ Fatal \/ Crash
      BY <2>1, <3>2, LifecycleStep
    <3>3. CASE \E m \in Message : RejectMalformed(m) \/ Receive(m)
      BY <3>3, DeliveryStep
    <3>4. CASE InsertOK \/ InsertUnheard \/ \E d \in batch : Ack(d) \/ Nack(d)
      BY <3>4, FlushStep
    <3>5. CASE (ReconnectBegin \/ ReconnectFail) /\ UNCHANGED loopVars
      <4>1. UNCHANGED core /\ UNCHANGED <<pc, after>>
        BY <3>5 DEF ReconnectBegin, ReconnectFail, queueVars, loopVars, core
      <4>2. QED
        BY <4>1, QuietStep DEF IInv, SelectSubscribed
    <3>6. CASE StartWithout \/ FirstConsume \/ Signal
      <4>1. UNCHANGED core /\ UNCHANGED after
        BY <3>6 DEF StartWithout, FirstConsume, Signal, queueVars, core
      <4>2. pc' = pc \/ (pc \in {"down", "firstConsume"} /\ pc' \in {"disabled", "starting"})
        BY <3>6 DEF StartWithout, FirstConsume, Signal
      <4>3. QED
        BY <4>1, <4>2, QuietStep DEF IInv, SelectSubscribed
    <3>7. CASE Tick \/ ServeSignal \/ ContextDone
      <4>1. UNCHANGED core
        BY <3>7 DEF Tick, ServeSignal, ContextDone, queueVars, core
      <4>2. /\ pc \in {"starting", "subscribing", "select"}
            /\ \/ pc' \in {"insert", "select"} /\ pc = "select"
               \/ pc' = "exit"
        BY <3>7 DEF Tick, ServeSignal, ContextDone, FlushThen
      <4>3. QED
        BY <4>1, <4>2, QuietStep DEF IInv, SelectSubscribed
    <3>8. CASE InsertFail \/ FlushDone
      <4>1. UNCHANGED core /\ UNCHANGED after
        BY <3>8 DEF InsertFail, FlushDone, queueVars, core
      <4>2. \/ pc = "insert" /\ pc' = "nack"
            \/ pc \in {"ack", "nack"} /\ pc' = after /\ batch = {}
        BY <3>8 DEF InsertFail, FlushDone
      <4>3. after \in {"select", "subscribing", "exit"}
        BY DEF IInv, TypeOK
      <4>4. QED
        BY <4>1, <4>2, <4>3, QuietStep DEF IInv, SelectSubscribed
    <3>9. QED
      BY <1>1, <3>1, <3>2, <3>3, <3>4, <3>5, <3>6, <3>7, <3>8 DEF Next, HandleReconnect
  <2>3. QED
    BY <2>1, <2>2 DEF Safety, IInv
<1>2. CASE UNCHANGED vars
  <2>1. UNCHANGED core /\ UNCHANGED <<pc, after>>
    BY <1>2 DEF vars, core, queueVars, loopVars
  <2>2. Safety'
    BY <2>1, QuietStep DEF IInv, SelectSubscribed
  <2>3. TypeOK'
    BY <1>2 DEF IInv, TypeOK, QueueTypeOK, ConsumerTypeOK, vars, queueVars, consumerVars, loopVars
  <2>4. QED
    BY <2>2, <2>3 DEF Safety, IInv
<1>3. QED
  BY <1>1, <1>2

\* The pipeline never leaves its types (the goroutine positions, counters
\* within their bounds, deliveries of real epochs).
THEOREM TypeCorrect == Spec => []TypeOK
<1>1. IInv => TypeOK
  BY DEF IInv
<1>2. QED
  BY InitIInv, StepIInv, <1>1, PTL DEF Spec

\* At-least-once: whatever is lost, crashes or fails, a well-formed message is
\* still owed by the broker or is in the table.
THEOREM NothingLost == Spec => []NoLoss
<1>1. IInv => NoLoss
  BY DEF IInv
<1>2. QED
  BY InitIInv, StepIInv, <1>1, PTL DEF Spec

\* The loop never holds a message that was acknowledged elsewhere.
THEOREM BatchIsPending == Spec => []HeldIsPending
<1>1. IInv => HeldIsPending
  BY DEF IInv
<1>2. QED
  BY InitIInv, StepIInv, <1>1, PTL DEF Spec

\* No delivery is settled twice on a working channel.
THEOREM NoDoubleSettlement == Spec => []SettledOnce
<1>1. IInv => SettledOnce
  BY DEF IInv
<1>2. QED
  BY InitIInv, StepIInv, <1>1, PTL DEF Spec

----------------------------------------------------------------------------
(* The pipeline implements AtLeastOnce *)

\* Settling a live delivery takes exactly that message out of the broker.
LEMMA LiveSettle ==
  ASSUME OnePlace, NEW m \in unacked,
         unacked' = unacked \ {m}, UNCHANGED <<ready, abandoned>>
  PROVE  m \in InBroker /\ InBroker' = InBroker \ {m}
BY DEF OnePlace, InBroker

LEMMA NoCopies ==
  ASSUME NEW m \in Message, \A d \in batch : d.msg # m
  PROVE  Copies(m) = 0
<1>1. {e \in 1..epoch : [msg |-> m, epoch |-> e] \in batch} = {}
  OBVIOUS
<1>2. QED
  BY <1>1, FS_EmptySet DEF Copies

\* A step that changes neither what the broker owes nor the table is a stutter
\* of the abstract queue.
LEMMA StutterStep ==
  ASSUME UNCHANGED <<published, rows>>, InBroker' = InBroker
  PROVE  UNCHANGED Promise!vars
BY DEF Promise!vars

LEMMA PromiseInsert ==
  ASSUME IInv, InsertOK \/ InsertUnheard
  PROVE  Promise!Next
<1> DEFINE S == {d.msg : d \in batch}
<1>1. /\ pc = "insert"
      /\ UNCHANGED <<published, ready, unacked, abandoned>>
      /\ rows' = [m \in Message |-> rows[m] + Copies(m)]
  BY DEF InsertOK, InsertUnheard, StoreBatch, queueVars
<1>2. InBroker' = InBroker
  BY <1>1 DEF InBroker
<1>3. S \in SUBSET (InBroker \ Malformed)
  BY <1>1 DEF IInv, HeldIsPending, BatchWellFormed
<1>4. rows \in [Message -> Nat] /\ \A m \in Message : Copies(m) \in Nat
  BY CopiesFacts DEF IInv, TypeOK
<1>5. rows' \in [Message -> Nat]
  BY <1>1, <1>4
<1>6. \A m \in S : rows'[m] > rows[m]
  <2> TAKE m \in S
  <2>1. PICK d \in batch : m = d.msg
    OBVIOUS
  <2>2. m \in Message
    BY <2>1 DEF IInv, TypeOK, Delivery
  <2>3. Copies(m) > 0
    BY <2>1, CopiesFacts DEF IInv, BatchWellFormed
  <2>4. QED
    BY <2>2, <2>3, <1>1, <1>4
<1>7. \A m \in Message \ S : rows'[m] = rows[m]
  <2> TAKE m \in Message \ S
  <2>1. Copies(m) = 0
    BY NoCopies
  <2>2. QED
    BY <2>1, <1>1, <1>4
<1> HIDE DEF S
<1>8. Promise!Store(S)
  BY <1>1, <1>2, <1>5, <1>6, <1>7 DEF Promise!Store
<1>9. QED
  BY <1>3, <1>8 DEF Promise!Next

LEMMA PromiseSettle ==
  ASSUME IInv,
         (\E m \in Message : RejectMalformed(m)) \/ (\E d \in batch : Ack(d))
  PROVE  [Promise!Next]_(Promise!vars)
<1> USE DEF IInv, TypeOK, QueueTypeOK
<1>1. ASSUME NEW m \in Message, RejectMalformed(m)
      PROVE  [Promise!Next]_(Promise!vars)
  <2>1. m \in inbox /\ m \in Malformed /\ UNCHANGED <<published, ready, abandoned, rows>>
    BY <1>1 DEF RejectMalformed, Settle, loopVars
  <2>2. CASE Live(subscribed)
    <3>1. m \in unacked /\ unacked' = unacked \ {m}
      BY <1>1, <2>1, <2>2 DEF RejectMalformed, Settle, SettledOnce
    <3>2. m \in InBroker /\ InBroker' = InBroker \ {m}
      BY <2>1, <3>1, LiveSettle
    <3>3. Promise!Finish(m)
      BY <2>1, <3>2 DEF Promise!Finish
    <3>4. QED
      BY <3>2, <3>3 DEF Promise!Next
  <2>3. CASE ~Live(subscribed)
    <3>1. UNCHANGED unacked
      BY <1>1, <2>3 DEF RejectMalformed, Settle
    <3>2. QED
      BY <2>1, <3>1, StutterStep DEF InBroker
  <2>4. QED
    BY <2>2, <2>3
<1>2. ASSUME NEW d \in batch, Ack(d)
      PROVE  [Promise!Next]_(Promise!vars)
  <2>1. UNCHANGED <<published, ready, abandoned, rows>>
    BY <1>2 DEF Ack, Settle
  <2>2. CASE Live(d.epoch)
    <3>1. d.msg \in unacked /\ unacked' = unacked \ {d.msg}
      BY <1>2, <2>2 DEF Ack, Settle, SettledOnce
    <3>2. d.msg \in InBroker /\ InBroker' = InBroker \ {d.msg}
      BY <2>1, <3>1, LiveSettle
    <3>3. d.msg \in Message /\ (rows[d.msg] > 0 \/ Events[d.msg] = 0)
      BY <1>2 DEF Ack, AckMeansStored, Persisted, Delivery
    <3>4. Promise!Finish(d.msg)
      BY <2>1, <3>2, <3>3 DEF Promise!Finish
    <3>5. QED
      BY <3>2, <3>4 DEF Promise!Next
  <2>3. CASE ~Live(d.epoch)
    <3>1. UNCHANGED unacked
      BY <1>2, <2>3 DEF Ack, Settle
    <3>2. QED
      BY <2>1, <3>1, StutterStep DEF InBroker
  <2>4. QED
    BY <2>2, <2>3
<1>3. QED
  BY <1>1, <1>2

LEMMA PromiseStep ==
  ASSUME IInv, [Next]_vars
  PROVE  [Promise!Next]_(Promise!vars)
<1> USE DEF IInv, TypeOK, QueueTypeOK
<1>1. CASE Broker
  <2>1. UNCHANGED rows
    BY <1>1 DEF Broker, loopVars
  <2>2. ASSUME NEW m \in Message, Publish(m)
        PROVE  Promise!Next
    <3>1. m \notin published /\ published' = published \cup {m} /\ InBroker' = InBroker \cup {m}
      BY <2>2 DEF Publish, InBroker
    <3>2. Promise!Accept(m)
      BY <2>1, <3>1 DEF Promise!Accept
    <3>3. QED
      BY <3>2 DEF Promise!Next
  <2>3. ASSUME (\E m \in Message : Deliver(m) \/ DeliverAbandoned(m)) \/ LoseChannel
        PROVE  UNCHANGED Promise!vars
    <3>1. InBroker' = InBroker /\ UNCHANGED published
      BY <2>3 DEF Deliver, DeliverAbandoned, LoseChannel, InBroker
    <3>2. QED
      BY <2>1, <3>1, StutterStep
  <2>4. QED
    BY <1>1, <2>2, <2>3 DEF Broker
<1>2. CASE HandleReconnect \/ Start \/ StartWithout \/ FirstConsume \/ WaitForConsume
  <2>1. UNCHANGED <<published, ready, unacked, abandoned, rows>>
    BY <1>2 DEF HandleReconnect, ReconnectBegin, ReconnectSucceed, ReconnectFail, Start,
                StartWithout, FirstConsume, WaitForConsume, queueVars, loopVars
  <2>2. QED
    BY <2>1, StutterStep DEF InBroker
<1>3. CASE (\E m \in Message : RejectMalformed(m)) \/ (\E d \in batch : Ack(d))
  BY <1>3, PromiseSettle
<1>4. CASE (\E m \in Message : Receive(m)) \/ Tick \/ DeliveriesClosed
  <2>1. UNCHANGED <<published, ready, unacked, abandoned, rows>>
    BY <1>4 DEF Receive, Tick, DeliveriesClosed, queueVars
  <2>2. QED
    BY <2>1, StutterStep DEF InBroker
<1>5. CASE InsertOK \/ InsertUnheard
  BY <1>5, PromiseInsert
<1>6. CASE InsertFail \/ FlushDone \/ Signal \/ ServeSignal \/ ContextDone
  <2>1. UNCHANGED <<published, ready, unacked, abandoned, rows>>
    BY <1>6 DEF InsertFail, FlushDone, Signal, ServeSignal, ContextDone, queueVars
  <2>2. QED
    BY <2>1, StutterStep DEF InBroker
<1>7. ASSUME NEW d \in batch, Nack(d)
      PROVE  UNCHANGED Promise!vars
  <2>1. Live(d.epoch) => d.msg \in unacked
    BY DEF SettledOnce
  <2>2. InBroker' = InBroker /\ UNCHANGED <<published, rows>>
    BY <1>7, <2>1 DEF Nack, Requeue, InBroker
  <2>3. QED
    BY <2>2, StutterStep
<1>8. CASE DeferredClose \/ Exit \/ Fatal \/ Crash
  <2>1. InBroker' = InBroker /\ UNCHANGED <<published, rows>>
    BY <1>8 DEF DeferredClose, Close, CloseChannel, Exit, Fatal, Crash, Die, InBroker
  <2>2. QED
    BY <2>1, StutterStep
<1>9. CASE UNCHANGED vars
  <2>1. InBroker' = InBroker /\ UNCHANGED <<published, rows>>
    BY <1>9 DEF vars, queueVars, loopVars, InBroker
  <2>2. QED
    BY <2>1, StutterStep
<1>10. QED
  BY <1>1, <1>2, <1>3, <1>4, <1>5, <1>6, <1>7, <1>8, <1>9 DEF Next

\* The pipeline, its consumer and the broker together implement the abstract
\* at-least-once queue: messages leave only stored or malformed, and only
\* pending messages are stored (again).
THEOREM PipelineImplementsPromise == Spec => ImplementsPromise
<1>1. Init => Promise!Init
  BY DEF Init, QueueInit, Promise!Init, InBroker
<1>2. IInv /\ [Next]_vars => [Promise!Next]_(Promise!vars)
  BY PromiseStep
<1>3. QED
  BY InitIInv, StepIInv, <1>1, <1>2, PTL DEF Spec, ImplementsPromise, Promise!Spec

----------------------------------------------------------------------------
(***************************************************************************)
(* Duplicates need a fault.  Each message has a budget of one insertion    *)
(* per channel opened and one per INSERT whose outcome was not heard.      *)
(* Besides the rows it counts what may still become a row without a new    *)
(* channel: the copies in the batch (unless they are being acknowledged;   *)
(* while they are being returned, only the one that goes back to the       *)
(* queue), the buffered delivery, and the one the broker can still make on *)
(* this channel.                                                           *)
(***************************************************************************)
Held(m) ==
  IF pc = "ack" THEN 0
  ELSE IF pc = "nack"
    THEN IF channel = "open" /\ [msg |-> m, epoch |-> epoch] \in batch THEN 1 ELSE 0
    ELSE Copies(m)

Buffered(m) == IF m \in inbox THEN 1 ELSE 0

Offered(m) == IF channel = "open" /\ (m \in ready \/ m \notin published) THEN 1 ELSE 0

WithinBudget(m) == rows[m] + Held(m) + Buffered(m) + Offered(m) <= epoch + unheard

Budgeted == \A m \in Message : WithinBudget(m)

LEMMA HeldFacts ==
  ASSUME IInv, NEW m \in Message
  PROVE  /\ Copies(m) \in Nat /\ Held(m) \in Nat
         /\ pc # "ack" /\ pc # "nack" => Held(m) = Copies(m)
         /\ channel = "open" /\ [msg |-> m, epoch |-> epoch] \in batch => Copies(m) > 0
<1>1. Copies(m) \in Nat
  BY CopiesFacts DEF IInv
<1>2. Held(m) \in Nat
  BY <1>1 DEF Held
<1>3. ASSUME channel = "open", [msg |-> m, epoch |-> epoch] \in batch
      PROVE  Copies(m) > 0
  <2> DEFINE d == [msg |-> m, epoch |-> epoch]
  <2>1. d \in batch /\ d.msg = m /\ d.epoch = epoch
    BY <1>3
  <2> HIDE DEF d
  <2>2. d.epoch \in 1..epoch
    BY <2>1 DEF IInv, BatchWellFormed
  <2>3. Copies(d.msg) > 0
    BY <2>1, <2>2, CopiesFacts DEF IInv
  <2>4. QED
    BY <2>1, <2>3
<1>4. QED
  BY <1>1, <1>2, <1>3 DEF Held

\* A new channel has delivered nothing yet.
LEMMA CopiesNewEpoch ==
  ASSUME IInv, UNCHANGED batch, epoch' = epoch + 1, NEW m \in Message
  PROVE  /\ Copies(m)' = Copies(m)
         /\ [msg |-> m, epoch |-> epoch'] \notin batch
<1>1. epoch \in Nat
  BY DEF IInv, TypeOK, QueueTypeOK
<1>2. [msg |-> m, epoch |-> epoch + 1] \notin batch
  <2> DEFINE d == [msg |-> m, epoch |-> epoch + 1]
  <2>1. d.epoch = epoch + 1
    OBVIOUS
  <2> HIDE DEF d
  <2>2. d \notin batch
    BY <2>1, <1>1 DEF IInv, BatchWellFormed
  <2>3. QED
    BY <2>2 DEF d
<1>3. {e \in 1..(epoch + 1) : [msg |-> m, epoch |-> e] \in batch}
        = {e \in 1..epoch : [msg |-> m, epoch |-> e] \in batch}
  BY <1>1, <1>2
<1>4. QED
  BY <1>2, <1>3 DEF Copies

\* Receiving a delivery adds at most one copy, of that message.
LEMMA CopiesReceive ==
  ASSUME IInv, UNCHANGED epoch, NEW m \in Message, NEW n \in Message, NEW e0 \in Nat,
         batch' = batch \cup {[msg |-> n, epoch |-> e0]}
  PROVE  /\ Copies(m)' \in Nat
         /\ Copies(m)' <= Copies(m) + (IF m = n THEN 1 ELSE 0)
<1> DEFINE E == {e \in 1..epoch : [msg |-> m, epoch |-> e] \in batch}
           F == {e \in 1..epoch : [msg |-> m, epoch |-> e] \in batch'}
<1>1. IsFiniteSet(E) /\ Cardinality(E) \in Nat
  <2>1. IsFiniteSet(1..epoch)
    BY FS_Interval DEF IInv, TypeOK, QueueTypeOK
  <2>2. QED
    BY <2>1, FS_Subset, FS_CardinalityType
<1>2. Copies(m) = Cardinality(E) /\ Copies(m)' = Cardinality(F)
  BY DEF Copies
<1>3. CASE m # n
  <2>1. F = E
    BY <1>3
  <2> HIDE DEF E, F
  <2>2. QED
    BY <2>1, <1>1, <1>2, <1>3
<1>4. CASE m = n
  <2>1. F \in SUBSET (E \cup {e0})
    BY <1>4
  <2>2. /\ IsFiniteSet(E \cup {e0})
        /\ Cardinality(E \cup {e0}) \in {Cardinality(E), Cardinality(E) + 1}
    <3> HIDE DEF E
    <3>1. QED
      BY <1>1, FS_AddElement
  <2>3. /\ Cardinality(F) <= Cardinality(E \cup {e0})
        /\ Cardinality(F) \in Nat
    <3> HIDE DEF E, F
    <3>1. QED
      BY <2>1, <2>2, FS_Subset, FS_CardinalityType
  <2>4. Cardinality(F) <= Cardinality(E) + 1
    <3> HIDE DEF E, F
    <3>1. QED
      BY <1>1, <2>2, <2>3
  <2>5. QED
    BY <2>3, <2>4, <1>2, <1>4
<1>5. QED
  BY <1>3, <1>4

\* What the loop holds does not grow while the batch stays and no channel
\* opens: a failed flush keeps at most the copies that return to the queue.
LEMMA HeldShrinks ==
  ASSUME IInv, UNCHANGED <<batch, epoch>>, NEW m \in Message,
         \/ pc \notin {"ack", "nack"} /\ pc' \notin {"ack", "nack"}
         \/ pc' = "ack"
         \/ pc \in {"insert", "nack"} /\ pc' = "nack" /\ (channel' = channel \/ channel' # "open")
         \/ batch = {} /\ pc' \notin {"ack", "nack"}
  PROVE  Held(m)' \in Nat /\ Held(m)' <= Held(m)
<1>1. Copies(m)' = Copies(m)
  BY DEF Copies
<1>2. batch = {} => Copies(m) = 0
  BY NoCopies
<1>3. Held(m) \in Nat /\ Copies(m) \in Nat
  BY HeldFacts
<1>4. CASE pc \notin {"ack", "nack"} /\ pc' \notin {"ack", "nack"}
  BY <1>1, <1>3, <1>4 DEF Held
<1>5. CASE pc' = "ack"
  BY <1>3, <1>5 DEF Held
<1>6. CASE pc \in {"insert", "nack"} /\ pc' = "nack" /\ (channel' = channel \/ channel' # "open")
  BY <1>3, <1>6, HeldFacts DEF Held
<1>7. CASE batch = {} /\ pc' \notin {"ack", "nack"}
  BY <1>1, <1>2, <1>3, <1>7 DEF Held
<1>8. QED
  BY <1>4, <1>5, <1>6, <1>7

\* What the budget adds up, besides Held.
BudgetTypes(m) ==
  /\ rows[m] \in Nat /\ epoch \in Nat /\ unheard \in Nat
  /\ Buffered(m) \in 0..1 /\ Offered(m) \in 0..1

LEMMA BudgetTypesOK ==
  ASSUME IInv, NEW m \in Message
  PROVE  BudgetTypes(m)
<1>1. rows[m] \in Nat /\ epoch \in Nat
  BY DEF IInv, TypeOK, QueueTypeOK
<1>2. unheard \in Nat
  BY IngestAssumption DEF IngestAssumption, IInv, TypeOK
<1>3. QED
  BY <1>1, <1>2 DEF BudgetTypes, Buffered, Offered

\* A step that stores nothing, opens no channel, and adds neither copies nor
\* deliveries stays within the budget.
LEMMA BudgetQuiet ==
  ASSUME IInv, NEW m \in Message, WithinBudget(m), UNCHANGED <<rows, epoch, unheard>>,
         Held(m)' \in Nat, Held(m)' <= Held(m),
         Buffered(m)' <= Buffered(m), Offered(m)' <= Offered(m)
  PROVE  WithinBudget(m)'
<1>1. Held(m) \in Nat /\ BudgetTypes(m)
  BY HeldFacts, BudgetTypesOK
<1>2. QED
  BY <1>1 DEF WithinBudget, BudgetTypes, Buffered, Offered

LEMMA BudgetLoopStep ==
  ASSUME IInv, NEW m \in Message, WithinBudget(m),
         \/ \E n \in Message : RejectMalformed(n)
         \/ Tick \/ DeliveriesClosed \/ InsertFail \/ FlushDone
         \/ \E d \in batch : Ack(d)
         \/ StartWithout \/ FirstConsume \/ WaitForConsume
         \/ Signal \/ ServeSignal \/ DeferredClose \/ ContextDone
         \/ (ReconnectBegin \/ ReconnectFail) /\ UNCHANGED loopVars
  PROVE  WithinBudget(m)'
<1> USE DEF queueVars, loopVars
<1>1. /\ UNCHANGED <<rows, epoch, unheard, published>>
      /\ inbox' \subseteq inbox
      /\ channel' = channel \/ channel' # "open"
      /\ channel' = "open" => ready' = ready
  BY DEF RejectMalformed, Settle, Tick, DeliveriesClosed, InsertFail, FlushDone, Ack,
         StartWithout, FirstConsume, WaitForConsume, Signal, ServeSignal, DeferredClose,
         Close, CloseChannel, ContextDone, ReconnectBegin, ReconnectFail
<1>2. Held(m)' \in Nat /\ Held(m)' <= Held(m)
  <2>1. CASE \E d \in batch : Ack(d)
    BY <2>1, HeldFacts DEF Ack, Held
  <2>2. CASE InsertFail \/ FlushDone
    <3>1. after \in {"select", "subscribing", "exit"}
      BY DEF IInv, TypeOK
    <3>2. QED
      BY <2>2, <3>1, HeldShrinks DEF InsertFail, FlushDone
  <2>3. CASE \/ Tick \/ DeliveriesClosed \/ StartWithout \/ FirstConsume \/ WaitForConsume
             \/ ServeSignal \/ ContextDone
    <3>1. /\ UNCHANGED <<batch, epoch>>
          /\ pc \notin {"ack", "nack"} /\ pc' \notin {"ack", "nack"}
      BY <2>3 DEF Tick, DeliveriesClosed, StartWithout, FirstConsume, WaitForConsume,
                  ServeSignal, ContextDone, FlushThen
    <3>2. QED
      BY <3>1, HeldShrinks
  <2>4. CASE \/ \E n \in Message : RejectMalformed(n)
             \/ Signal \/ DeferredClose
             \/ (ReconnectBegin \/ ReconnectFail) /\ UNCHANGED loopVars
    <3>1. UNCHANGED <<batch, epoch, pc>>
      BY <2>4 DEF RejectMalformed, Settle, Signal, DeferredClose, ReconnectBegin, ReconnectFail
    <3>2. QED
      BY <1>1, <3>1, HeldShrinks
  <2>5. QED
    BY <2>1, <2>2, <2>3, <2>4
<1>3. Buffered(m)' <= Buffered(m) /\ Offered(m)' <= Offered(m)
  BY <1>1 DEF Buffered, Offered
<1>4. QED
  BY <1>1, <1>2, <1>3, BudgetQuiet

LEMMA BudgetBrokerStep ==
  ASSUME IInv, NEW m \in Message, WithinBudget(m), Broker
  PROVE  WithinBudget(m)'
<1>1. UNCHANGED <<rows, epoch, unheard, batch, pc>>
  BY DEF Broker, loopVars, Publish, Deliver, DeliverAbandoned, LoseChannel
<1>2. channel' = channel \/ channel' # "open"
  BY DEF Broker, Publish, Deliver, DeliverAbandoned, LoseChannel
<1>3. Held(m)' \in Nat /\ Held(m)' <= Held(m)
  BY <1>1, <1>2, HeldShrinks
<1>4. CASE Deliver(m)
  <2>1. channel = "open" /\ m \in ready /\ m \in published
    BY <1>4 DEF Deliver, Live, IInv, OnePlace, InBroker
  <2>2. m \notin ready' /\ UNCHANGED published
    BY <1>4 DEF Deliver
  <2>3. Offered(m) = 1 /\ Offered(m)' = 0
    BY <2>1, <2>2 DEF Offered
  <2>4. Buffered(m) \in 0..1 /\ Buffered(m)' \in 0..1
    BY DEF Buffered
  <2>5. Held(m) \in Nat /\ BudgetTypes(m)
    BY HeldFacts, BudgetTypesOK
  <2>6. QED
    BY <1>1, <1>3, <2>3, <2>4, <2>5 DEF WithinBudget, BudgetTypes
<1>5. CASE ~Deliver(m)
  <2>1. m \in inbox' => m \in inbox
    BY <1>5 DEF Broker, Publish, Deliver, DeliverAbandoned, LoseChannel
  <2>2. channel' = "open" => channel = "open"
    BY <1>2
  <2>3. ASSUME channel' = "open", m \in ready' \/ m \notin published'
        PROVE  m \in ready \/ m \notin published
    BY <2>3 DEF Broker, Publish, Deliver, DeliverAbandoned, LoseChannel
  <2>4. Buffered(m)' <= Buffered(m) /\ Offered(m)' <= Offered(m)
    BY <2>1, <2>2, <2>3 DEF Buffered, Offered
  <2>5. QED
    BY <1>1, <1>3, <2>4, BudgetQuiet
<1>6. QED
  BY <1>4, <1>5

\* Opening a channel buys one more insertion, and offers one more delivery.
LEMMA BudgetOpenStep ==
  ASSUME IInv, NEW m \in Message, WithinBudget(m),
         Start \/ (ReconnectSucceed /\ UNCHANGED loopVars)
  PROVE  WithinBudget(m)'
<1>1. /\ epoch' = epoch + 1
      /\ UNCHANGED <<batch, rows, unheard, inbox>>
      /\ pc' = pc \/ (pc = "down" /\ pc' \in {"firstConsume", "starting"})
  BY DEF Start, NewConsumer, ReconnectSucceed, OpenChannel, loopVars
<1>2. Copies(m)' = Copies(m) /\ [msg |-> m, epoch |-> epoch'] \notin batch'
  BY <1>1, CopiesNewEpoch
<1>3. Held(m) \in Nat /\ Copies(m) \in Nat /\ BudgetTypes(m)
  BY HeldFacts, BudgetTypesOK
<1>4. Held(m)' \in Nat /\ Held(m)' <= Held(m)
  BY <1>1, <1>2, <1>3 DEF Held
<1>5. Buffered(m)' = Buffered(m) /\ Offered(m)' \in 0..1
  BY <1>1 DEF Buffered, Offered
<1>6. QED
  BY <1>1, <1>3, <1>4, <1>5 DEF WithinBudget, BudgetTypes

\* A buffered delivery becomes a copy.
LEMMA BudgetReceiveStep ==
  ASSUME IInv, NEW m \in Message, WithinBudget(m), NEW n \in Message, Receive(n)
  PROVE  WithinBudget(m)'
<1>1. /\ pc = "select" /\ n \in inbox /\ inbox' = inbox \ {n}
      /\ batch' = batch \cup {[msg |-> n, epoch |-> subscribed]}
      /\ UNCHANGED <<epoch, rows, unheard, channel, ready, published>>
  BY DEF Receive
<1>2. pc' \in {"select", "insert"}
  BY <1>1 DEF Receive, FlushThen
<1>3. subscribed \in Nat
  BY DEF IInv, TypeOK, QueueTypeOK
<1>4. Copies(m)' \in Nat /\ Copies(m)' <= Copies(m) + (IF m = n THEN 1 ELSE 0)
  BY <1>1, <1>3, CopiesReceive
<1>5. Held(m) = Copies(m) /\ Held(m)' = Copies(m)' /\ Held(m) \in Nat
  BY <1>1, <1>2, HeldFacts DEF Held
<1>6. Buffered(m)' = IF m = n THEN 0 ELSE Buffered(m)
  BY <1>1 DEF Buffered
<1>7. m = n => Buffered(m) = 1
  BY <1>1 DEF Buffered
<1>8. Offered(m)' = Offered(m)
  BY <1>1 DEF Offered
<1>9. BudgetTypes(m)
  BY BudgetTypesOK
<1>10. QED
  BY <1>1, <1>4, <1>5, <1>6, <1>7, <1>8, <1>9 DEF WithinBudget, BudgetTypes

\* An INSERT turns every copy into a row.  If its outcome was not heard, one of
\* them goes back to the queue at most.
LEMMA BudgetInsertStep ==
  ASSUME IInv, NEW m \in Message, WithinBudget(m), InsertOK \/ InsertUnheard
  PROVE  WithinBudget(m)'
<1>1. /\ pc = "insert"
      /\ \/ pc' = "ack" /\ UNCHANGED unheard
         \/ pc' = "nack" /\ unheard' = unheard + 1
      /\ rows' = [x \in Message |-> rows[x] + Copies(x)]
      /\ UNCHANGED queueVars
  BY DEF InsertOK, InsertUnheard, StoreBatch
<1>2. Held(m) = Copies(m) /\ Copies(m) \in Nat
  BY <1>1, HeldFacts
<1>3. rows'[m] = rows[m] + Copies(m)
  BY <1>1
<1>4. Held(m)' \in 0..1 /\ (pc' = "ack" => Held(m)' = 0)
  BY <1>1 DEF Held
<1>5. Buffered(m)' = Buffered(m) /\ Offered(m)' = Offered(m) /\ epoch' = epoch
  BY <1>1 DEF Buffered, Offered, queueVars
<1>6. BudgetTypes(m)
  BY BudgetTypesOK
<1>7. QED
  BY <1>1, <1>2, <1>3, <1>4, <1>5, <1>6 DEF WithinBudget, BudgetTypes

\* A copy that is returned can be delivered again.
LEMMA BudgetNackStep ==
  ASSUME IInv, NEW m \in Message, WithinBudget(m), NEW d \in batch, Nack(d)
  PROVE  WithinBudget(m)'
<1>1. /\ pc = "nack" /\ batch' = batch \ {d}
      /\ UNCHANGED <<pc, epoch, channel, rows, unheard, inbox, published>>
      /\ ready' = IF Live(d.epoch) THEN ready \cup {d.msg} ELSE ready
  BY DEF Nack, Requeue
<1>2. d = [msg |-> d.msg, epoch |-> d.epoch]
  BY DEF IInv, TypeOK, Delivery
<1>3. Held(m)' \in 0..1 /\ Held(m) \in 0..1 /\ Held(m)' <= Held(m)
  BY <1>1 DEF Held
<1>4. BudgetTypes(m)
  BY BudgetTypesOK
<1>5. Buffered(m)' = Buffered(m)
  BY <1>1 DEF Buffered
<1>6. CASE Live(d.epoch) /\ d.msg = m
  <2>1. channel = "open" /\ d = [msg |-> m, epoch |-> epoch]
    BY <1>2, <1>6 DEF Live
  <2>2. Held(m) = 1 /\ Held(m)' = 0
    BY <1>1, <2>1 DEF Held
  <2>3. Offered(m)' \in 0..1
    BY DEF Offered
  <2>4. QED
    BY <1>1, <1>4, <1>5, <2>2, <2>3 DEF WithinBudget, BudgetTypes
<1>7. CASE ~(Live(d.epoch) /\ d.msg = m)
  <2>1. Offered(m)' = Offered(m)
    BY <1>1, <1>7 DEF Offered
  <2>2. QED
    BY <1>1, <1>3, <1>4, <1>5, <2>1 DEF WithinBudget, BudgetTypes
<1>8. QED
  BY <1>6, <1>7

\* Death leaves no copy, no buffer and no channel.
LEMMA BudgetDieStep ==
  ASSUME IInv, NEW m \in Message, WithinBudget(m), Die
  PROVE  WithinBudget(m)'
<1>1. pc' = "down" /\ channel' = "closed" /\ UNCHANGED <<rows, epoch, unheard>>
  BY DEF Die
<1>2. Copies(m)' = 0
  <2>1. {e \in 1..epoch' : [msg |-> m, epoch |-> e] \in batch'} = {}
    BY DEF Die
  <2>2. QED
    BY <2>1, FS_EmptySet DEF Copies
<1>3. Held(m)' = 0 /\ Buffered(m)' = 0 /\ Offered(m)' = 0
  BY <1>1, <1>2 DEF Held, Buffered, Offered, Die
<1>4. Held(m) \in Nat /\ BudgetTypes(m)
  BY HeldFacts, BudgetTypesOK
<1>5. QED
  BY <1>1, <1>3, <1>4 DEF WithinBudget, BudgetTypes

LEMMA InitBudgeted == Init => Budgeted
<1> SUFFICES ASSUME Init, NEW m \in Message PROVE WithinBudget(m)
  BY DEF Budgeted
<1>1. Copies(m) = 0
  BY NoCopies DEF Init
<1>2. Held(m) = 0 /\ Buffered(m) = 0 /\ Offered(m) = 0
  BY <1>1 DEF Init, QueueInit, Held, Buffered, Offered
<1>3. QED
  BY <1>2 DEF Init, QueueInit, WithinBudget

LEMMA StepBudgeted ==
  ASSUME IInv, Budgeted, [Next]_vars
  PROVE  Budgeted'
<1> SUFFICES ASSUME NEW m \in Message PROVE WithinBudget(m)'
  BY DEF Budgeted
<1>1. WithinBudget(m)
  BY DEF Budgeted
<1>2. CASE Broker
  BY <1>1, <1>2, BudgetBrokerStep
<1>3. CASE Start \/ (ReconnectSucceed /\ UNCHANGED loopVars)
  BY <1>1, <1>3, BudgetOpenStep
<1>4. ASSUME NEW n \in Message, Receive(n)
      PROVE  WithinBudget(m)'
  BY <1>1, <1>4, BudgetReceiveStep
<1>5. CASE InsertOK \/ InsertUnheard
  BY <1>1, <1>5, BudgetInsertStep
<1>6. ASSUME NEW d \in batch, Nack(d)
      PROVE  WithinBudget(m)'
  BY <1>1, <1>6, BudgetNackStep
<1>7. CASE Exit \/ Fatal \/ Crash
  BY <1>1, <1>7, BudgetDieStep DEF Exit, Fatal, Crash
<1>8. CASE \/ \E n \in Message : RejectMalformed(n)
           \/ Tick \/ DeliveriesClosed \/ InsertFail \/ FlushDone
           \/ \E d \in batch : Ack(d)
           \/ StartWithout \/ FirstConsume \/ WaitForConsume
           \/ Signal \/ ServeSignal \/ DeferredClose \/ ContextDone
           \/ (ReconnectBegin \/ ReconnectFail) /\ UNCHANGED loopVars
  BY <1>1, <1>8, BudgetLoopStep
<1>9. CASE UNCHANGED vars
  BY <1>1, <1>9 DEF vars, queueVars, loopVars, WithinBudget, Held, Copies, Buffered, Offered
<1>10. QED
  BY <1>2, <1>3, <1>4, <1>5, <1>6, <1>7, <1>8, <1>9 DEF Next, HandleReconnect

\* A message has at most one row per channel ever opened and one more per
\* INSERT whose outcome was not heard: a failed INSERT, however often it is
\* repeated, duplicates nothing.
THEOREM DuplicatesAreFaults == Spec => []DuplicatesNeedFault
<1>1. IInv /\ Budgeted => DuplicatesNeedFault
  <2> SUFFICES ASSUME IInv, Budgeted, NEW m \in Message PROVE rows[m] <= epoch + unheard
    BY DEF DuplicatesNeedFault
  <2>1. Held(m) \in Nat /\ BudgetTypes(m)
    BY HeldFacts, BudgetTypesOK
  <2>2. QED
    BY <2>1 DEF Budgeted, WithinBudget, BudgetTypes
<1>2. QED
  BY InitIInv, StepIInv, InitBudgeted, StepBudgeted, <1>1, PTL DEF Spec
=============================================================================
