------------------------------- MODULE DbWriter -------------------------------
(***************************************************************************)
(* internal/dbwriter/service.go: a batcher goroutine collects messages of  *)
(* the enriched queue and hands batches to a pool of writers, which insert *)
(* them with retries and settle their messages.  InsertEvents is one       *)
(* statement.  A delivery is received in one step; the settling of a batch *)
(* too, nothing here depends on a channel lost in between.                 *)
(***************************************************************************)
EXTENDS EnrichedQueue, FiniteSetsExt

CONSTANTS
  Writer,
  WriterCap,      \* capacity of eventChan: NumWorkers * 2 in the code
  WriteBatchSize, \* BatchSize, counted in events
  MaxRetries,
  MaxWriterFaults \* bound: lost channels, Stop() calls, crashes, unheard INSERTs

ASSUME WriterAssumption ==
  /\ WriterCap \in Nat \ {0} /\ WriteBatchSize \in Nat \ {0} /\ MaxRetries \in Nat \ {0}
  /\ MaxWriterFaults \in Nat

VARIABLES
  dbRows,        \* per event: rows in security_events
  writerOpen,    \* the consumer's AMQP channel is open
  batcherOn,     \* the batcher has not returned
  writeBatch,    \* the batcher's batch: its messages
  writeChan,     \* batches on their way to a writer
  writing,       \* per writer: its batch, empty when idle
  retries,       \* per writer: failed attempts
  writerStop,    \* Stop(): the context is cancelled
  writerFaults

writerVars == <<dbRows, writerOpen, batcherOn, writeBatch, writeChan, writing, retries,
                writerStop, writerFaults>>

WriterTypeOK ==
  /\ dbRows \in [Event -> Nat]
  /\ writerOpen \in BOOLEAN /\ batcherOn \in BOOLEAN /\ writerStop \in BOOLEAN
  /\ writeBatch \subseteq enriched
  /\ writeChan \in Seq(SUBSET enriched) /\ Len(writeChan) <= WriterCap
  /\ writing \in [Writer -> SUBSET enriched]
  /\ retries \in [Writer -> 0..MaxRetries - 1]
  /\ writerFaults \in 0..MaxWriterFaults

WriterInit ==
  /\ dbRows = [e \in Event |-> 0]
  /\ writerOpen = TRUE /\ batcherOn = TRUE
  /\ writeBatch = {} /\ writeChan = <<>>
  /\ writing = [w \in Writer |-> {}]
  /\ retries = [w \in Writer |-> 0]
  /\ writerStop = FALSE /\ writerFaults = 0

BatchLen(batch) == MapThenSumSet(LAMBDA m : Len(m.events), batch)

----------------------------------------------------------------------------
(* batcher *)

\* flushBatch: waits for room, unless the context is done.
FlushTo(batch) ==
  /\ Len(writeChan) < WriterCap
  /\ writeChan' = Append(writeChan, batch)
  /\ writeBatch' = {}

\* A full batch is flushed before the next message, unless the flush was cut
\* short by Stop().
CollectMessage(m) ==
  /\ batcherOn /\ writerOpen
  /\ m \in waiting
  /\ BatchLen(writeBatch) < WriteBatchSize \/ writerStop
  /\ waiting' = waiting \ {m}
  /\ delivered' = delivered \cup {m}
  /\ writeBatch' = writeBatch \cup {m}
  /\ UNCHANGED <<enriched, dbRows, writerOpen, batcherOn, writeChan, writing, retries,
                 writerStop, writerFaults>>

\* The batch is full, or the ticker fires.
Flush ==
  /\ batcherOn /\ writeBatch # {}
  /\ FlushTo(writeBatch)
  /\ UNCHANGED <<dbRows, writerOpen, batcherOn, writing, retries, writerStop, writerFaults>>
  /\ UNCHANGED enrichedVars

\* The delivery channel is closed or the context is done: a last flush, which
\* a cancelled context may cut short.
BatcherReturns ==
  /\ batcherOn /\ (~writerOpen \/ writerStop)
  /\ batcherOn' = FALSE
  /\ IF writeBatch = {} THEN UNCHANGED <<writeChan, writeBatch>>
     ELSE FlushTo(writeBatch) \/ (writerStop /\ UNCHANGED <<writeChan, writeBatch>>)
  /\ UNCHANGED <<dbRows, writerOpen, writing, retries, writerStop, writerFaults>>
  /\ UNCHANGED enrichedVars

----------------------------------------------------------------------------
(* writerWorker, writeBatch *)

TakeBatch(w) ==
  /\ writing[w] = {} /\ writeChan # <<>>
  /\ writing' = [writing EXCEPT ![w] = Head(writeChan)]
  /\ writeChan' = Tail(writeChan)
  /\ UNCHANGED <<dbRows, writerOpen, batcherOn, writeBatch, retries, writerStop, writerFaults>>
  /\ UNCHANGED enrichedVars

\* Where event e stands in the messages of a batch.
Occurrences(e, batch) ==
  UNION {{<<m, i>> : i \in {j \in DOMAIN m.events : m.events[j] = e}} : m \in batch}

InsertRows(batch) == dbRows' = [e \in Event |-> dbRows[e] + Cardinality(Occurrences(e, batch))]

\* Ack(false) or Nack(false, requeue) for every message of the batch; on a
\* channel that is gone they do nothing.
AckBatch(batch) ==
  /\ delivered' = IF writerOpen THEN delivered \ batch ELSE delivered
  /\ UNCHANGED <<enriched, waiting>>

NackBatch(batch) ==
  /\ delivered' = IF writerOpen THEN delivered \ batch ELSE delivered
  /\ waiting' = IF writerOpen THEN waiting \cup batch ELSE waiting
  /\ UNCHANGED enriched

BatchDone(w) ==
  /\ writing' = [writing EXCEPT ![w] = {}]
  /\ retries' = [retries EXCEPT ![w] = 0]

\* The INSERT succeeds; with a cancelled context it cannot.
InsertSucceeds(w) ==
  /\ writing[w] # {} /\ ~writerStop
  /\ InsertRows(writing[w])
  /\ AckBatch(writing[w])
  /\ BatchDone(w)
  /\ UNCHANGED <<writerOpen, batcherOn, writeBatch, writeChan, writerStop, writerFaults>>

\* An attempt has failed: try again, or give the messages back.
AfterFailure(w) ==
  IF retries[w] + 1 < MaxRetries
    THEN /\ retries' = [retries EXCEPT ![w] = @ + 1]
         /\ UNCHANGED <<writing, enrichedVars>>
    ELSE NackBatch(writing[w]) /\ BatchDone(w)

\* Mutant of InsertFails: after the last attempt the messages are acknowledged.
InsertFailsAcks(w) ==
  /\ writing[w] # {}
  /\ IF retries[w] + 1 < MaxRetries
       THEN /\ retries' = [retries EXCEPT ![w] = @ + 1]
            /\ UNCHANGED <<writing, enrichedVars>>
       ELSE AckBatch(writing[w]) /\ BatchDone(w)
  /\ UNCHANGED <<dbRows, writerOpen, batcherOn, writeBatch, writeChan, writerStop, writerFaults>>

InsertFails(w) ==
  /\ writing[w] # {}
  /\ AfterFailure(w)
  /\ UNCHANGED <<dbRows, writerOpen, batcherOn, writeBatch, writeChan, writerStop, writerFaults>>

WriterFault == writerFaults < MaxWriterFaults /\ writerFaults' = writerFaults + 1

\* The INSERT is committed, but reported as failed.
InsertUnheard(w) ==
  /\ WriterFault
  /\ writing[w] # {}
  /\ InsertRows(writing[w])
  /\ AfterFailure(w)
  /\ UNCHANGED <<writerOpen, batcherOn, writeBatch, writeChan, writerStop>>

----------------------------------------------------------------------------
(* Stop, faults *)

LoseEnriched ==
  /\ WriterFault /\ writerOpen
  /\ writerOpen' = FALSE
  /\ Redeliver
  /\ UNCHANGED <<dbRows, batcherOn, writeBatch, writeChan, writing, retries, writerStop>>

StopWriter ==
  /\ WriterFault /\ ~writerStop
  /\ writerStop' = TRUE
  /\ UNCHANGED <<dbRows, writerOpen, batcherOn, writeBatch, writeChan, writing, retries>>
  /\ UNCHANGED enrichedVars

\* The process ends, after Stop() or by a crash, and is started again.
WriterEnds ==
  /\ WriterFault \/ (writerStop /\ UNCHANGED writerFaults)
  /\ Redeliver
  /\ writerOpen' = TRUE /\ batcherOn' = TRUE
  /\ writeBatch' = {} /\ writeChan' = <<>>
  /\ writing' = [w \in Writer |-> {}]
  /\ retries' = [w \in Writer |-> 0]
  /\ writerStop' = FALSE
  /\ UNCHANGED dbRows

WriterNext ==
  \/ \E m \in waiting : CollectMessage(m)
  \/ Flush \/ BatcherReturns
  \/ \E w \in Writer : TakeBatch(w) \/ InsertSucceeds(w) \/ InsertFails(w) \/ InsertUnheard(w)
  \/ LoseEnriched \/ StopWriter \/ WriterEnds

----------------------------------------------------------------------------
(* Properties *)

\* A message that has left the queue for good has all its events in the table,
\* whatever fails, is retried, stopped or restarted.
SettledIsInserted ==
  \A m \in enriched \ (waiting \cup delivered) : \A i \in DOMAIN m.events : dbRows[m.events[i]] > 0
=============================================================================
