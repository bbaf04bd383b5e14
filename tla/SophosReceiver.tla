--------------------------- MODULE SophosReceiver ---------------------------
(***************************************************************************)
(* source_side/sophos_syslog_receiver.py: main() reads datagrams and puts  *)
(* events into a bounded queue; the daemon thread of BatchPublisher takes  *)
(* them out and publishes batches, without confirms.                       *)
(***************************************************************************)
EXTENDS Naturals, Sequences, FiniteSets, SequencesExt

CONSTANTS
  LogLine,           \* events that may be received, each once
  QueueSize,         \* maxsize of the queue (20 000)
  PyBatchSize,       \* --batch-size
  MaxPublishFaults   \* bound: basic_publish calls that raise, or write to a dying connection

ASSUME SophosAssumption ==
  /\ QueueSize \in Nat \ {0}
  /\ PyBatchSize \in Nat \ {0}
  /\ MaxPublishFaults \in Nat

VARIABLES
  ahead,             \* events not received yet
  fifo,              \* BatchPublisher._q
  pyBatch,           \* batch
  thread,            \* where the thread is
  tries,             \* attempt in publish()
  stopping,          \* _stop is set: main() has left its loop
  exited,            \* the process has ended
  sent_total, drop_total,
  publishFaults,
  \* History
  inQueue,           \* events RabbitMQ has
  refused,           \* the Python queue was full
  failed,            \* both attempts raised
  vanished,          \* written to a dying connection
  leftBehind         \* not published when the process ended

sophosVars == <<ahead, fifo, pyBatch, thread, tries, stopping, exited, sent_total, drop_total,
                publishFaults, inQueue, refused, failed, vanished, leftBehind>>

SophosInit ==
  /\ ahead = LogLine
  /\ fifo = <<>> /\ pyBatch = <<>> /\ thread = "loop" /\ tries = 0
  /\ stopping = FALSE /\ exited = FALSE
  /\ sent_total = 0 /\ drop_total = 0 /\ publishFaults = 0
  /\ inQueue = {} /\ refused = {} /\ failed = {} /\ vanished = {} /\ leftBehind = {}

PublishFault == publishFaults < MaxPublishFaults /\ publishFaults' = publishFaults + 1

enqueue(e) ==
  /\ ~stopping /\ e \in ahead
  /\ ahead' = ahead \ {e}
  /\ IF Len(fifo) < QueueSize
       THEN fifo' = Append(fifo, e) /\ UNCHANGED <<drop_total, refused>>
       ELSE drop_total' = drop_total + 1 /\ refused' = refused \cup {e} /\ UNCHANGED fifo
  /\ UNCHANGED <<pyBatch, thread, tries, stopping, exited, sent_total, publishFaults, inQueue, failed,
                 vanished, leftBehind>>

\* One round of the loop: an event if there is one, and the decision to flush.
TakeEvent ==
  /\ thread = "loop" /\ ~stopping
  /\ \/ fifo # <<>> /\ fifo' = Tail(fifo) /\ pyBatch' = Append(pyBatch, Head(fifo))
     \/ fifo = <<>> /\ pyBatch # <<>> /\ UNCHANGED <<fifo, pyBatch>>
  /\ \/ thread' = "flush"                                \* full, or flush_sec has passed
     \/ thread' = "loop" /\ Len(pyBatch') < PyBatchSize
  /\ UNCHANGED <<ahead, tries, stopping, exited, sent_total, drop_total, publishFaults, inQueue,
                 refused, failed, vanished, leftBehind>>

\* The loop ends with its batch in hand, whatever is still in the queue.
LeaveLoop ==
  /\ thread = "loop" /\ stopping
  /\ thread' = IF pyBatch = <<>> THEN "ended" ELSE "drain"
  /\ UNCHANGED <<ahead, fifo, pyBatch, tries, stopping, exited, sent_total, drop_total, publishFaults,
                 inQueue, refused, failed, vanished, leftBehind>>

Publishes == thread \in {"flush", "drain"}

\* publish() returns; the last batch, after stop(), is not counted.
PublishReturns ==
  /\ thread' = IF thread = "flush" THEN "loop" ELSE "ended"
  /\ pyBatch' = <<>>
  /\ tries' = 0

\* basic_publish returns: the batch is with the broker, or with a connection that is gone.
BasicPublish ==
  /\ Publishes
  /\ PublishReturns
  /\ sent_total' = IF thread = "flush" THEN sent_total + Len(pyBatch) ELSE sent_total
  /\ \/ inQueue' = inQueue \cup ToSet(pyBatch) /\ UNCHANGED <<vanished, publishFaults>>
     \/ PublishFault /\ vanished' = vanished \cup ToSet(pyBatch) /\ UNCHANGED inQueue
  /\ UNCHANGED <<ahead, fifo, stopping, exited, drop_total, refused, failed, leftBehind>>

\* It raises, perhaps after the broker took the batch: _connect() and one more attempt.
FirstAttemptRaises ==
  /\ Publishes /\ tries = 0
  /\ PublishFault
  /\ tries' = 1
  /\ inQueue' \in {inQueue, inQueue \cup ToSet(pyBatch)}
  /\ UNCHANGED <<ahead, fifo, pyBatch, thread, stopping, exited, sent_total, drop_total, refused,
                 failed, vanished, leftBehind>>

\* Mutant of SecondAttemptRaises: the failed batch is counted as sent.
SecondAttemptCounts ==
  /\ Publishes /\ tries = 1
  /\ PublishFault
  /\ PublishReturns
  /\ sent_total' = sent_total + Len(pyBatch)
  /\ failed' = failed \cup ToSet(pyBatch)
  /\ UNCHANGED <<ahead, fifo, stopping, exited, drop_total, inQueue, refused, vanished, leftBehind>>

\* The second one raises as well: False, and the batch is gone, counted nowhere.
SecondAttemptRaises ==
  /\ Publishes /\ tries = 1
  /\ PublishFault
  /\ PublishReturns
  /\ failed' = failed \cup ToSet(pyBatch)
  /\ UNCHANGED <<ahead, fifo, stopping, exited, sent_total, drop_total, inQueue, refused, vanished,
                 leftBehind>>

\* KeyboardInterrupt in main(): batch_pub.stop().
Interrupt ==
  /\ ~stopping
  /\ stopping' = TRUE
  /\ UNCHANGED <<ahead, fifo, pyBatch, thread, tries, exited, sent_total, drop_total, publishFaults,
                 inQueue, refused, failed, vanished, leftBehind>>

\* join() returns when the thread has ended, or after five seconds in which it was stuck
\* in publish(); then the process ends, and the daemon thread with it.
ProcessEnds ==
  /\ stopping /\ ~exited
  /\ thread = "ended" \/ Publishes
  /\ exited' = TRUE
  /\ leftBehind' = ToSet(fifo) \cup ToSet(pyBatch)
  /\ fifo' = <<>> /\ pyBatch' = <<>>
  /\ thread' = "ended"
  /\ UNCHANGED <<ahead, tries, stopping, sent_total, drop_total, publishFaults, inQueue, refused,
                 failed, vanished>>

SophosNext ==
  \/ \E e \in LogLine : enqueue(e)
  \/ TakeEvent \/ LeaveLoop
  \/ BasicPublish \/ FirstAttemptRaises \/ SecondAttemptRaises
  \/ Interrupt \/ ProcessEnds

----------------------------------------------------------------------------
(* Properties *)

\* A received event is on its way or in RabbitMQ, or was lost for a reason: the queue
\* was full, both attempts failed, the connection was dying, or the process ended - and
\* drop_total is only what the full queue refused, sent_total no more than what was
\* published once and for all.
SophosLossHasCause ==
  /\ LogLine \ ahead =
       ToSet(fifo) \cup ToSet(pyBatch) \cup inQueue \cup refused \cup failed \cup vanished \cup leftBehind
  /\ drop_total = Cardinality(refused)
  /\ sent_total <= Cardinality(inQueue \cup vanished)
  /\ leftBehind # {} => stopping
=============================================================================
