------------------------------ MODULE AmqpQueue ------------------------------
(***************************************************************************)
(* The RabbitMQ side of one ingest queue (security_events,                 *)
(* firewall_events or scada_logs): a durable classic queue with manual     *)
(* acknowledgements, and the single AMQP channel the detection server      *)
(* holds on it.  It is external code, modelled from how                    *)
(* internal/queue/consumer.go and cmd/server/main.go use it.               *)
(*                                                                         *)
(* The queue is a set: a requeued message can be redelivered before or     *)
(* after any other, and no property depends on the order.  A message is    *)
(* one AMQP delivery body; how many events it carries is the pipeline's    *)
(* business (module Ingest).                                               *)
(*                                                                         *)
(* Operators whose comment says "part of a step" leave the variables they  *)
(* do not mention to the action that uses them.                            *)
(***************************************************************************)
EXTENDS Naturals, FiniteSets

CONSTANTS
  Message,    \* the messages producers may publish
  Prefetch,   \* Qos(prefetch, 0, global = false): unsettled deliveries per subscription
  MaxLosses   \* bound: how often the network or the broker drops the channel

ASSUME QueueAssumption ==
  /\ IsFiniteSet(Message)
  /\ Prefetch \in Nat \ {0}
  /\ MaxLosses \in Nat

VARIABLES
  published,   \* messages the broker has accepted from producers
  ready,       \* messages waiting in the queue
  unacked,     \* unsettled deliveries of the subscription the pipeline reads
  abandoned,   \* unsettled deliveries of a subscription nobody reads
  channel,     \* fate of the channel in Consumer.channel
  epoch,       \* how many channels have been opened so far
  subscribed,  \* epoch of the pipeline's delivery channel, 0 when it has none
  orphaned,    \* epoch of the subscription nobody reads, 0 when there is none
  inbox,       \* deliveries buffered in the pipeline's Go channel
  losses       \* channels lost so far

queueVars == <<published, ready, unacked, abandoned, channel, epoch,
               subscribed, orphaned, inbox, losses>>

QueueTypeOK ==
  /\ published \subseteq Message
  /\ ready \subseteq Message
  /\ unacked \subseteq Message
  /\ abandoned \subseteq Message
  /\ channel \in {"open", "lost", "closed"}
  /\ epoch \in Nat
  /\ subscribed \in 0..epoch
  /\ orphaned \in 0..epoch
  /\ inbox \subseteq Message
  /\ losses \in 0..MaxLosses

QueueInit ==
  /\ published = {} /\ ready = {} /\ unacked = {} /\ abandoned = {}
  /\ channel = "closed"
  /\ epoch = 0 /\ subscribed = 0 /\ orphaned = 0
  /\ inbox = {}
  /\ losses = 0

\* Everything the broker still owes a consumer.
InBroker == ready \cup unacked \cup abandoned

\* An Acknowledger (or a delivery channel) obtained in epoch e still works.
Live(e) == channel = "open" /\ e = epoch

----------------------------------------------------------------------------
(* Steps of the broker and of the network *)

Publish(m) ==
  /\ m \notin published
  /\ published' = published \cup {m}
  /\ ready' = ready \cup {m}
  /\ UNCHANGED <<unacked, abandoned, channel, epoch, subscribed, orphaned, inbox, losses>>

\* The prefetch window is per subscription because Qos is called with
\* global = false.
Deliver(m) ==
  /\ m \in ready
  /\ Live(subscribed)
  /\ Cardinality(unacked) < Prefetch
  /\ ready' = ready \ {m}
  /\ unacked' = unacked \cup {m}
  /\ inbox' = inbox \cup {m}
  /\ UNCHANGED <<published, abandoned, channel, epoch, subscribed, orphaned, losses>>

\* Nobody reads this subscription's Go channel: the client library buffers
\* the delivery and it is never settled.
DeliverAbandoned(m) ==
  /\ m \in ready
  /\ Live(orphaned)
  /\ Cardinality(abandoned) < Prefetch
  /\ ready' = ready \ {m}
  /\ abandoned' = abandoned \cup {m}
  /\ UNCHANGED <<published, unacked, channel, epoch, subscribed, orphaned, inbox, losses>>

\* The broker puts every unsettled delivery back into the queue.  What the
\* library has buffered stays readable until it closes the Go channel.
LoseChannel ==
  /\ channel = "open"
  /\ losses < MaxLosses
  /\ losses' = losses + 1
  /\ channel' = "lost"
  /\ ready' = InBroker
  /\ unacked' = {}
  /\ abandoned' = {}
  /\ UNCHANGED <<published, epoch, subscribed, orphaned, inbox>>

----------------------------------------------------------------------------
(* Client operations *)

\* conn.Channel(), QueueDeclare and Qos succeed; part of a step.
OpenChannel ==
  /\ channel' = "open"
  /\ epoch' = epoch + 1

\* channel.Close(): unsettled deliveries return to the queue; part of a step.
CloseChannel ==
  /\ channel' = IF channel = "open" THEN "closed" ELSE channel
  /\ ready' = InBroker
  /\ unacked' = {}
  /\ abandoned' = {}

\* Delivery.Ack(false), or Nack(false, false).  On a channel that is gone
\* the call fails and its error is ignored.
Settle(m, e) ==
  /\ unacked' = IF Live(e) THEN unacked \ {m} ELSE unacked
  /\ UNCHANGED <<published, ready, abandoned, channel, epoch, subscribed, orphaned, losses>>

\* Delivery.Nack(false, true).
Requeue(m, e) ==
  /\ unacked' = IF Live(e) THEN unacked \ {m} ELSE unacked
  /\ ready'   = IF Live(e) THEN ready \cup {m} ELSE ready
  /\ UNCHANGED <<published, abandoned, channel, epoch, subscribed, orphaned, losses>>
=============================================================================
