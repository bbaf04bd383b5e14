------------------------------ MODULE Publisher ------------------------------
(***************************************************************************)
(* internal/queue/publisher.go: publishing with broker confirms.           *)
(* Publish holds Publisher.mu from the check of p.connected until the      *)
(* confirm, the timeout or the error; connect() holds it while it dials.   *)
(* All publishes of a channel read one confirm channel, in whatever order  *)
(* they come: nothing ties a confirm to a message.                         *)
(*                                                                         *)
(* Losing the channel makes the client library close the confirm channel   *)
(* once what is buffered in it is read; a closed one yields Ack = false.   *)
(***************************************************************************)
EXTENDS Naturals, Sequences

CONSTANTS
  Caller,       \* goroutines that may be in Publish at the same time
  Message,      \* bodies that may be published
  MaxLosses,    \* bound: how often the channel is lost
  MaxRejects,   \* bound: messages the broker answers with basic.nack
  MaxAttempts   \* reconnect() gives up after this many dials (30 in the code)

Free == "free"
Dialer == "reconnect"

ASSUME PublisherAssumption ==
  /\ Free \notin Caller /\ Dialer \notin Caller
  /\ MaxLosses \in Nat
  /\ MaxRejects \in Nat
  /\ MaxAttempts \in Nat \ {0}

VARIABLES
  channel,     \* fate of p.channel: "open", "lost" or "closed"
  epoch,       \* how many channels have been opened
  wire,        \* messages sent on the channel, not yet handled by the broker
  answers,     \* broker's confirms on their way: TRUE is an ack
  confirms,    \* p.notifyConfirm: confirms nobody has read
  connected,   \* p.connected
  handler,     \* where the handleReconnect goroutine is
  attempt,     \* loop variable of reconnect(), 0 outside it
  holder,      \* who holds p.mu
  stage,       \* per caller: where it is in Publish
  stored,      \* how many copies of a message the broker has accepted
  losses, rejects,
  \* History
  timeouts     \* per epoch: publishes that stopped waiting for their confirm

publisherVars == <<channel, epoch, wire, answers, confirms, connected, handler, attempt,
                   holder, stage, stored, losses, rejects, timeouts>>

PublisherTypeOK ==
  /\ channel \in {"open", "lost", "closed"}
  /\ epoch \in 1..MaxLosses + 1
  /\ wire \in Seq(Message)
  /\ answers \in Seq(BOOLEAN)
  /\ confirms \in Seq(BOOLEAN)
  /\ connected \in BOOLEAN
  /\ handler \in {"waiting", "lost", "reconnecting", "exited", "fatal"}
  /\ attempt \in 0..MaxAttempts
  /\ holder \in {Free, Dialer} \cup Caller
  /\ stage \in [Caller -> {"out", "enter", "wait", "ok", "error"}]
  /\ stored \in [Message -> Nat]
  /\ losses \in 0..MaxLosses
  /\ rejects \in 0..MaxRejects
  /\ timeouts \in [1..MaxLosses + 1 -> Nat]

\* NewPublisher: connect() has succeeded and the handler goroutine runs; or it failed.
PublisherMade(made) ==
  /\ channel = (IF made THEN "open" ELSE "closed")
  /\ connected = made
  /\ handler = (IF made THEN "waiting" ELSE "exited")
  /\ epoch = 1
  /\ wire = <<>> /\ answers = <<>> /\ confirms = <<>>
  /\ attempt = 0
  /\ holder = Free
  /\ stage = [c \in Caller |-> "out"]
  /\ stored = [m \in Message |-> 0]
  /\ losses = 0 /\ rejects = 0
  /\ timeouts = [e \in 1..MaxLosses + 1 |-> 0]

----------------------------------------------------------------------------
(* Broker and network *)

\* The broker takes the next message of the channel: it is in the queue, and a
\* confirm is on its way; or the broker refuses it.
BrokerAccepts ==
  /\ wire # <<>>
  /\ wire' = Tail(wire)
  /\ stored' = [stored EXCEPT ![Head(wire)] = @ + 1]
  /\ answers' = Append(answers, TRUE)
  /\ UNCHANGED <<channel, epoch, confirms, connected, handler, attempt, holder, stage,
                 losses, rejects, timeouts>>

BrokerRejects ==
  /\ wire # <<>>
  /\ rejects < MaxRejects
  /\ rejects' = rejects + 1
  /\ wire' = Tail(wire)
  /\ answers' = Append(answers, FALSE)
  /\ UNCHANGED <<channel, epoch, confirms, connected, handler, attempt, holder, stage,
                 stored, losses, timeouts>>

ConfirmArrives ==
  /\ answers # <<>>
  /\ confirms' = Append(confirms, Head(answers))
  /\ answers' = Tail(answers)
  /\ UNCHANGED <<channel, epoch, wire, connected, handler, attempt, holder, stage, stored,
                 losses, rejects, timeouts>>

\* What is on its way, in either direction, is gone.
LoseChannel ==
  /\ channel = "open"
  /\ losses < MaxLosses
  /\ losses' = losses + 1
  /\ channel' = "lost"
  /\ wire' = <<>>
  /\ answers' = <<>>
  /\ handler' = IF handler = "waiting" THEN "lost" ELSE handler
  /\ UNCHANGED <<epoch, confirms, connected, attempt, holder, stage, stored, rejects, timeouts>>

----------------------------------------------------------------------------
(* Reconnection *)

\* handleReconnect receives the loss: p.connected is cleared without p.mu.
ReconnectBegin ==
  /\ handler = "lost"
  /\ handler' = "reconnecting"
  /\ connected' = FALSE
  /\ attempt' = 1
  /\ UNCHANGED <<channel, epoch, wire, answers, confirms, holder, stage, stored, losses,
                 rejects, timeouts>>

\* connect() takes p.mu.
DialBegin ==
  /\ handler = "reconnecting"
  /\ holder = Free
  /\ holder' = Dialer
  /\ UNCHANGED <<channel, epoch, wire, answers, confirms, connected, handler, attempt, stage,
                 stored, losses, rejects, timeouts>>

\* connect() succeeds.  The range loop of handleReconnect then finds its channel,
\* the first one's, closed: nobody watches the new one.
DialOK ==
  /\ holder = Dialer
  /\ holder' = Free
  /\ channel' = "open"
  /\ epoch' = epoch + 1
  /\ confirms' = <<>>
  /\ connected' = TRUE
  /\ handler' = "exited"
  /\ attempt' = 0
  /\ UNCHANGED <<wire, answers, stage, stored, losses, rejects, timeouts>>

\* After the last attempt: log.Fatal.
DialFails ==
  /\ holder = Dialer
  /\ holder' = Free
  /\ IF attempt < MaxAttempts
       THEN attempt' = attempt + 1 /\ UNCHANGED handler
       ELSE attempt' = 0 /\ handler' = "fatal"
  /\ UNCHANGED <<channel, epoch, wire, answers, confirms, connected, stage, stored, losses,
                 rejects, timeouts>>

----------------------------------------------------------------------------
(* Publish *)

At(c, place) == stage[c] = place
Goto(c, place) == stage' = [stage EXCEPT ![c] = place]

\* A caller is about to take p.mu; part of a step.
EnterPublish(c) ==
  /\ At(c, "out")
  /\ Goto(c, "enter")

\* p.mu is taken; without a connection, or on a dead channel, Publish returns
\* an error at once.
PublishFails(c) ==
  /\ At(c, "enter") /\ holder = Free
  /\ ~connected \/ channel # "open"
  /\ Goto(c, "error")
  /\ UNCHANGED <<channel, epoch, wire, answers, confirms, connected, handler, attempt, holder,
                 stored, losses, rejects, timeouts>>

PublishSends(c, m) ==
  /\ At(c, "enter") /\ holder = Free
  /\ connected /\ channel = "open"
  /\ holder' = c
  /\ wire' = Append(wire, m)
  /\ Goto(c, "wait")
  /\ UNCHANGED <<channel, epoch, answers, confirms, connected, handler, attempt, stored, losses,
                 rejects, timeouts>>

\* Mutant of ReadConfirm: confirm.Ack is not looked at.
ReadConfirmIgnoresAck(c) ==
  /\ At(c, "wait")
  /\ confirms # <<>> \/ channel # "open"
  /\ confirms' = IF confirms # <<>> THEN Tail(confirms) ELSE <<>>
  /\ Goto(c, "ok")
  /\ holder' = Free
  /\ UNCHANGED <<channel, epoch, wire, answers, connected, handler, attempt, stored, losses,
                 rejects, timeouts>>

\* Mutant of ReadConfirm: the confirms that are there are discarded first.
ReadConfirmDrains(c) ==
  /\ At(c, "wait")
  /\ confirms # <<>> \/ channel # "open"
  /\ confirms' = <<>>
  /\ Goto(c, IF confirms # <<>> /\ confirms[Len(confirms)] THEN "ok" ELSE "error")
  /\ holder' = Free
  /\ UNCHANGED <<channel, epoch, wire, answers, connected, handler, attempt, stored, losses,
                 rejects, timeouts>>

\* <-p.notifyConfirm: the oldest confirm, whoever it is for.
ReadConfirm(c) ==
  /\ At(c, "wait")
  /\ confirms # <<>> \/ channel # "open"
  /\ confirms' = IF confirms # <<>> THEN Tail(confirms) ELSE <<>>
  /\ Goto(c, IF confirms # <<>> /\ Head(confirms) THEN "ok" ELSE "error")
  /\ holder' = Free
  /\ UNCHANGED <<channel, epoch, wire, answers, connected, handler, attempt, stored, losses,
                 rejects, timeouts>>

\* Mutant of ConfirmTimeout: no timeout.
ConfirmTimeoutNever(c) ==
  /\ FALSE
  /\ Goto(c, "error")
  /\ UNCHANGED <<channel, epoch, wire, answers, confirms, connected, handler, attempt, holder,
                 stored, losses, rejects, timeouts>>

\* 5 s without a confirm; the confirm may still come.
ConfirmTimeout(c) ==
  /\ At(c, "wait")
  /\ confirms = <<>> /\ channel = "open"
  /\ Goto(c, "error")
  /\ holder' = Free
  /\ timeouts' = [timeouts EXCEPT ![epoch] = @ + 1]
  /\ UNCHANGED <<channel, epoch, wire, answers, confirms, connected, handler, attempt, stored,
                 losses, rejects>>

\* Publisher.Close; part of a step.
Close ==
  /\ holder = Free
  /\ channel' = "closed"
  /\ wire' = <<>>
  /\ answers' = <<>>
  /\ connected' = FALSE
  /\ handler' = IF handler = "waiting" THEN "exited" ELSE handler
  /\ UNCHANGED <<epoch, confirms, attempt, holder, stored, losses, rejects, timeouts>>

Broker == BrokerAccepts \/ BrokerRejects \/ ConfirmArrives \/ LoseChannel
HandleReconnect == ReconnectBegin \/ DialBegin \/ DialOK \/ DialFails
=============================================================================
