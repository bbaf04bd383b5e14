--------------------------- MODULE SyslogReceiver ---------------------------
(***************************************************************************)
(* cmd/syslog-receiver/main.go: one goroutine reads datagrams, keeps them  *)
(* in a batch and publishes the batch through a Publisher of its own.  Any *)
(* error closes the publisher and drops the batch; the next flush makes a  *)
(* new one.  The goroutine of a closed publisher that was reconnecting     *)
(* goes on dialling, and may still end the process (log.Fatal).            *)
(***************************************************************************)
EXTENDS Publisher, SyslogParser, FiniteSets, SequencesExt

CONSTANTS
  Receiver,    \* the goroutine of main()
  LineOf,      \* per datagram: the line it holds
  BatchSize    \* cfg.batchSize

ASSUME ReceiverAssumption ==
  /\ Receiver \in Caller
  /\ LineOf \in [Message -> Line]
  /\ BatchSize \in Nat \ {0}

VARIABLES
  coming,      \* datagrams the network may still deliver
  attached,    \* pub # nil, which is publishEnabled
  place,       \* where the loop is; flush runs at "full", "tick" and "stop"
  incoming,    \* the event in hand while the full batch is flushed
  batch,
  at,          \* the item PublishBatch is at, 0 before it begins
  signalled,   \* sigCh holds a signal
  discarded,   \* datagrams Normalize refused
  sent,        \* the events counted by sentTotal
  dropped,     \* the events counted by dropTotal
  orphans,     \* closed publishers that still dial
  died         \* one of them gave up

receiverVars == <<coming, attached, place, incoming, batch, at, signalled, discarded, sent,
                  dropped, orphans, died>>
countVars == <<discarded, sent, dropped>>
orphanVars == <<orphans, died>>

FreshPublisher ==
  /\ channel' = "open" /\ epoch' = 1
  /\ wire' = <<>> /\ answers' = <<>> /\ confirms' = <<>>
  /\ connected' = TRUE
  /\ handler' = "waiting" /\ attempt' = 0
  /\ holder' = Free
  /\ timeouts' = [e \in DOMAIN timeouts |-> 0]

\* The first NewPublisher may fail: "stdout-only mode".
ReceiverInit ==
  /\ attached \in BOOLEAN
  /\ PublisherMade(attached)
  /\ coming = Message
  /\ place = "read" /\ incoming = <<>> /\ batch = <<>> /\ at = 0
  /\ signalled = FALSE
  /\ discarded = {} /\ sent = {} /\ dropped = {}
  /\ orphans = 0

ReceiverUp == handler # "fatal" /\ ~died /\ place # "returned"

----------------------------------------------------------------------------
(* The loop *)

\* A line that is no event goes straight back to ReadFrom: no ticker, no signal.  So does
\* an error of ReadFrom that is no timeout; it changes nothing and is a stuttering step.
ReadDatagram(d) ==
  /\ place = "read" /\ d \in coming
  /\ coming' = coming \ {d}
  /\ \/ /\ ~Normalize(LineOf[d])
        /\ discarded' = discarded \cup {d}
        /\ UNCHANGED <<place, incoming, batch>>
     \/ /\ Normalize(LineOf[d]) /\ Len(batch) < BatchSize
        /\ batch' = Append(batch, d)
        /\ place' = "ticker"
        /\ UNCHANGED <<incoming, discarded>>
     \/ /\ Normalize(LineOf[d]) /\ Len(batch) >= BatchSize
        /\ incoming' = <<d>>
        /\ place' = "full"
        /\ UNCHANGED <<batch, discarded>>
  /\ UNCHANGED <<publisherVars, attached, at, signalled, sent, dropped, orphanVars>>

\* A second without a datagram.
QuietSecond ==
  /\ place = "read"
  /\ place' = "ticker"
  /\ UNCHANGED <<publisherVars, coming, attached, incoming, batch, at, signalled, countVars,
                 orphanVars>>

\* Mutant of TickerCheck: back to ReadFrom once the ticker has not fired.
TickerCheckContinues ==
  /\ place = "ticker"
  /\ place' \in {"tick", "read"}
  /\ UNCHANGED <<publisherVars, coming, attached, incoming, batch, at, signalled, countVars,
                 orphanVars>>

\* select on flushTicker.C, which may have fired.
TickerCheck ==
  /\ place = "ticker"
  /\ place' \in {"tick", "signal"}
  /\ UNCHANGED <<publisherVars, coming, attached, incoming, batch, at, signalled, countVars,
                 orphanVars>>

SignalCheck ==
  /\ place = "signal"
  /\ place' = IF signalled THEN "stop" ELSE "read"
  /\ UNCHANGED <<publisherVars, coming, attached, incoming, batch, at, signalled, countVars,
                 orphanVars>>

SignalArrives ==
  /\ ~signalled
  /\ signalled' = TRUE
  /\ UNCHANGED <<publisherVars, coming, attached, place, incoming, batch, at, countVars, orphanVars>>

\* The deferred closePublisher().
Depart ==
  /\ place = "closing"
  /\ place' = "returned"
  /\ IF attached THEN Close /\ UNCHANGED stage ELSE UNCHANGED publisherVars
  /\ UNCHANGED <<coming, attached, incoming, batch, at, signalled, countVars, orphanVars>>

----------------------------------------------------------------------------
(* flush *)

Flushing == place \in {"full", "tick", "stop"}

\* batch[:0], and where the loop goes on; a full batch made room for the event in hand.
FlushReturns ==
  /\ batch' = incoming
  /\ incoming' = <<>>
  /\ at' = 0
  /\ place' = CASE place = "full" -> "ticker" [] place = "tick" -> "signal" [] place = "stop" -> "closing"

FlushNothing ==
  /\ Flushing /\ batch = <<>>
  /\ FlushReturns
  /\ UNCHANGED <<publisherVars, coming, attached, signalled, countVars, orphanVars>>

\* connectPublisher fails: the batch is dropped.
ConnectFails ==
  /\ Flushing /\ batch # <<>> /\ ~attached
  /\ dropped' = dropped \cup ToSet(batch)
  /\ FlushReturns
  /\ UNCHANGED <<publisherVars, coming, attached, signalled, discarded, sent, orphanVars>>

\* A new publisher; what the old one does from here on is counted in orphans.
ConnectSucceeds ==
  /\ Flushing /\ batch # <<>> /\ ~attached
  /\ attached' = TRUE
  /\ FreshPublisher
  /\ orphans' = orphans + (IF handler \in {"lost", "reconnecting"} THEN 1 ELSE 0)
  /\ UNCHANGED <<stage, stored, losses, rejects>>
  /\ UNCHANGED <<coming, place, incoming, batch, at, signalled, countVars, died>>

\* PublishBatch calls Publish for the next item.
PublishItem ==
  /\ Flushing /\ attached /\ at < Len(batch)
  /\ EnterPublish(Receiver)
  /\ at' = at + 1
  /\ UNCHANGED <<channel, epoch, wire, answers, confirms, connected, handler, attempt, holder,
                 stored, losses, rejects, timeouts>>
  /\ UNCHANGED <<coming, attached, place, incoming, batch, signalled, countVars, orphanVars>>

InPublish ==
  /\ \/ PublishFails(Receiver)
     \/ At(Receiver, "enter") /\ PublishSends(Receiver, batch[at])
     \/ ReadConfirm(Receiver)
     \/ ConfirmTimeout(Receiver)
  /\ UNCHANGED receiverVars

ItemDone ==
  /\ At(Receiver, "ok")
  /\ Goto(Receiver, "out")
  /\ UNCHANGED <<channel, epoch, wire, answers, confirms, connected, handler, attempt, holder,
                 stored, losses, rejects, timeouts>>
  /\ UNCHANGED receiverVars

BatchPublished ==
  /\ Flushing /\ attached /\ batch # <<>> /\ at = Len(batch) /\ At(Receiver, "out")
  /\ sent' = sent \cup ToSet(batch)
  /\ FlushReturns
  /\ UNCHANGED <<publisherVars, coming, attached, signalled, discarded, dropped, orphanVars>>

\* Mutant of FlushFails: the publisher is kept.
FlushFailsKeepsPublisher ==
  /\ At(Receiver, "error")
  /\ Goto(Receiver, "out")
  /\ dropped' = dropped \cup ToSet(batch)
  /\ FlushReturns
  /\ UNCHANGED <<channel, epoch, wire, answers, confirms, connected, handler, attempt, holder,
                 stored, losses, rejects, timeouts>>
  /\ UNCHANGED <<coming, attached, signalled, discarded, sent, orphanVars>>

\* The whole batch is counted as dropped, the items before the error as well.
FlushFails ==
  /\ At(Receiver, "error")
  /\ Goto(Receiver, "out")
  /\ Close
  /\ attached' = FALSE
  /\ dropped' = dropped \cup ToSet(batch)
  /\ FlushReturns
  /\ UNCHANGED <<coming, signalled, discarded, sent, orphanVars>>

\* reconnect() of a closed publisher: a connection nobody uses, or log.Fatal.
OrphanEnds ==
  /\ orphans > 0
  /\ orphans' = orphans - 1
  /\ died' \in BOOLEAN
  /\ UNCHANGED <<publisherVars, coming, attached, place, incoming, batch, at, signalled, countVars>>

----------------------------------------------------------------------------
Listen == (\E d \in Message : ReadDatagram(d)) \/ QuietSecond

Work ==
  \/ TickerCheck \/ SignalCheck \/ Depart
  \/ FlushNothing \/ ConnectFails \/ ConnectSucceeds
  \/ PublishItem \/ InPublish \/ ItemDone \/ BatchPublished \/ FlushFails

Dial == HandleReconnect /\ UNCHANGED receiverVars

ReceiverNext ==
  /\ ReceiverUp
  /\ Listen \/ Work \/ Dial \/ SignalArrives \/ OrphanEnds \/ (Broker /\ UNCHANGED receiverVars)

(***************************************************************************)
(* Fairness: the goroutine is scheduled, a dial returns, and ReadFrom      *)
(* returns a datagram or the end of its second.  It may return datagram    *)
(* after datagram, or an error that is no timeout after another, and the   *)
(* loop reaches its checks after neither a line that is no event nor such  *)
(* an error: that both are finitely many is assumed.                       *)
(***************************************************************************)
ReceiverFairness ==
  LET v == <<publisherVars, receiverVars>> IN
  /\ WF_v(ReceiverUp /\ Listen)
  /\ WF_v(ReceiverUp /\ Dial)
  /\ WF_v(ReceiverUp /\ Work)

----------------------------------------------------------------------------
(* Properties *)

\* The totals the receiver logs are true: every datagram is in exactly one place, what
\* is counted as sent is in the queue, once - an error closes the publisher, so no late
\* confirm of an earlier event can vouch for it - and only a blank line, a cut CEF line
\* or a "=" without a key and a value is thrown away uncounted.
CountsTellTheTruth ==
  LET held == ToSet(batch) \cup ToSet(incoming)
      parts == <<coming, discarded, sent, dropped, held>>
  IN  /\ UNION ToSet(parts) = Message
      /\ \A i, j \in DOMAIN parts : i # j => parts[i] \cap parts[j] = {}
      /\ \A m \in sent : stored[m] = 1
      /\ \A m \in Message \ sent : stored[m] <= 1
      /\ \A m \in discarded :
           \/ LineOf[m].blank \/ LineOf[m].cef = "short"
           \/ LineOf[m].equals /\ ~LineOf[m].pairs

\* A signal is served: the flush in progress ends, the last batch is published or
\* dropped, the publisher is closed and main() returns.
ReceiverStops == signalled ~> (place = "returned" \/ handler = "fatal" \/ died)
=============================================================================
