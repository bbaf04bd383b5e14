---------------------------- MODULE CollectorProofs ----------------------------
(***************************************************************************)
(* Proofs about the programs that put events into the queues: the          *)
(* Publisher with its two clients, the HTTP bridge and the syslog          *)
(* receiver, and the receiver's Python predecessor.                        *)
(***************************************************************************)
EXTENDS ScadaBridge, SyslogReceiver, SophosReceiver, FiniteSetTheorems, TLAPS

----------------------------------------------------------------------------
(***************************************************************************)
(* The Publisher, whoever calls it.  The inductive invariant says that a   *)
(* dead channel carries nothing (DeadIsQuiet), that reconnect() runs at    *)
(* most once and only on a dead channel (FirstLoss), that a caller waits   *)
(* for a confirm exactly while it holds p.mu (OneWaits), and how many      *)
(* confirms are in flight on an open channel (Lag).                        *)
(***************************************************************************)
StateOK ==
  /\ channel \in {"open", "lost", "closed"}
  /\ epoch \in 1..MaxLosses + 1
  /\ handler \in {"waiting", "lost", "reconnecting", "exited", "fatal"}
  /\ attempt \in 0..MaxAttempts
  /\ losses \in 0..MaxLosses
  /\ rejects \in 0..MaxRejects

CallersOK ==
  /\ holder \in {Free, Dialer} \cup Caller
  /\ stage \in [Caller -> {"out", "enter", "wait", "ok", "error"}]

FlowOK ==
  /\ wire \in Seq(Message)
  /\ answers \in Seq(BOOLEAN)
  /\ confirms \in Seq(BOOLEAN)

CountOK ==
  /\ stored \in [Message -> Nat]
  /\ timeouts \in [1..MaxLosses + 1 -> Nat]

FlagOK == connected \in BOOLEAN

DeadIsQuiet == channel # "open" => wire = <<>> /\ answers = <<>>

FirstLoss ==
  /\ handler \in {"waiting", "lost", "reconnecting"} => epoch = 1
  /\ handler \in {"lost", "reconnecting"} => losses > 0 /\ channel # "open"
  /\ holder = Dialer => handler = "reconnecting"

OneWaits == \A c \in Caller : At(c, "wait") <=> holder = c

NoTimeoutYet == \A e \in 1..MaxLosses + 1 : e > epoch => timeouts[e] = 0

Lag ==
  channel = "open" =>
    Len(wire) + Len(answers) + Len(confirms) =
      timeouts[epoch] + (IF holder \in Caller THEN 1 ELSE 0)

PubInv ==
  /\ StateOK /\ CallersOK /\ FlowOK /\ CountOK /\ FlagOK
  /\ DeadIsQuiet /\ FirstLoss /\ OneWaits /\ NoTimeoutYet /\ Lag

LEMMA PublisherTypes == PublisherTypeOK <=> StateOK /\ CallersOK /\ FlowOK /\ CountOK /\ FlagOK
BY Zenon DEF PublisherTypeOK, StateOK, CallersOK, FlowOK, CountOK, FlagOK

\* What every use of the three queues of a channel needs to know of sequences.
LEMMA Queueing ==
  ASSUME NEW S, NEW q \in Seq(S)
  PROVE  /\ Len(q) \in Nat /\ (q = <<>> <=> Len(q) = 0)
         /\ \A x \in S : Append(q, x) \in Seq(S) /\ Len(Append(q, x)) = Len(q) + 1
         /\ q # <<>> => /\ Head(q) \in S /\ Head(q) = q[1] /\ 1 \in DOMAIN q
                        /\ Tail(q) \in Seq(S) /\ Len(Tail(q)) = Len(q) - 1
  OBVIOUS

LEMMA MadeInv ==
  ASSUME NEW made \in BOOLEAN, PublisherMade(made)
  PROVE  PubInv
<1>1. StateOK /\ CallersOK
  BY PublisherAssumption DEF PublisherAssumption, PublisherMade, StateOK, CallersOK
<1>2. FlowOK
  BY DEF PublisherMade, FlowOK
<1>3. CountOK
  BY DEF PublisherMade, CountOK
<1>4. FlagOK
  BY DEF PublisherMade, FlagOK
<1>5. DeadIsQuiet /\ FirstLoss /\ NoTimeoutYet
  BY PublisherAssumption DEF PublisherAssumption, PublisherMade, DeadIsQuiet, FirstLoss, NoTimeoutYet, Free, Dialer
<1>6. OneWaits
  BY PublisherAssumption DEF PublisherAssumption, PublisherMade, OneWaits, At
<1>7. Lag
  BY PublisherAssumption DEF PublisherAssumption, PublisherMade, Lag
<1>8. QED
  BY <1>1, <1>2, <1>3, <1>4, <1>5, <1>6, <1>7 DEF PubInv

\* The broker and the network.
LEMMA BrokerStep ==
  ASSUME PubInv, Broker
  PROVE  PubInv'
<1> USE DEF PubInv
<1>1. UNCHANGED <<epoch, connected, attempt, holder, stage, timeouts>>
  BY DEF Broker, BrokerAccepts, BrokerRejects, ConfirmArrives, LoseChannel
<1>2. CallersOK' /\ OneWaits' /\ NoTimeoutYet'
  BY <1>1 DEF CallersOK, OneWaits, NoTimeoutYet, At
<1>a. FlagOK'
  <2>1. connected' = connected
    BY <1>1
  <2>2. QED
    BY <2>1, Zenon DEF FlagOK
<1>b. wire \in Seq(Message) /\ answers \in Seq(BOOLEAN) /\ confirms \in Seq(BOOLEAN)
  BY DEF FlowOK
<1>3. CASE BrokerAccepts \/ BrokerRejects \/ ConfirmArrives
  <2>1. UNCHANGED <<channel, handler, losses>>
    BY <1>3 DEF BrokerAccepts, BrokerRejects, ConfirmArrives
  <2>b. rejects' = rejects \/ (rejects < MaxRejects /\ rejects' = rejects + 1)
    BY <1>3 DEF BrokerAccepts, BrokerRejects, ConfirmArrives
  <2>2. StateOK' /\ FirstLoss'
    BY <1>1, <2>1, <2>b, PublisherAssumption DEF PublisherAssumption, StateOK, FirstLoss
  <2>3. /\ FlowOK'
        /\ Len(wire') + Len(answers') + Len(confirms') = Len(wire) + Len(answers) + Len(confirms)
        /\ wire # <<>> \/ answers # <<>>
    <3>1. CASE wire # <<>> /\ wire' = Tail(wire) /\ confirms' = confirms
               /\ \E x \in BOOLEAN : answers' = Append(answers, x)
      <4>1. wire' \in Seq(Message) /\ Len(wire') = Len(wire) - 1 /\ Len(wire) \in Nat
        BY <1>b, <3>1, Queueing
      <4>2. answers' \in Seq(BOOLEAN) /\ Len(answers') = Len(answers) + 1 /\ Len(answers) \in Nat
        BY <1>b, <3>1, Queueing
      <4>3. Len(confirms') \in Nat
        BY <1>b, <3>1, Queueing
      <4>4. QED
        BY <1>b, <3>1, <4>1, <4>2, <4>3 DEF FlowOK
    <3>2. CASE answers # <<>> /\ wire' = wire
               /\ confirms' = Append(confirms, Head(answers)) /\ answers' = Tail(answers)
      <4>1. answers' \in Seq(BOOLEAN) /\ Len(answers') = Len(answers) - 1 /\ Len(answers) \in Nat
            /\ Head(answers) \in BOOLEAN
        BY <1>b, <3>2, Queueing
      <4>2. confirms' \in Seq(BOOLEAN) /\ Len(confirms') = Len(confirms) + 1 /\ Len(confirms) \in Nat
        BY <1>b, <3>2, <4>1, Queueing
      <4>3. Len(wire') \in Nat
        BY <1>b, <3>2, Queueing
      <4>4. QED
        BY <1>b, <3>2, <4>1, <4>2, <4>3 DEF FlowOK
    <3>3. CASE ConfirmArrives
      BY <3>2, <3>3 DEF ConfirmArrives
    <3>4. CASE BrokerAccepts
      <4>1. answers' = Append(answers, TRUE) /\ TRUE \in BOOLEAN
        BY <3>4, Zenon DEF BrokerAccepts
      <4>2. QED
        BY <3>1, <3>4, <4>1 DEF BrokerAccepts
    <3>5. CASE BrokerRejects
      <4>1. answers' = Append(answers, FALSE) /\ FALSE \in BOOLEAN
        BY <3>5, Zenon DEF BrokerRejects
      <4>2. QED
        BY <3>1, <3>5, <4>1 DEF BrokerRejects
    <3>6. QED
      BY <1>3, <3>3, <3>4, <3>5
  <2>4. CountOK'
    <3>1. CASE BrokerAccepts
      <4>1. Head(wire) \in Message
        BY <1>b, <3>1, Queueing DEF BrokerAccepts
      <4>2. stored' = [stored EXCEPT ![Head(wire)] = @ + 1]
        BY <3>1 DEF BrokerAccepts
      <4>3. QED
        BY <1>1, <4>1, <4>2 DEF CountOK
    <3>2. CASE BrokerRejects \/ ConfirmArrives
      BY <1>1, <3>2 DEF BrokerRejects, ConfirmArrives, CountOK
    <3>3. QED
      BY <1>3, <3>1, <3>2
  <2>5. DeadIsQuiet' /\ Lag'
    BY <1>1, <2>1, <2>3 DEF DeadIsQuiet, Lag
  <2>6. QED
    BY <1>2, <1>a, <2>2, <2>3, <2>4, <2>5
<1>4. CASE LoseChannel
  <2>1. StateOK' /\ FirstLoss'
    BY <1>1, <1>4, PublisherAssumption DEF PublisherAssumption, LoseChannel, StateOK, FirstLoss
  <2>2. FlowOK'
    BY <1>4, <1>b DEF LoseChannel, FlowOK
  <2>3. CountOK'
    BY <1>1, <1>4 DEF LoseChannel, CountOK
  <2>4. DeadIsQuiet' /\ Lag'
    BY <1>4 DEF LoseChannel, DeadIsQuiet, Lag
  <2>5. QED
    BY <1>2, <1>a, <2>1, <2>2, <2>3, <2>4
<1>5. QED
  BY <1>3, <1>4 DEF Broker

\* reconnect(): only a dead channel is replaced, by one that has seen nothing.
LEMMA DialStep ==
  ASSUME PubInv, HandleReconnect
  PROVE  PubInv'
<1> USE DEF PubInv
<1>1. UNCHANGED <<wire, answers, stage, stored, losses, rejects, timeouts>>
  BY DEF HandleReconnect, ReconnectBegin, DialBegin, DialOK, DialFails
<1>2. CountOK'
  BY <1>1 DEF CountOK
<1>3. FlowOK'
  <2>1. confirms' = confirms \/ confirms' = <<>>
    BY DEF HandleReconnect, ReconnectBegin, DialBegin, DialOK, DialFails
  <2>2. confirms \in Seq(BOOLEAN) /\ <<>> \in Seq(BOOLEAN)
    BY DEF FlowOK
  <2>3. confirms' \in Seq(BOOLEAN)
    BY <2>1, <2>2, Zenon
  <2>4. QED
    BY <1>1, <2>3 DEF FlowOK
<1>4. FlagOK'
  <2>1. CASE ReconnectBegin
    BY <2>1, Zenon DEF ReconnectBegin, FlagOK
  <2>2. CASE DialOK
    BY <2>2, Zenon DEF DialOK, FlagOK
  <2>3. CASE DialBegin \/ DialFails
    <3>1. connected' = connected
      BY <2>3 DEF DialBegin, DialFails
    <3>2. QED
      BY <3>1, Zenon DEF FlagOK
  <2>4. QED
    BY <2>1, <2>2, <2>3 DEF HandleReconnect
<1>5. CallersOK' /\ OneWaits'
  BY <1>1, PublisherAssumption
     DEF PublisherAssumption, HandleReconnect, ReconnectBegin, DialBegin, DialOK, DialFails,
         CallersOK, OneWaits, At
<1>6. CASE ReconnectBegin \/ DialBegin \/ DialFails
  <2>1. UNCHANGED <<channel, epoch, confirms>>
    BY <1>6 DEF ReconnectBegin, DialBegin, DialFails
  <2>2. StateOK' /\ FirstLoss'
    BY <1>1, <1>6, <2>1, PublisherAssumption
       DEF PublisherAssumption, ReconnectBegin, DialBegin, DialFails, StateOK, FirstLoss, Free, Dialer
  <2>3. DeadIsQuiet' /\ NoTimeoutYet'
    BY <1>1, <2>1 DEF DeadIsQuiet, NoTimeoutYet
  <2>4. handler \in {"lost", "reconnecting"}
    BY <1>6 DEF ReconnectBegin, DialBegin, DialFails, FirstLoss
  <2>5. Lag'
    BY <2>1, <2>4 DEF FirstLoss, Lag
  <2>6. QED
    BY <1>2, <1>3, <1>4, <1>5, <2>2, <2>3, <2>5
<1>7. CASE DialOK
  <2>1. epoch = 1 /\ losses \in 1..MaxLosses /\ wire = <<>> /\ answers = <<>>
    BY <1>7, PublisherAssumption DEF PublisherAssumption, DialOK, FirstLoss, DeadIsQuiet, StateOK
  <2>2. StateOK' /\ FirstLoss'
    BY <1>1, <1>7, <2>1, PublisherAssumption
       DEF PublisherAssumption, DialOK, StateOK, FirstLoss, Free, Dialer
  <2>3. DeadIsQuiet' /\ NoTimeoutYet'
    BY <1>1, <1>7, <2>1 DEF DialOK, DeadIsQuiet, NoTimeoutYet
  <2>4. timeouts'[epoch'] = 0 /\ holder' \notin Caller /\ confirms' = <<>>
    BY <1>1, <1>7, <2>1, PublisherAssumption DEF PublisherAssumption, DialOK, NoTimeoutYet
  <2>5. Lag'
    BY <1>1, <2>1, <2>4 DEF Lag
  <2>6. QED
    BY <1>2, <1>3, <1>4, <1>5, <2>2, <2>3, <2>5
<1>8. QED
  BY <1>6, <1>7 DEF HandleReconnect

\* A caller moves about in the code around Publish: nothing else changes.
LEMMA MoveStep ==
  ASSUME PubInv,
         NEW c \in Caller, NEW p \in {"out", "enter", "ok", "error"},
         stage[c] # "wait", Goto(c, p),
         UNCHANGED <<channel, epoch, wire, answers, confirms, connected, handler, attempt, holder,
                     stored, losses, rejects, timeouts>>
  PROVE  PubInv'
<1> USE DEF PubInv
<1>1. CallersOK' /\ OneWaits'
  BY DEF CallersOK, OneWaits, At, Goto
<1>2. StateOK' /\ CountOK'
  BY DEF StateOK, CountOK
<1>3. FlowOK' /\ FlagOK'
  <2>1. connected' = connected /\ wire' = wire /\ answers' = answers /\ confirms' = confirms
    OBVIOUS
  <2>2. QED
    BY <2>1, Zenon DEF FlowOK, FlagOK
<1>4. DeadIsQuiet' /\ FirstLoss' /\ NoTimeoutYet' /\ Lag'
  BY DEF DeadIsQuiet, FirstLoss, NoTimeoutYet, Lag
<1>5. QED
  BY <1>1, <1>2, <1>3, <1>4

\* p.mu is taken and the body is sent: from here on one confirm is owed.
LEMMA SendStep ==
  ASSUME PubInv, NEW c \in Caller, NEW m \in Message, PublishSends(c, m)
  PROVE  PubInv'
<1> USE DEF PubInv
<1>1. /\ stage[c] = "enter" /\ holder = Free /\ channel = "open"
      /\ holder' = c /\ wire' = Append(wire, m) /\ stage' = [stage EXCEPT ![c] = "wait"]
      /\ UNCHANGED <<channel, epoch, answers, confirms, handler, attempt, stored, losses, rejects,
                     timeouts>>
  BY DEF PublishSends, At, Goto
<1>2. CallersOK' /\ OneWaits'
  BY <1>1, PublisherAssumption DEF PublisherAssumption, CallersOK, OneWaits, At
<1>3. wire' \in Seq(Message) /\ Len(wire') = Len(wire) + 1
  BY <1>1, Queueing DEF FlowOK
<1>4. FlowOK' /\ FlagOK'
  <2>1. connected' = connected /\ answers' = answers /\ confirms' = confirms
    BY DEF PublishSends
  <2>2. QED
    BY <1>3, <2>1, Zenon DEF FlowOK, FlagOK
<1>5. StateOK' /\ CountOK' /\ NoTimeoutYet' /\ DeadIsQuiet'
  BY <1>1 DEF StateOK, CountOK, NoTimeoutYet, DeadIsQuiet
<1>6. FirstLoss'
  BY <1>1, PublisherAssumption DEF PublisherAssumption, FirstLoss
<1>7. Lag'
  <2>1. Len(wire) \in Nat /\ Len(answers) \in Nat /\ Len(confirms) \in Nat
    BY Queueing DEF FlowOK
  <2>2. timeouts[epoch] \in Nat
    BY DEF StateOK, CountOK
  <2>3. holder \notin Caller
    BY <1>1, PublisherAssumption DEF PublisherAssumption
  <2>4. QED
    BY <1>1, <1>3, <2>1, <2>2, <2>3 DEF Lag
<1>8. QED
  BY <1>2, <1>4, <1>5, <1>6, <1>7

\* The wait ends: with the oldest confirm, or without one, which leaves one behind.
LEMMA AnswerStep ==
  ASSUME PubInv, NEW c \in Caller, ReadConfirm(c) \/ ConfirmTimeout(c)
  PROVE  PubInv'
<1> USE DEF PubInv
<1>1. /\ stage[c] = "wait" /\ holder = c /\ holder' = Free
      /\ UNCHANGED <<channel, epoch, wire, answers, handler, attempt, stored, losses, rejects>>
  BY DEF ReadConfirm, ConfirmTimeout, At, OneWaits
<1>2. \E p \in {"ok", "error"} : stage' = [stage EXCEPT ![c] = p]
  BY DEF ReadConfirm, ConfirmTimeout, Goto
<1>3. CallersOK' /\ OneWaits'
  BY <1>1, <1>2, PublisherAssumption DEF PublisherAssumption, CallersOK, OneWaits, At
<1>4. FlagOK'
  <2>1. connected' = connected
    BY DEF ReadConfirm, ConfirmTimeout
  <2>2. QED
    BY <2>1, Zenon DEF FlagOK
<1>5. Len(wire) \in Nat /\ Len(answers) \in Nat /\ Len(confirms) \in Nat
  BY Queueing DEF FlowOK
<1>6. timeouts[epoch] \in Nat /\ epoch \in 1..MaxLosses + 1
  BY DEF StateOK, CountOK
<1>7. StateOK' /\ DeadIsQuiet'
  BY <1>1 DEF StateOK, DeadIsQuiet
<1>8. FirstLoss'
  BY <1>1, PublisherAssumption DEF PublisherAssumption, FirstLoss, Free, Dialer
<1>9. CASE ReadConfirm(c)
  <2>1. /\ timeouts' = timeouts
        /\ \/ confirms # <<>> /\ confirms' = Tail(confirms)
           \/ channel # "open" /\ confirms' = <<>>
    BY <1>9 DEF ReadConfirm
  <2>2. CountOK' /\ NoTimeoutYet'
    BY <1>1, <2>1 DEF CountOK, NoTimeoutYet
  <2>3. confirms \in Seq(BOOLEAN) /\ <<>> \in Seq(BOOLEAN)
    BY DEF FlowOK
  <2>4. confirms # <<>> => Tail(confirms) \in Seq(BOOLEAN) /\ Len(Tail(confirms)) = Len(confirms) - 1
    BY <2>3, Queueing
  <2>5. FlowOK'
    BY <1>1, <2>1, <2>3, <2>4 DEF FlowOK
  <2>6. Lag'
    <3>1. SUFFICES ASSUME channel = "open"
                   PROVE  Len(wire) + Len(answers) + Len(confirms') = timeouts[epoch]
      BY <1>1, <2>1, PublisherAssumption DEF PublisherAssumption, Lag
    <3>2. Len(wire) + Len(answers) + Len(confirms) = timeouts[epoch] + 1
      BY <1>1, <3>1 DEF Lag
    <3>3. Len(confirms') = Len(confirms) - 1
      BY <2>1, <2>4, <3>1
    <3>4. QED
      BY <1>5, <1>6, <3>2, <3>3
  <2>7. QED
    BY <1>3, <1>4, <1>7, <1>8, <2>2, <2>5, <2>6
<1>10. CASE ConfirmTimeout(c)
  <2>1. confirms' = confirms /\ timeouts' = [timeouts EXCEPT ![epoch] = @ + 1]
    BY <1>10 DEF ConfirmTimeout
  <2>2. FlowOK'
    BY <1>1, <2>1 DEF FlowOK
  <2>3. CountOK' /\ NoTimeoutYet'
    BY <1>1, <1>6, <2>1 DEF CountOK, NoTimeoutYet, StateOK
  <2>4. timeouts'[epoch] = timeouts[epoch] + 1
    BY <1>6, <2>1 DEF CountOK
  <2>5. Lag'
    BY <1>1, <1>5, <1>6, <2>1, <2>4, PublisherAssumption DEF PublisherAssumption, Lag
  <2>6. QED
    BY <1>3, <1>4, <1>7, <1>8, <2>2, <2>3, <2>5
<1>11. QED
  BY <1>9, <1>10

\* Close, which leaves callers where they are or follows one on its way out.
LEMMA CloseStep ==
  ASSUME PubInv, Close,
         \/ UNCHANGED stage
         \/ \E c \in Caller, p \in {"out", "enter", "ok", "error"} :
              stage[c] # "wait" /\ stage' = [stage EXCEPT ![c] = p]
  PROVE  PubInv'
<1> USE DEF PubInv
<1>1. CallersOK' /\ OneWaits'
  BY DEF Close, CallersOK, OneWaits, At
<1>2. StateOK' /\ CountOK' /\ NoTimeoutYet'
  BY DEF Close, StateOK, CountOK, NoTimeoutYet
<1>3. FlowOK'
  <2>1. confirms' = confirms /\ wire' = <<>> /\ answers' = <<>>
    BY DEF Close
  <2>2. QED
    BY <2>1 DEF FlowOK
<1>4. FlagOK'
  BY Zenon DEF Close, FlagOK
<1>5. DeadIsQuiet' /\ Lag'
  BY DEF Close, DeadIsQuiet, Lag
<1>6. FirstLoss'
  BY DEF Close, FirstLoss
<1>7. QED
  BY <1>1, <1>2, <1>3, <1>4, <1>5, <1>6

\* The members of a queue that grows at one end and shrinks at the other.
LEMMA Members ==
  ASSUME NEW S, NEW q \in Seq(S)
  PROVE  /\ ToSet(q) \subseteq S
         /\ q = <<>> => ToSet(q) = {}
         /\ \A x \in S : ToSet(Append(q, x)) = ToSet(q) \cup {x}
         /\ q # <<>> => Head(q) \in ToSet(q) /\ ToSet(Tail(q)) \subseteq ToSet(q)
<1>1. ToSet(q) \subseteq S /\ (q = <<>> => ToSet(q) = {})
  BY DEF ToSet
<1>2. ASSUME NEW x \in S PROVE ToSet(Append(q, x)) = ToSet(q) \cup {x}
  <2>1. /\ DOMAIN q = 1..Len(q) /\ DOMAIN Append(q, x) = 1..(Len(q) + 1) /\ Len(q) \in Nat
        /\ \A i \in 1..Len(q) : Append(q, x)[i] = q[i]
        /\ Append(q, x)[Len(q) + 1] = x
    OBVIOUS
  <2>2. QED
    BY <2>1 DEF ToSet
<1>3. q # <<>> => Head(q) \in ToSet(q)
  BY Queueing DEF ToSet
<1>4. q # <<>> => ToSet(Tail(q)) \subseteq ToSet(q)
  <2>1. q # <<>> => \A i \in DOMAIN Tail(q) : i + 1 \in DOMAIN q /\ Tail(q)[i] = q[i + 1]
    OBVIOUS
  <2>2. QED
    BY <2>1 DEF ToSet
<1>5. QED
  BY <1>1, <1>2, <1>3, <1>4

----------------------------------------------------------------------------
(***************************************************************************)
(* The HTTP bridge.  OkIsStored is not inductive.  Why may a nil from      *)
(* Publish be believed?  Because before the first timeout of a channel the *)
(* only thing in flight is what the waiting request sent (OwnConfirm, by   *)
(* Lag).  And "200 OK" counts on every entry behind index being vouched    *)
(* for (VouchedSoFar).                                                     *)
(***************************************************************************)
BridgeSpec == PublisherMade(TRUE) /\ BridgeInit /\ [][BridgeNext]_<<publisherVars, bridgeVars>>

RequestsOK ==
  /\ index \in [Request -> Nat]
  /\ response \in [Request -> {"none", "bad", "failed", "ok"}]
  /\ vouched \subseteq [msg : Message, epoch : 1..MaxLosses + 1]

Answering ==
  \A r \in Request :
    /\ ~At(r, "out") => Publishing(r) /\ index[r] <= Len(Entries[r])
    /\ response[r] = "ok" => index[r] > Len(Entries[r])
    /\ index[r] = 0 => response[r] \in {"none", "bad"}

OwnConfirm ==
  \A r \in Request : At(r, "wait") /\ timeouts[epoch] = 0 =>
    /\ ToSet(wire) \subseteq {Entry(r)}
    /\ TRUE \in ToSet(answers) \cup ToSet(confirms) => stored[Entry(r)] > 0

VouchedSoFar ==
  \A r \in Request : \A i \in 1..Len(Entries[r]) :
    i < index[r] \/ (i = index[r] /\ At(r, "ok")) => \E v \in vouched : v.msg = Entries[r][i]

VouchedIsStored == \A v \in vouched : stored[v.msg] > 0 \/ timeouts[v.epoch] > 0

BridgeInv ==
  PubInv /\ RequestsOK /\ Answering /\ OwnConfirm /\ VouchedSoFar /\ VouchedIsStored

LEMMA BridgeFacts == BridgeInv => BridgeTypeOK /\ ConfirmsLag /\ OkIsStored
<1> SUFFICES ASSUME BridgeInv PROVE BridgeTypeOK /\ ConfirmsLag /\ OkIsStored
  OBVIOUS
<1>1. BridgeTypeOK
  <2>1. PublisherTypeOK
    BY PublisherTypes DEF BridgeInv, PubInv
  <2>2. QED
    BY <2>1, PublisherAssumption DEF PublisherAssumption, BridgeInv, RequestsOK, BridgeTypeOK
<1>2. ConfirmsLag
  BY DEF BridgeInv, PubInv, Lag, ConfirmsLag
<1>3. OkIsStored
  BY BridgeAssumption
     DEF BridgeAssumption, BridgeInv, RequestsOK, Answering, VouchedSoFar, VouchedIsStored, OkIsStored
<1>4. QED
  BY <1>1, <1>2, <1>3

\* What a request's entry is, while it is published.
LEMMA EntryIsMessage ==
  ASSUME BridgeInv, NEW r \in Request, ~At(r, "out")
  PROVE  /\ index[r] \in 1..Len(Entries[r]) /\ Entry(r) \in Message /\ response[r] = "none"
         /\ r \in Caller
BY BridgeAssumption DEF BridgeAssumption, BridgeInv, RequestsOK, Answering, Publishing, Entry

LEMMA BridgeMade ==
  ASSUME PublisherMade(TRUE), BridgeInit
  PROVE  BridgeInv
<1>1. PubInv
  BY MadeInv
<1>2. RequestsOK /\ VouchedIsStored
  BY DEF BridgeInit, RequestsOK, VouchedIsStored
<1>3. \A r \in Request : stage[r] = "out"
  BY BridgeAssumption DEF BridgeAssumption, PublisherMade
<1>4. Answering /\ OwnConfirm
  BY <1>3, BridgeAssumption DEF BridgeAssumption, BridgeInit, Answering, OwnConfirm, At
<1>5. VouchedSoFar
  BY <1>3 DEF BridgeInit, VouchedSoFar, At
<1>6. QED
  BY <1>1, <1>2, <1>4, <1>5 DEF BridgeInv

\* The broker stores nothing but the waiting request's entry, as long as nobody has timed out.
LEMMA BridgeBroker ==
  ASSUME BridgeInv, Broker, UNCHANGED bridgeVars
  PROVE  BridgeInv'
<1> USE DEF BridgeInv
<1>1. PubInv' /\ UNCHANGED <<index, response, vouched, stage, epoch, timeouts>>
  <2>1. PubInv'
    BY BrokerStep
  <2>2. QED
    BY <2>1 DEF bridgeVars, Broker, BrokerAccepts, BrokerRejects, ConfirmArrives, LoseChannel
<1>2. RequestsOK' /\ Answering' /\ VouchedSoFar'
  BY <1>1 DEF RequestsOK, Answering, VouchedSoFar, At, Publishing
<1>3. wire \in Seq(Message) /\ answers \in Seq(BOOLEAN) /\ confirms \in Seq(BOOLEAN)
      /\ stored \in [Message -> Nat]
  BY DEF PubInv, FlowOK, CountOK
<1>4. CASE BrokerAccepts
  <2>1. /\ wire # <<>> /\ wire' = Tail(wire) /\ confirms' = confirms
        /\ stored' = [stored EXCEPT ![Head(wire)] = @ + 1]
        /\ answers' = Append(answers, TRUE)
    BY <1>4 DEF BrokerAccepts
  <2>2. Head(wire) \in ToSet(wire) /\ Head(wire) \in Message /\ ToSet(wire') \subseteq ToSet(wire)
    BY <1>3, <2>1, Members
  <2>3. \A m \in Message : stored'[m] >= stored[m]
    BY <1>3, <2>1, <2>2
  <2>4. stored'[Head(wire)] > 0
    BY <1>3, <2>1, <2>2
  <2>5. OwnConfirm'
    BY <1>1, <2>2, <2>4 DEF OwnConfirm, At, Entry
  <2>6. VouchedIsStored'
    BY <1>1, <1>3, <2>1, <2>3, <2>2 DEF VouchedIsStored, RequestsOK
  <2>7. QED
    BY <1>1, <1>2, <2>5, <2>6
<1>5. CASE BrokerRejects \/ ConfirmArrives \/ LoseChannel
  <2>1. stored' = stored
    BY <1>5 DEF BrokerRejects, ConfirmArrives, LoseChannel
  <2>2. ToSet(wire') \subseteq ToSet(wire)
        /\ (TRUE \in ToSet(answers') \cup ToSet(confirms') => TRUE \in ToSet(answers) \cup ToSet(confirms))
    <3>1. CASE BrokerRejects
      <4>1. wire # <<>> /\ wire' = Tail(wire) /\ answers' = Append(answers, FALSE) /\ confirms' = confirms
        BY <3>1 DEF BrokerRejects
      <4>2. ToSet(answers') = ToSet(answers) \cup {FALSE}
        <5>1. \A x \in BOOLEAN : ToSet(Append(answers, x)) = ToSet(answers) \cup {x}
          BY <1>3, Members
        <5>2. FALSE \in BOOLEAN
          OBVIOUS
        <5>3. ToSet(Append(answers, FALSE)) = ToSet(answers) \cup {FALSE}
          BY <5>1, <5>2, Zenon
        <5>4. QED
          BY <4>1, <5>3, Zenon
      <4>3. QED
        BY <1>3, <4>1, <4>2, Members
    <3>2. CASE ConfirmArrives
      <4>1. wire' = wire /\ answers # <<>> /\ answers' = Tail(answers)
            /\ confirms' = Append(confirms, Head(answers))
        BY <3>2 DEF ConfirmArrives
      <4>2. Head(answers) \in ToSet(answers) /\ Head(answers) \in BOOLEAN
            /\ ToSet(answers') \subseteq ToSet(answers)
        BY <1>3, <4>1, Members
      <4>3. ToSet(confirms') = ToSet(confirms) \cup {Head(answers)}
        BY <1>3, <4>1, <4>2, Members
      <4>4. QED
        BY <4>1, <4>2, <4>3
    <3>3. CASE LoseChannel
      <4>1. wire' = <<>> /\ answers' = <<>> /\ confirms' = confirms
        BY <3>3 DEF LoseChannel
      <4>2. ToSet(wire') = {} /\ ToSet(answers') = {}
        <5>1. <<>> \in Seq(Message) /\ <<>> \in Seq(BOOLEAN)
          OBVIOUS
        <5>2. QED
          BY <4>1, <5>1, Members, Zenon
      <4>3. QED
        BY <4>1, <4>2
    <3>4. QED
      BY <1>5, <3>1, <3>2, <3>3
  <2>3. OwnConfirm' /\ VouchedIsStored'
    BY <1>1, <2>1, <2>2 DEF OwnConfirm, VouchedIsStored, At, Entry
  <2>4. QED
    BY <1>1, <1>2, <2>3
<1>6. QED
  BY <1>4, <1>5 DEF Broker

\* Nobody waits for a confirm while the connection is replaced, or when it is closed.
LEMMA BridgeDial ==
  ASSUME BridgeInv, \/ HandleReconnect /\ UNCHANGED bridgeVars
                    \/ Shutdown
  PROVE  BridgeInv'
<1> USE DEF BridgeInv
<1>1. UNCHANGED <<index, response, vouched, stage, stored, timeouts>>
  BY DEF bridgeVars, HandleReconnect, ReconnectBegin, DialBegin, DialOK, DialFails, Shutdown, Close
<1>2. PubInv'
  BY DialStep, CloseStep DEF Shutdown
<1>3. RequestsOK' /\ Answering' /\ VouchedSoFar' /\ VouchedIsStored'
  BY <1>1 DEF RequestsOK, Answering, VouchedSoFar, VouchedIsStored, At, Publishing
<1>4. OwnConfirm'
  <2>1. CASE ReconnectBegin
    BY <1>1, <2>1 DEF ReconnectBegin, OwnConfirm, At, Entry
  <2>2. CASE DialBegin \/ DialOK \/ DialFails \/ Shutdown
    <3>1. holder \in {Free, Dialer}
      BY <2>2 DEF DialBegin, DialOK, DialFails, Shutdown, Close
    <3>2. \A r \in Request : stage[r] # "wait"
      BY <3>1, PublisherAssumption, BridgeAssumption
         DEF PublisherAssumption, BridgeAssumption, PubInv, OneWaits, At
    <3>3. QED
      BY <1>1, <3>2 DEF OwnConfirm, At
  <2>3. QED
    BY <2>1, <2>2 DEF HandleReconnect
<1>5. QED
  BY <1>2, <1>3, <1>4

\* A request comes in or is answered; nothing is published.
LEMMA BridgeRequest ==
  ASSUME BridgeInv, NEW r \in Request, Refuse(r) \/ Receive(r) \/ BatchDone(r)
  PROVE  BridgeInv'
<1> USE DEF BridgeInv
<1>1. UNCHANGED publisherVars /\ vouched' = vouched
  BY DEF Refuse, Receive, BatchDone
<1>2. stage[r] = "out"
  BY BridgeAssumption
     DEF BridgeAssumption, Refuse, Receive, BatchDone, RequestsOK, Answering, Publishing, At
<1>3. PubInv'
  BY <1>1 DEF publisherVars, PubInv, StateOK, CallersOK, FlowOK, CountOK, FlagOK, DeadIsQuiet, FirstLoss,
              OneWaits, NoTimeoutYet, Lag, At
<1>4. RequestsOK'
  BY <1>1 DEF Refuse, Receive, BatchDone, Respond, RequestsOK
<1>5. Entries \in [Request -> Seq(Message)]
  BY BridgeAssumption DEF BridgeAssumption
<1>6. Answering'
  BY <1>1, <1>2, <1>5
     DEF publisherVars, Refuse, Receive, BatchDone, Respond, RequestsOK, Answering, Publishing, At
<1>7. OwnConfirm'
  BY <1>1, <1>2 DEF publisherVars, Refuse, Receive, BatchDone, RequestsOK, OwnConfirm, Entry, At
<1>8. VouchedSoFar'
  BY <1>1, <1>2 DEF publisherVars, Refuse, Receive, BatchDone, RequestsOK, VouchedSoFar, At
<1>9. VouchedIsStored'
  BY <1>1 DEF publisherVars, VouchedIsStored
<1>10. QED
  BY <1>3, <1>4, <1>6, <1>7, <1>8, <1>9

\* Between two publishes of a batch: the next entry, or the end of the batch at an error.
LEMMA BridgeMove ==
  ASSUME BridgeInv, NEW r \in Request, PublishNext(r) \/ EntryDone(r) \/ BatchFails(r)
  PROVE  BridgeInv'
<1> USE DEF BridgeInv
<1>1. /\ UNCHANGED <<channel, epoch, wire, answers, confirms, connected, handler, attempt, holder,
                     stored, losses, rejects, timeouts>>
      /\ vouched' = vouched /\ stage[r] # "wait"
  BY DEF PublishNext, EnterPublish, EntryDone, BatchFails, bridgeVars, At
<1>2. PICK p \in {"out", "enter"} : Goto(r, p)
  BY DEF PublishNext, EnterPublish, EntryDone, BatchFails
<1>3. PubInv'
  BY <1>1, <1>2, MoveStep, BridgeAssumption DEF BridgeAssumption
<1>4. stage' = [stage EXCEPT ![r] = p] /\ stage \in [Caller -> {"out", "enter", "wait", "ok", "error"}]
      /\ r \in Caller /\ Request \subseteq Caller
  BY <1>2, BridgeAssumption DEF BridgeAssumption, Goto, PubInv, CallersOK
<1>5. Entries \in [Request -> Seq(Message)]
  BY BridgeAssumption DEF BridgeAssumption
<1>6. RequestsOK' /\ VouchedIsStored'
  <2>1. RequestsOK'
    BY <1>1 DEF PublishNext, bridgeVars, EntryDone, BatchFails, Respond, RequestsOK
  <2>2. QED
    BY <1>1, <2>1 DEF VouchedIsStored
<1>7. Answering'
  <2>1. CASE PublishNext(r)
    BY <1>4, <1>5, <2>1 DEF PublishNext, EnterPublish, Goto, bridgeVars, RequestsOK, Answering, Publishing, At
  <2>2. CASE EntryDone(r)
    BY <1>4, <1>5, <2>2 DEF EntryDone, Goto, RequestsOK, Answering, Publishing, At
  <2>3. CASE BatchFails(r)
    BY <1>4, <1>5, <2>3 DEF BatchFails, Goto, Respond, RequestsOK, Answering, Publishing, At
  <2>4. QED
    BY <2>1, <2>2, <2>3
<1>8. OwnConfirm'
  <2>1. \A q \in Request : stage'[q] = "wait" => stage[q] = "wait" /\ index'[q] = index[q]
    BY <1>4, <1>2 DEF PublishNext, EntryDone, BatchFails, bridgeVars, RequestsOK, At
  <2>2. QED
    BY <1>1, <2>1 DEF OwnConfirm, Entry, At
<1>9. VouchedSoFar'
  <2>1. \A q \in Request : \A i \in 1..Len(Entries[q]) :
           i < index'[q] \/ (i = index'[q] /\ stage'[q] = "ok")
             => i < index[q] \/ (i = index[q] /\ stage[q] = "ok")
    BY <1>4, <1>5 DEF PublishNext, EntryDone, BatchFails, bridgeVars, RequestsOK, At
  <2>2. QED
    BY <1>1, <2>1 DEF VouchedSoFar, At
<1>10. QED
  BY <1>3, <1>6, <1>7, <1>8, <1>9

\* Publish itself: a failure, the send, the wait for a confirm and its end.
LEMMA BridgePublish ==
  ASSUME BridgeInv, NEW r \in Request, Publish(r)
  PROVE  BridgeInv'
<1> USE DEF BridgeInv
<1>1. /\ r \in Caller /\ index[r] \in 1..Len(Entries[r]) /\ Entry(r) \in Message
      /\ stage[r] \in {"enter", "wait"}
  <2>1. stage[r] \in {"enter", "wait"}
    BY DEF Publish, PublishFails, PublishSends, ReadConfirm, ConfirmTimeout, At
  <2>2. QED
    BY <2>1, EntryIsMessage DEF At
<1>2. /\ UNCHANGED <<channel, epoch, stored, index, response>>
      /\ \/ vouched' = vouched /\ stage'[r] # "ok"
         \/ /\ stage'[r] = "ok" /\ ReadConfirm(r)
            /\ vouched' = vouched \cup {[msg |-> Entry(r), epoch |-> epoch]}
  <2>1. UNCHANGED <<channel, epoch, stored, index, response>>
    BY DEF Publish, PublishFails, PublishSends, ReadConfirm, ConfirmTimeout
  <2>2. stage'[r] = "ok" => ReadConfirm(r)
    BY <1>1 DEF Publish, PublishFails, PublishSends, ConfirmTimeout, Goto, PubInv, CallersOK
  <2>3. QED
    BY <2>1, <2>2 DEF Publish
<1>3. PICK p \in {"wait", "ok", "error"} : stage' = [stage EXCEPT ![r] = p]
  BY DEF Publish, PublishFails, PublishSends, ReadConfirm, ConfirmTimeout, Goto
<1>4. stage \in [Caller -> {"out", "enter", "wait", "ok", "error"}] /\ Request \subseteq Caller
      /\ epoch \in 1..MaxLosses + 1 /\ stored \in [Message -> Nat]
      /\ timeouts \in [1..MaxLosses + 1 -> Nat] /\ timeouts' \in [1..MaxLosses + 1 -> Nat]
      /\ Entries \in [Request -> Seq(Message)]
  <2>1. timeouts' = timeouts \/ timeouts' = [timeouts EXCEPT ![epoch] = @ + 1]
    BY DEF Publish, PublishFails, PublishSends, ReadConfirm, ConfirmTimeout
  <2>2. QED
    BY <2>1, BridgeAssumption DEF BridgeAssumption, PubInv, CallersOK, StateOK, CountOK
<1>5. \A e \in 1..MaxLosses + 1 : timeouts[e] > 0 => timeouts'[e] > 0
  <2>1. timeouts' = timeouts \/ timeouts' = [timeouts EXCEPT ![epoch] = @ + 1]
    BY DEF Publish, PublishFails, PublishSends, ReadConfirm, ConfirmTimeout
  <2>2. QED
    BY <1>4, <2>1
<1>6. PubInv'
  <2>1. CASE PublishFails(r)
    BY <1>1, <2>1, MoveStep DEF PublishFails, At
  <2>2. CASE PublishSends(r, Entry(r))
    BY <1>1, <2>2, SendStep
  <2>3. CASE ReadConfirm(r) \/ ConfirmTimeout(r)
    BY <1>1, <2>3, AnswerStep
  <2>4. QED
    BY <2>1, <2>2, <2>3 DEF Publish
<1>7. RequestsOK'
  BY <1>1, <1>2, <1>4 DEF RequestsOK
<1>8. Answering'
  BY <1>1, <1>2, <1>3, <1>4 DEF Answering, Publishing, At
<1>9. VouchedSoFar'
  <2>1. CASE vouched' = vouched /\ stage'[r] # "ok"
    BY <1>2, <1>3, <1>4, <2>1 DEF VouchedSoFar, At
  <2>2. CASE vouched' = vouched \cup {[msg |-> Entry(r), epoch |-> epoch]}
    <3>1. \E v \in vouched' : v.msg = Entries[r][index[r]]
      <4>1. [msg |-> Entry(r), epoch |-> epoch] \in vouched'
        BY <2>2
      <4>2. [msg |-> Entry(r), epoch |-> epoch].msg = Entries[r][index[r]]
        BY DEF Entry
      <4>3. QED
        BY <4>1, <4>2, Zenon
    <3>2. QED
      BY <1>2, <1>3, <1>4, <2>2, <3>1 DEF VouchedSoFar, At
  <2>3. QED
    BY <1>2, <2>1, <2>2
<1>10. VouchedIsStored'
  <2>1. \A v \in vouched : stored'[v.msg] > 0 \/ timeouts'[v.epoch] > 0
    BY <1>2, <1>5 DEF VouchedIsStored, RequestsOK
  <2>2. ASSUME ReadConfirm(r), stage'[r] = "ok"
        PROVE  stored[Entry(r)] > 0 \/ timeouts'[epoch] > 0
    <3>1. /\ stage[r] = "wait" /\ confirms # <<>> /\ timeouts' = timeouts
          /\ stage' = [stage EXCEPT ![r] = IF confirms # <<>> /\ Head(confirms) THEN "ok" ELSE "error"]
      BY <1>1, <1>4, <2>2 DEF ReadConfirm, At, Goto
    <3>2. Head(confirms)
      BY <1>1, <1>4, <2>2, <3>1
    <3>3. Head(confirms) \in ToSet(confirms) /\ Head(confirms) \in BOOLEAN
      BY <3>1, Members DEF PubInv, FlowOK
    <3>4. TRUE \in ToSet(confirms)
      BY <3>2, <3>3
    <3>5. timeouts[epoch] = 0 => stored[Entry(r)] > 0
      BY <3>1, <3>4 DEF OwnConfirm, At
    <3>6. timeouts'[epoch] = timeouts[epoch] /\ timeouts[epoch] \in Nat
      BY <1>4, <3>1
    <3>7. QED
      BY <3>5, <3>6
  <2>3. QED
    BY <1>2, <2>1, <2>2 DEF VouchedIsStored
<1>11. OwnConfirm'
  <2>1. ASSUME NEW q \in Request, stage'[q] = "wait", timeouts'[epoch] = 0
        PROVE  /\ ToSet(wire') \subseteq {Entry(q)}
               /\ TRUE \in ToSet(answers') \cup ToSet(confirms') => stored[Entry(q)] > 0
    <3>1. CASE PublishSends(r, Entry(r))
      <4>1. /\ holder = Free /\ holder' = r /\ wire' = Append(wire, Entry(r)) /\ answers' = answers
            /\ confirms' = confirms /\ channel = "open" /\ timeouts' = timeouts
        BY <3>1 DEF PublishSends
      <4>2. q = r
        BY <1>4, <1>6, <2>1, <4>1 DEF PubInv, OneWaits, At
      <4>3. wire \in Seq(Message) /\ answers \in Seq(BOOLEAN) /\ confirms \in Seq(BOOLEAN)
        BY DEF PubInv, FlowOK
      <4>4. Len(wire) + Len(answers) + Len(confirms) = 0
        BY <2>1, <4>1, PublisherAssumption DEF PublisherAssumption, PubInv, Lag
      <4>5. Len(wire) \in Nat /\ Len(answers) \in Nat /\ Len(confirms) \in Nat
        BY <4>3, Queueing
      <4>6. wire = <<>> /\ answers = <<>> /\ confirms = <<>>
        BY <4>3, <4>4, <4>5, Queueing
      <4>7. ToSet(wire') = {Entry(r)}
        <5>1. ToSet(wire) = {} /\ ToSet(wire') = ToSet(wire) \cup {Entry(r)}
          BY <1>1, <4>1, <4>3, <4>6, Members
        <5>2. QED
          BY <5>1
      <4>8. ToSet(answers) = {} /\ ToSet(confirms) = {}
        BY <4>3, <4>6, Members
      <4>9. QED
        BY <4>1, <4>2, <4>7, <4>8
    <3>2. CASE PublishFails(r)
      <4>1. stage[q] = "wait" /\ UNCHANGED <<wire, answers, confirms, timeouts>>
        BY <1>1, <1>4, <2>1, <3>2 DEF PublishFails, Goto
      <4>2. QED
        BY <2>1, <4>1 DEF OwnConfirm, At
    <3>3. CASE ReadConfirm(r) \/ ConfirmTimeout(r)
      <4>1. stage[r] = "wait" /\ stage'[r] # "wait"
        BY <1>1, <1>4, <3>3 DEF ReadConfirm, ConfirmTimeout, Goto, At
      <4>2. q # r /\ stage[q] = "wait"
        BY <1>3, <1>4, <2>1, <4>1
      <4>3. QED
        BY <1>1, <1>4, <4>1, <4>2 DEF PubInv, OneWaits, At
    <3>4. QED
      BY <3>1, <3>2, <3>3 DEF Publish
  <2>2. QED
    BY <1>2, <2>1 DEF OwnConfirm, Entry, At
<1>12. QED
  BY <1>6, <1>7, <1>8, <1>9, <1>10, <1>11

LEMMA BridgeStep == BridgeInv /\ [BridgeNext]_<<publisherVars, bridgeVars>> => BridgeInv'
<1> SUFFICES ASSUME BridgeInv, [BridgeNext]_<<publisherVars, bridgeVars>> PROVE BridgeInv'
  OBVIOUS
<1>1. CASE UNCHANGED <<publisherVars, bridgeVars>>
  <2>1. UNCHANGED publisherVars /\ UNCHANGED bridgeVars
    BY <1>1
  <2>2. (StateOK /\ CallersOK /\ FlowOK /\ CountOK /\ FlagOK)'
    BY <2>1 DEF publisherVars, BridgeInv, PubInv, StateOK, CallersOK, FlowOK, CountOK, FlagOK
  <2>3. (DeadIsQuiet /\ FirstLoss /\ OneWaits /\ NoTimeoutYet /\ Lag)'
    BY <2>1 DEF publisherVars, BridgeInv, PubInv, DeadIsQuiet, FirstLoss, OneWaits, NoTimeoutYet, Lag, At
  <2>4. RequestsOK' /\ Answering'
    BY <2>1 DEF publisherVars, bridgeVars, BridgeInv, RequestsOK, Answering, Publishing, At
  <2>5. OwnConfirm'
    BY <2>1 DEF publisherVars, bridgeVars, BridgeInv, OwnConfirm, Entry, At
  <2>6. VouchedSoFar' /\ VouchedIsStored'
    BY <2>1 DEF publisherVars, bridgeVars, BridgeInv, VouchedSoFar, VouchedIsStored, At
  <2>7. QED
    BY <2>2, <2>3, <2>4, <2>5, <2>6 DEF BridgeInv, PubInv
<1>2. CASE BridgeNext
  <2>1. CASE Broker /\ UNCHANGED bridgeVars
    BY <2>1, BridgeBroker
  <2>2. CASE (HandleReconnect /\ UNCHANGED bridgeVars) \/ (Up /\ Shutdown)
    BY <2>2, BridgeDial
  <2>3. CASE \E r \in Request : (Up /\ Refuse(r)) \/ Handle(r)
    <3>1. PICK r \in Request : Refuse(r) \/ Receive(r) \/ PublishNext(r) \/ Publish(r) \/ EntryDone(r)
                                 \/ BatchFails(r) \/ BatchDone(r)
      BY <2>3 DEF Handle
    <3>2. QED
      BY <3>1, BridgeRequest, BridgeMove, BridgePublish
  <2>4. QED
    BY <1>2, <2>1, <2>2, <2>3 DEF BridgeNext
<1>3. QED
  BY <1>1, <1>2

LEMMA BridgeInvAlways == BridgeSpec => []BridgeInv
<1>1. PublisherMade(TRUE) /\ BridgeInit => BridgeInv
  BY BridgeMade
<1>2. QED
  BY <1>1, BridgeStep, PTL DEF BridgeSpec

\* Every variable of the bridge and of its Publisher keeps its type; the index a handler
\* uses to take its entry never runs past the batch.
THEOREM BridgeTypeCorrect == BridgeSpec => []BridgeTypeOK
BY BridgeInvAlways, BridgeFacts, PTL

\* However many requests publish at once, what is in flight on an open channel is one
\* confirm per publish that gave up waiting, and the one of the publish that waits:
\* a timeout shifts every later confirm by exactly one place, for good.
THEOREM ConfirmsLagByTimeouts == BridgeSpec => []ConfirmsLag
BY BridgeInvAlways, BridgeFacts, PTL

\* Before the first timeout of a channel a nil from Publish means that the broker took
\* this very entry, and "200 OK" that every entry of the batch was vouched for so.
THEOREM OkMeansStored == BridgeSpec => []OkIsStored
BY BridgeInvAlways, BridgeFacts, PTL

----------------------------------------------------------------------------
(***************************************************************************)
(* The syslog receiver.  CountsTellTheTruth says nothing of the batch      *)
(* being published; the invariant follows it: what is behind the item that *)
(* PublishBatch is at is stored once, what is ahead of it is not stored,   *)
(* and between the two at most one copy is in flight (Turn, StoredOnce).   *)
(***************************************************************************)
ReceiverSpec ==
  /\ ReceiverInit /\ died = FALSE
  /\ [][ReceiverNext]_<<publisherVars, receiverVars>>

LoopOK ==
  /\ attached \in BOOLEAN
  /\ place \in {"read", "ticker", "signal", "full", "tick", "stop", "closing", "returned"}
  /\ batch \in Seq(Message) /\ incoming \in Seq(Message)
  /\ at \in 0..Len(batch)

Held == ToSet(batch) \cup ToSet(incoming)

InOnePlace ==
  /\ coming \cup discarded \cup sent \cup dropped \cup Held = Message
  /\ coming \cap (discarded \cup sent \cup dropped \cup Held) = {}
  /\ discarded \cap (sent \cup dropped \cup Held) = {}
  /\ sent \cap (dropped \cup Held) = {}
  /\ dropped \cap Held = {}
  /\ ToSet(batch) \cap ToSet(incoming) = {}

Distinct(q) == \A i, j \in DOMAIN q : i # j => q[i] # q[j]

RefusedLines == \A m \in discarded : ~Normalize(LineOf[m])

\* Who is publishing, and what of it is in flight.
Turn ==
  /\ Distinct(batch)
  /\ incoming # <<>> => place = "full" /\ Len(incoming) = 1
  /\ at > 0 => Flushing /\ attached
  /\ stage[Receiver] # "out" => at > 0
  /\ wire # <<>> => stage[Receiver] \in {"wait", "error"} /\ wire = <<batch[at]>>
  /\ \A c \in Caller : c # Receiver => stage[c] = "out"

NothingElse ==
  attached /\ stage[Receiver] # "error" =>
    Len(wire) + Len(answers) + Len(confirms) <= (IF stage[Receiver] = "wait" THEN 1 ELSE 0)

StoredOnce ==
  /\ \A m \in coming \cup discarded \cup ToSet(incoming) : stored[m] = 0
  /\ \A m \in sent : stored[m] = 1
  /\ \A m \in dropped : stored[m] <= 1

StoredSoFar ==
  \A i \in DOMAIN batch :
    /\ i < at => stored[batch[i]] = 1
    /\ i > at => stored[batch[i]] = 0
    /\ i = at => /\ stage[Receiver] = "enter" => stored[batch[i]] = 0
                 /\ stage[Receiver] \in {"out", "ok"} => stored[batch[i]] = 1
                 /\ stage[Receiver] \in {"wait", "error"} => stored[batch[i]] + Len(wire) <= 1

AckIsTrue ==
  stage[Receiver] = "wait" /\ TRUE \in ToSet(answers) \cup ToSet(confirms) => stored[batch[at]] = 1

ReceiverInv ==
  /\ PubInv /\ LoopOK /\ InOnePlace /\ RefusedLines
  /\ Turn /\ NothingElse /\ StoredOnce /\ StoredSoFar /\ AckIsTrue

\* Normalize refuses a line only when there is nothing in it to find.
LEMMA RefusedLine ==
  ASSUME NEW l \in Line, ~Normalize(l)
  PROVE  l.blank \/ l.cef = "short" \/ (l.equals /\ ~l.pairs)
BY DEF Line, Normalize, Fields, parseCEF, parseKV, stripSyslogHeader

LEMMA ReceiverFacts == ReceiverInv => CountsTellTheTruth
<1> SUFFICES ASSUME ReceiverInv PROVE CountsTellTheTruth
  OBVIOUS
<1> DEFINE parts == <<coming, discarded, sent, dropped, Held>>
<1>1. UNION ToSet(parts) = Message
  <2>1. ToSet(parts) = {coming, discarded, sent, dropped, Held}
    BY DEF ToSet
  <2>2. QED
    BY <2>1 DEF ReceiverInv, InOnePlace
<1>2. \A i, j \in DOMAIN parts : i # j => parts[i] \cap parts[j] = {}
  BY DEF ReceiverInv, InOnePlace
<1>3. \A m \in sent : stored[m] = 1
  BY DEF ReceiverInv, StoredOnce
<1>4. \A m \in Message \ sent : stored[m] <= 1
  <2>1. \A m \in coming \cup discarded \cup dropped \cup ToSet(incoming) : stored[m] <= 1
    BY DEF ReceiverInv, StoredOnce
  <2>2. ASSUME NEW m \in ToSet(batch) PROVE stored[m] <= 1
    <3>1. PICK i \in DOMAIN batch : m = batch[i]
      BY DEF ToSet
    <3>2. m \in Message /\ stored[m] \in Nat /\ i \in Nat /\ at \in Nat /\ Len(wire) \in Nat
      BY <3>1, Queueing DEF ReceiverInv, LoopOK, PubInv, CountOK, FlowOK
    <3>3. stage[Receiver] \in {"out", "enter", "wait", "ok", "error"}
      BY ReceiverAssumption DEF ReceiverAssumption, ReceiverInv, PubInv, CallersOK
    <3>4. QED
      BY <3>1, <3>2, <3>3 DEF ReceiverInv, StoredSoFar
  <2>3. QED
    BY <2>1, <2>2 DEF ReceiverInv, InOnePlace, Held
<1>5. ASSUME NEW m \in discarded
      PROVE  LineOf[m].blank \/ LineOf[m].cef = "short" \/ (LineOf[m].equals /\ ~LineOf[m].pairs)
  <2>1. LineOf[m] \in Line /\ ~Normalize(LineOf[m])
    BY ReceiverAssumption DEF ReceiverAssumption, ReceiverInv, InOnePlace, RefusedLines
  <2>2. QED
    BY <2>1, RefusedLine, Zenon
<1>6. QED
  BY <1>1, <1>2, <1>3, <1>4, <1>5 DEF CountsTellTheTruth, Held

LEMMA ReceiverMade ==
  ASSUME ReceiverInit
  PROVE  ReceiverInv
<1>1. PubInv
  BY MadeInv DEF ReceiverInit
<1>2. LoopOK
  BY DEF ReceiverInit, LoopOK
<1>3. ToSet(batch) = {} /\ ToSet(incoming) = {}
  BY DEF ReceiverInit, ToSet
<1>4. InOnePlace /\ RefusedLines
  BY <1>3 DEF ReceiverInit, InOnePlace, RefusedLines, Held
<1>5. \A c \in Caller : stage[c] = "out"
  BY DEF ReceiverInit, PublisherMade
<1>6. Turn
  BY <1>5, ReceiverAssumption DEF ReceiverAssumption, ReceiverInit, PublisherMade, Turn, Distinct
<1>7. NothingElse /\ StoredSoFar /\ AckIsTrue
  <2>1. Len(wire) = 0 /\ Len(answers) = 0 /\ Len(confirms) = 0 /\ batch = <<>>
    BY DEF ReceiverInit, PublisherMade
  <2>2. stage[Receiver] = "out"
    BY <1>5, ReceiverAssumption DEF ReceiverAssumption
  <2>3. QED
    BY <2>1, <2>2 DEF NothingElse, StoredSoFar, AckIsTrue
<1>8. StoredOnce
  BY <1>3 DEF ReceiverInit, PublisherMade, StoredOnce
<1>9. QED
  BY <1>1, <1>2, <1>4, <1>6, <1>7, <1>8 DEF ReceiverInv

\* The receiver's share of the invariant, when only what is in flight changes.
LEMMA ReceiverWaits ==
  ASSUME ReceiverInv, PubInv', UNCHANGED receiverVars, UNCHANGED stage,
         \A m \in Message : stored'[m] = stored[m],
         wire' = wire \/ wire' = <<>>,
         Len(wire') + Len(answers') + Len(confirms') <= Len(wire) + Len(answers) + Len(confirms),
         TRUE \in ToSet(answers') \cup ToSet(confirms') => TRUE \in ToSet(answers) \cup ToSet(confirms)
  PROVE  ReceiverInv'
<1> USE DEF ReceiverInv
<1>1. UNCHANGED <<coming, attached, place, incoming, batch, at, discarded, sent, dropped, stage>>
  BY DEF receiverVars
<1>2. LoopOK' /\ InOnePlace' /\ RefusedLines'
  BY <1>1 DEF LoopOK, InOnePlace, RefusedLines, Held
<1>3. Turn'
  BY <1>1 DEF Turn, Distinct, Flushing
<1>4. Len(wire) \in Nat /\ Len(wire') \in Nat /\ Len(wire') <= Len(wire)
  BY Queueing DEF PubInv, FlowOK
<1>5. Len(answers) \in Nat /\ Len(answers') \in Nat /\ Len(confirms) \in Nat /\ Len(confirms') \in Nat
  BY Queueing DEF PubInv, FlowOK
<1>6. NothingElse'
  BY <1>1, <1>4, <1>5 DEF NothingElse
<1>7. StoredOnce'
  BY <1>1, Members DEF StoredOnce, InOnePlace, Held
<1>8. \A i \in DOMAIN batch : batch[i] \in Message /\ stored[batch[i]] \in Nat /\ stored'[batch[i]] = stored[batch[i]]
  BY DEF LoopOK, PubInv, CountOK
<1>9. StoredSoFar'
  BY <1>1, <1>4, <1>8 DEF StoredSoFar
<1>10. AckIsTrue'
  <2>1. stage[Receiver] = "wait" => at \in DOMAIN batch
    BY DEF Turn, LoopOK
  <2>2. QED
    BY <1>1, <1>8, <2>1 DEF AckIsTrue
<1>11. QED
  BY <1>2, <1>3, <1>6, <1>7, <1>9, <1>10

\* The broker takes the item in flight: it is stored, for the first time.
LEMMA ReceiverBroker ==
  ASSUME ReceiverInv, Broker, UNCHANGED receiverVars
  PROVE  ReceiverInv'
<1> USE DEF ReceiverInv
<1>1. PubInv' /\ stage' = stage
  BY BrokerStep DEF Broker, BrokerAccepts, BrokerRejects, ConfirmArrives, LoseChannel
<1>2. wire \in Seq(Message) /\ answers \in Seq(BOOLEAN) /\ confirms \in Seq(BOOLEAN)
      /\ stored \in [Message -> Nat] /\ <<>> \in Seq(Message) /\ <<>> \in Seq(BOOLEAN)
  BY DEF PubInv, FlowOK, CountOK
<1>3. Len(wire) \in Nat /\ Len(answers) \in Nat /\ Len(confirms) \in Nat
  BY <1>2, Queueing
<1>4. CASE LoseChannel
  <2>1. wire' = <<>> /\ answers' = <<>> /\ confirms' = confirms /\ stored' = stored
    BY <1>4 DEF LoseChannel
  <2>2. Len(wire') = 0 /\ Len(answers') = 0 /\ ToSet(answers') = {}
    BY <1>2, <2>1, Members
  <2>3. /\ Len(wire') + Len(answers') + Len(confirms') <= Len(wire) + Len(answers) + Len(confirms)
        /\ wire' = <<>> /\ \A m \in Message : stored'[m] = stored[m]
    BY <1>3, <2>1, <2>2
  <2>4. TRUE \in ToSet(answers') \cup ToSet(confirms') => TRUE \in ToSet(answers) \cup ToSet(confirms)
    BY <2>1, <2>2
  <2>5. QED
    BY <1>1, <2>3, <2>4, ReceiverWaits, Zenon
<1>5. CASE ConfirmArrives
  <2>1. /\ answers # <<>> /\ answers' = Tail(answers) /\ confirms' = Append(confirms, Head(answers))
        /\ wire' = wire /\ stored' = stored
    BY <1>5 DEF ConfirmArrives
  <2>2. /\ Head(answers) \in BOOLEAN /\ Head(answers) \in ToSet(answers)
        /\ Len(answers') = Len(answers) - 1 /\ ToSet(answers') \subseteq ToSet(answers)
    BY <1>2, <2>1, Queueing, Members
  <2>3. Len(confirms') = Len(confirms) + 1 /\ ToSet(confirms') = ToSet(confirms) \cup {Head(answers)}
    BY <1>2, <2>1, <2>2, Queueing, Members
  <2>4. /\ Len(wire') + Len(answers') + Len(confirms') <= Len(wire) + Len(answers) + Len(confirms)
        /\ wire' = wire /\ \A m \in Message : stored'[m] = stored[m]
    BY <1>3, <2>1, <2>2, <2>3
  <2>5. TRUE \in ToSet(answers') \cup ToSet(confirms') => TRUE \in ToSet(answers) \cup ToSet(confirms)
    BY <2>2, <2>3
  <2>6. QED
    BY <1>1, <2>4, <2>5, ReceiverWaits, Zenon
<1>6. CASE BrokerAccepts \/ BrokerRejects
  <2>1. /\ wire # <<>> /\ wire' = Tail(wire) /\ confirms' = confirms
        /\ \/ stored' = stored
           \/ stored' = [stored EXCEPT ![Head(wire)] = @ + 1]
    BY <1>6 DEF BrokerAccepts, BrokerRejects
  <2>2. /\ stage[Receiver] \in {"wait", "error"} /\ wire = <<batch[at]>> /\ at \in DOMAIN batch
        /\ batch[at] \in Message
    BY <2>1 DEF Turn, LoopOK
  <2>3. Head(wire) = batch[at] /\ wire' = <<>> /\ Len(wire) = 1 /\ Len(wire') = 0
    BY <2>1, <2>2
  <2>4. UNCHANGED <<coming, attached, place, incoming, batch, at, discarded, sent, dropped, stage>>
    BY <1>1 DEF receiverVars
  <2>5. LoopOK' /\ InOnePlace' /\ RefusedLines' /\ Turn'
    BY <2>3, <2>4 DEF LoopOK, InOnePlace, RefusedLines, Held, Turn, Distinct, Flushing
  <2>6. Len(answers') = Len(answers) + 1
    <3>1. answers' = Append(answers, TRUE) \/ answers' = Append(answers, FALSE)
      BY <1>6 DEF BrokerAccepts, BrokerRejects
    <3>2. \A x \in BOOLEAN : Len(Append(answers, x)) = Len(answers) + 1
      BY <1>2, Queueing
    <3>3. TRUE \in BOOLEAN /\ FALSE \in BOOLEAN
      OBVIOUS
    <3>4. QED
      BY <3>1, <3>2, <3>3, Zenon
  <2>7. NothingElse'
    BY <1>3, <2>1, <2>3, <2>4, <2>6 DEF NothingElse
  <2>8. /\ stored'[batch[at]] \in {0, 1}
        /\ \A m \in Message : m # batch[at] => stored'[m] = stored[m]
    <3>1. stored[batch[at]] = 0
      BY <1>2, <2>2, <2>3 DEF StoredSoFar, LoopOK
    <3>2. QED
      BY <1>2, <2>1, <2>2, <2>3, <3>1
  <2>9. batch[at] \in ToSet(batch)
    BY <2>2 DEF ToSet
  <2>10. StoredOnce'
    BY <2>4, <2>8, <2>9 DEF StoredOnce, InOnePlace, Held
  <2>11. StoredSoFar'
    <3>1. \A i \in DOMAIN batch : i # at => batch[i] \in Message /\ batch[i] # batch[at]
      BY <2>2 DEF LoopOK, Turn, Distinct
    <3>2. QED
      BY <2>2, <2>3, <2>4, <2>8, <3>1 DEF StoredSoFar, LoopOK
  <2>12. AckIsTrue'
    <3>1. CASE BrokerAccepts
      <4>1. stored' = [stored EXCEPT ![Head(wire)] = @ + 1]
        BY <3>1 DEF BrokerAccepts
      <4>2. stored[batch[at]] = 0
        BY <1>2, <2>2, <2>3 DEF StoredSoFar, LoopOK
      <4>3. stored'[batch[at]] = 1
        BY <1>2, <2>2, <2>3, <4>1, <4>2
      <4>4. QED
        BY <2>4, <4>3 DEF AckIsTrue
    <3>2. CASE BrokerRejects
      <4>1. stored' = stored /\ answers' = Append(answers, FALSE)
        BY <3>2 DEF BrokerRejects
      <4>2. ToSet(answers') = ToSet(answers) \cup {FALSE}
        <5>1. \A x \in BOOLEAN : ToSet(Append(answers, x)) = ToSet(answers) \cup {x}
          BY <1>2, Members
        <5>2. FALSE \in BOOLEAN
          OBVIOUS
        <5>3. ToSet(Append(answers, FALSE)) = ToSet(answers) \cup {FALSE}
          BY <5>1, <5>2, Zenon
        <5>4. QED
          BY <4>1, <5>3, Zenon
      <4>3. QED
        BY <2>1, <2>4, <4>1, <4>2 DEF AckIsTrue
    <3>3. QED
      BY <1>6, <3>1, <3>2
  <2>13. QED
    BY <1>1, <2>5, <2>7, <2>10, <2>11, <2>12
<1>7. QED
  BY <1>4, <1>5, <1>6 DEF Broker

LEMMA ReceiverDial ==
  ASSUME ReceiverInv, HandleReconnect, UNCHANGED receiverVars
  PROVE  ReceiverInv'
<1> USE DEF ReceiverInv
<1>1. PubInv' /\ UNCHANGED <<stage, stored, wire, answers>>
  BY DialStep DEF HandleReconnect, ReconnectBegin, DialBegin, DialOK, DialFails
<1>2. confirms' = confirms \/ confirms' = <<>>
  BY DEF HandleReconnect, ReconnectBegin, DialBegin, DialOK, DialFails
<1>3. Len(confirms') <= Len(confirms) /\ ToSet(confirms') \subseteq ToSet(confirms)
  <2>1. <<>> \in Seq(BOOLEAN) /\ confirms \in Seq(BOOLEAN)
    BY DEF PubInv, FlowOK
  <2>2. CASE confirms' = <<>>
    <3>a. confirms' \in Seq(BOOLEAN)
      BY <2>1, <2>2, Zenon
    <3>b. ToSet(confirms') = {}
      BY <3>a, <2>2, Members, Zenon
    <3>1. Len(confirms') = 0 /\ ToSet(confirms') = {} /\ Len(confirms) \in Nat
      BY <2>1, <2>2, <3>b
    <3>2. QED
      BY <3>1
  <2>3. CASE confirms' = confirms
    <3>1. Len(confirms) \in Nat
      BY <2>1
    <3>2. QED
      BY <2>3, <3>1
  <2>4. QED
    BY <1>2, <2>2, <2>3
<1>4. Len(wire) \in Nat /\ Len(answers) \in Nat /\ Len(confirms) \in Nat /\ Len(confirms') \in Nat
  BY <1>1, Queueing DEF PubInv, FlowOK
<1>5. /\ Len(wire') + Len(answers') + Len(confirms') <= Len(wire) + Len(answers) + Len(confirms)
      /\ wire' = wire /\ \A m \in Message : stored'[m] = stored[m]
  BY <1>1, <1>3, <1>4
<1>6. TRUE \in ToSet(answers') \cup ToSet(confirms') => TRUE \in ToSet(answers) \cup ToSet(confirms)
  BY <1>1, <1>3
<1>7. stage' = stage
  BY <1>1
<1>8. QED
  BY <1>1, <1>5, <1>6, <1>7, ReceiverWaits, Zenon

LEMMA PublisherIdle ==
  ASSUME PubInv, UNCHANGED publisherVars
  PROVE  PubInv'
BY DEF publisherVars, PubInv, StateOK, CallersOK, FlowOK, CountOK, FlagOK, DeadIsQuiet, FirstLoss, OneWaits,
       NoTimeoutYet, Lag, At

\* What holds while the loop is not in flush.
LEMMA NotFlushing ==
  ASSUME ReceiverInv, ~Flushing
  PROVE  /\ at = 0 /\ \A c \in Caller : stage[c] = "out"
         /\ Receiver \in Caller /\ wire = <<>>
BY ReceiverAssumption DEF ReceiverAssumption, ReceiverInv, LoopOK, Turn

\* A datagram is an event for the batch, or for the event in hand, or it is no event.
LEMMA ReceiverRead ==
  ASSUME ReceiverInv, NEW d \in Message, ReadDatagram(d)
  PROVE  ReceiverInv'
<1> USE DEF ReceiverInv
<1>1. /\ place = "read" /\ d \in coming /\ coming' = coming \ {d}
      /\ UNCHANGED publisherVars /\ UNCHANGED <<attached, at, sent, dropped>>
  BY DEF ReadDatagram
<1>2. /\ at = 0 /\ incoming = <<>> /\ wire = <<>> /\ Receiver \in Caller
      /\ \A c \in Caller : stage[c] = "out"
  BY <1>1, NotFlushing DEF Flushing, Turn
<1>3. PubInv' /\ UNCHANGED <<stage, stored, wire, answers, confirms>>
  BY <1>1, PublisherIdle DEF publisherVars
<1>4. ToSet(incoming) = {} /\ batch \in Seq(Message)
  BY <1>2 DEF ToSet, LoopOK
<1>5. \/ /\ ~Normalize(LineOf[d])
         /\ discarded' = discarded \cup {d}
         /\ UNCHANGED <<place, incoming, batch>>
      \/ /\ batch' = Append(batch, d)
         /\ place' = "ticker"
         /\ UNCHANGED <<incoming, discarded>>
      \/ /\ incoming' = <<d>>
         /\ place' = "full"
         /\ UNCHANGED <<batch, discarded>>
  BY DEF ReadDatagram
<1>6. /\ batch' = Append(batch, d) =>
           /\ ToSet(batch') = ToSet(batch) \cup {d} /\ batch' \in Seq(Message)
           /\ DOMAIN batch = 1..Len(batch) /\ DOMAIN batch' = 1..(Len(batch) + 1) /\ Len(batch) \in Nat
           /\ \A i \in 1..Len(batch) : batch'[i] = batch[i]
           /\ batch'[Len(batch) + 1] = d
      /\ incoming' = <<d>> => ToSet(incoming') = {d} /\ incoming' \in Seq(Message) /\ Len(incoming') = 1
  <2>1. ASSUME batch' = Append(batch, d)
        PROVE  /\ ToSet(batch') = ToSet(batch) \cup {d} /\ batch' \in Seq(Message)
               /\ DOMAIN batch = 1..Len(batch) /\ DOMAIN batch' = 1..(Len(batch) + 1) /\ Len(batch) \in Nat
               /\ \A i \in 1..Len(batch) : batch'[i] = batch[i]
               /\ batch'[Len(batch) + 1] = d
    <3>1. ToSet(batch') = ToSet(batch) \cup {d}
      BY <1>4, <2>1, Members
    <3>2. QED
      BY <1>4, <2>1, <3>1
  <2>2. ASSUME incoming' = <<d>>
        PROVE  ToSet(incoming') = {d} /\ incoming' \in Seq(Message) /\ Len(incoming') = 1
    BY <2>2 DEF ToSet
  <2>3. QED
    BY <2>1, <2>2
<1>7. LoopOK'
  <2>1. batch' \in Seq(Message) /\ incoming' \in Seq(Message)
    BY <1>5, <1>6 DEF LoopOK
  <2>2. Len(batch') \in Nat
    BY <2>1
  <2>3. place' \in {"read", "ticker", "full"}
    BY <1>1, <1>5
  <2>4. QED
    BY <1>1, <1>2, <2>1, <2>2, <2>3 DEF LoopOK
<1>8. ToSet(batch) \subseteq Message /\ d \notin ToSet(batch)
  BY <1>1, <1>4, Members DEF InOnePlace, Held
<1>9. InOnePlace' /\ RefusedLines'
  BY <1>1, <1>4, <1>5, <1>6 DEF InOnePlace, RefusedLines, Held
<1>10. Distinct(batch)'
  <2>1. \A i \in DOMAIN batch : batch[i] # d
    BY <1>8 DEF ToSet
  <2>2. QED
    BY <1>5, <1>6, <2>1 DEF Turn, Distinct
<1>11. Turn'
  BY <1>1, <1>2, <1>3, <1>5, <1>6, <1>10 DEF Turn
<1>12. NothingElse' /\ AckIsTrue'
  BY <1>1, <1>2, <1>3 DEF NothingElse, AckIsTrue
<1>13. stored[d] = 0
  BY <1>1 DEF StoredOnce
<1>14. StoredOnce'
  BY <1>1, <1>3, <1>4, <1>5, <1>6, <1>13 DEF StoredOnce
<1>15. StoredSoFar'
  <2>1. \A i \in DOMAIN batch' : i \in Nat \ {0} /\ stored[batch'[i]] = 0
    BY <1>2, <1>4, <1>5, <1>6, <1>13 DEF StoredSoFar
  <2>2. QED
    BY <1>1, <1>2, <1>3, <2>1 DEF StoredSoFar
<1>16. QED
  BY <1>3, <1>7, <1>9, <1>11, <1>12, <1>14, <1>15

\* The checks of the loop, the signal, a publisher that is left behind, the way out.
LEMMA ReceiverLoop ==
  ASSUME ReceiverInv,
         QuietSecond \/ TickerCheck \/ SignalCheck \/ SignalArrives \/ OrphanEnds \/ Depart
  PROVE  ReceiverInv'
<1> USE DEF ReceiverInv
<1>1. /\ UNCHANGED <<coming, attached, incoming, batch, at, discarded, sent, dropped>>
      /\ UNCHANGED <<stage, stored>>
  BY DEF QuietSecond, TickerCheck, SignalCheck, SignalArrives, OrphanEnds, Depart, countVars, orphanVars,
         publisherVars, Close
<1>2. PubInv' /\ wire' \in {wire, <<>>} /\ (attached => attached)
  <2>1. CASE UNCHANGED publisherVars
    BY <2>1, PublisherIdle DEF publisherVars
  <2>2. CASE Close /\ UNCHANGED stage
    BY <2>2, CloseStep DEF Close
  <2>3. QED
    BY <2>1, <2>2 DEF QuietSecond, TickerCheck, SignalCheck, SignalArrives, OrphanEnds, Depart
<1>3. LoopOK' /\ InOnePlace' /\ RefusedLines' /\ StoredOnce'
  <2>1. place' \in {"read", "ticker", "signal", "full", "tick", "stop", "closing", "returned"}
    BY DEF QuietSecond, TickerCheck, SignalCheck, SignalArrives, OrphanEnds, Depart, LoopOK
  <2>2. QED
    BY <1>1, <2>1 DEF LoopOK, InOnePlace, RefusedLines, StoredOnce, Held
<1>4. Len(wire) \in Nat /\ Len(wire') \in Nat /\ Len(answers) \in Nat /\ Len(answers') \in Nat
      /\ Len(confirms) \in Nat /\ Len(wire') <= Len(wire)
  <2>1. wire \in Seq(Message) /\ wire' \in Seq(Message) /\ answers \in Seq(BOOLEAN)
        /\ answers' \in Seq(BOOLEAN) /\ confirms \in Seq(BOOLEAN)
    BY <1>2 DEF PubInv, FlowOK
  <2>2. QED
    BY <1>2, <2>1, Queueing
<1>5. CASE SignalArrives \/ OrphanEnds
  <2>1. UNCHANGED <<place, wire, answers, confirms>>
    BY <1>5 DEF SignalArrives, OrphanEnds, publisherVars
  <2>2. Turn' /\ NothingElse' /\ StoredSoFar' /\ AckIsTrue'
    BY <1>1, <2>1 DEF Turn, Distinct, Flushing, NothingElse, StoredSoFar, AckIsTrue
  <2>3. QED
    BY <1>2, <1>3, <2>2
<1>6. CASE QuietSecond \/ TickerCheck \/ SignalCheck \/ Depart
  <2>1. ~Flushing
    BY <1>6 DEF QuietSecond, TickerCheck, SignalCheck, Depart, Flushing
  <2>2. at = 0 /\ (\A c \in Caller : stage[c] = "out") /\ wire = <<>> /\ Receiver \in Caller
        /\ incoming = <<>>
    BY <2>1, NotFlushing DEF Turn, Flushing
  <2>a. wire' = <<>> /\ incoming' = <<>> /\ at' = 0 /\ stage' = stage
    BY <1>1, <1>2, <2>2
  <2>b. Distinct(batch)'
    BY <1>1 DEF Turn, Distinct
  <2>c. Turn'
    BY <2>2, <2>a, <2>b DEF Turn
  <2>d. stage'[Receiver] = "out"
    BY <2>2, <2>a
  <2>3. AckIsTrue'
    BY <2>d DEF AckIsTrue
  <2>4. StoredSoFar'
    BY <1>1, <2>2 DEF StoredSoFar
  <2>5. NothingElse'
    <3>1. \/ UNCHANGED <<wire, answers, confirms>>
          \/ wire' = <<>> /\ answers' = <<>> /\ confirms' = confirms
      BY <1>6 DEF QuietSecond, TickerCheck, SignalCheck, Depart, publisherVars, Close
    <3>2. QED
      BY <1>1, <1>4, <2>2, <3>1 DEF NothingElse
  <2>6. QED
    BY <1>2, <1>3, <2>c, <2>3, <2>4, <2>5
<1>7. QED
  BY <1>5, <1>6

\* flush returns: its batch is counted, the event in hand becomes the next one.
LEMMA FlushEnd ==
  ASSUME ReceiverInv, PubInv', FlushReturns, Flushing,
         UNCHANGED <<coming, discarded, stored>>,
         wire' = <<>>, attached' \in BOOLEAN,
         attached' => Len(wire') + Len(answers') + Len(confirms') <= 0,
         \A c \in Caller : stage'[c] = "out",
         \/ /\ sent' = sent \cup ToSet(batch) /\ dropped' = dropped
            /\ \A m \in ToSet(batch) : stored[m] = 1
         \/ /\ dropped' = dropped \cup ToSet(batch) /\ sent' = sent
            /\ \A m \in ToSet(batch) : stored[m] <= 1
  PROVE  ReceiverInv'
<1> USE DEF ReceiverInv
<1>1. batch' = incoming /\ incoming' = <<>> /\ at' = 0 /\ place' \in {"ticker", "signal", "closing"}
  BY DEF FlushReturns, Flushing
<1>2. Receiver \in Caller
  BY ReceiverAssumption DEF ReceiverAssumption
<1>3. ToSet(incoming') = {} /\ ToSet(batch') = ToSet(incoming)
  BY <1>1 DEF ToSet
<1>4. batch' \in Seq(Message) /\ incoming' \in Seq(Message) /\ Len(batch') \in Nat
  BY <1>1 DEF LoopOK
<1>5. LoopOK'
  BY <1>1, <1>4 DEF LoopOK
<1>6. ToSet(batch) \subseteq Message
  BY Members DEF LoopOK
<1>7. InOnePlace' /\ RefusedLines'
  BY <1>3, <1>6 DEF InOnePlace, RefusedLines, Held
<1>8. Distinct(batch)'
  <2>1. incoming # <<>> => Len(incoming) = 1
    BY DEF Turn
  <2>2. DOMAIN incoming = 1..Len(incoming)
    BY DEF LoopOK
  <2>3. QED
    BY <1>1, <2>1, <2>2 DEF Distinct
<1>9. Turn'
  BY <1>1, <1>2, <1>8 DEF Turn
<1>10. NothingElse' /\ AckIsTrue'
  <2>1. stage'[Receiver] = "out"
    BY <1>2
  <2>2. QED
    BY <2>1 DEF NothingElse, AckIsTrue
<1>11. StoredOnce'
  BY <1>3 DEF StoredOnce
<1>12. StoredSoFar'
  <2>1. \A i \in DOMAIN batch' : i > 0 /\ stored[batch'[i]] = 0
    <3>1. \A m \in ToSet(incoming) : stored[m] = 0
      BY DEF StoredOnce
    <3>2. \A i \in DOMAIN batch' : i > 0 /\ batch'[i] \in ToSet(incoming)
      BY <1>1, <1>4 DEF ToSet
    <3>3. QED
      BY <3>1, <3>2
  <2>2. DOMAIN batch' \subseteq Nat
    BY <1>4
  <2>3. QED
    BY <1>1, <2>1, <2>2 DEF StoredSoFar
<1>13. QED
  BY <1>5, <1>7, <1>9, <1>10, <1>11, <1>12

\* No item of the batch is in the queue twice.
LEMMA BatchOnce ==
  ASSUME ReceiverInv
  PROVE  \A m \in ToSet(batch) : stored[m] <= 1
<1> USE DEF ReceiverInv
<1> SUFFICES ASSUME NEW m \in ToSet(batch) PROVE stored[m] <= 1
  OBVIOUS
<1>1. PICK i \in DOMAIN batch : m = batch[i]
  BY DEF ToSet
<1>2. m \in Message /\ stored[m] \in Nat /\ i \in Nat /\ at \in Nat /\ Len(wire) \in Nat
  BY <1>1, Queueing DEF LoopOK, PubInv, CountOK, FlowOK
<1>3. stage[Receiver] \in {"out", "enter", "wait", "ok", "error"}
  BY ReceiverAssumption DEF ReceiverAssumption, PubInv, CallersOK
<1>4. QED
  BY <1>1, <1>2, <1>3 DEF StoredSoFar

LEMMA ReceiverFlush ==
  ASSUME ReceiverInv, FlushNothing \/ ConnectFails \/ BatchPublished \/ FlushFails
  PROVE  ReceiverInv'
<1> USE DEF ReceiverInv
<1>1. Receiver \in Caller
  BY ReceiverAssumption DEF ReceiverAssumption
<1>2. FlushReturns /\ UNCHANGED <<coming, discarded, stored>>
  BY DEF FlushNothing, ConnectFails, BatchPublished, FlushFails, countVars, publisherVars, Close
<1>3. CASE FlushNothing \/ ConnectFails \/ BatchPublished
  <2>1. /\ Flushing /\ UNCHANGED publisherVars /\ attached' = attached
        /\ UNCHANGED <<stage, wire, answers, confirms>>
    BY <1>3 DEF FlushNothing, ConnectFails, BatchPublished, publisherVars
  <2>2. PubInv'
    BY <2>1, PublisherIdle
  <2>3. stage[Receiver] = "out"
    <3>1. CASE FlushNothing
      BY <3>1 DEF FlushNothing, LoopOK, Turn
    <3>2. CASE ConnectFails
      BY <3>2 DEF ConnectFails, LoopOK, Turn
    <3>3. CASE BatchPublished
      BY <3>3 DEF BatchPublished, At
    <3>4. QED
      BY <1>3, <3>1, <3>2, <3>3
  <2>4. wire' = <<>> /\ \A c \in Caller : stage'[c] = "out"
    BY <2>1, <2>3 DEF Turn
  <2>5. attached' \in BOOLEAN /\ (attached' => Len(wire') + Len(answers') + Len(confirms') <= 0)
    BY <2>1, <2>3 DEF LoopOK, NothingElse
  <2>6. \/ /\ sent' = sent \cup ToSet(batch) /\ dropped' = dropped
           /\ \A m \in ToSet(batch) : stored[m] = 1
        \/ /\ dropped' = dropped \cup ToSet(batch) /\ sent' = sent
           /\ \A m \in ToSet(batch) : stored[m] <= 1
    <3>1. CASE FlushNothing
      <4>1. ToSet(batch) = {}
        BY <3>1 DEF FlushNothing, ToSet
      <4>2. QED
        BY <3>1, <4>1 DEF FlushNothing, countVars
    <3>2. CASE ConnectFails
      BY <3>2, BatchOnce DEF ConnectFails
    <3>3. CASE BatchPublished
      <4>1. at = Len(batch) /\ DOMAIN batch = 1..Len(batch) /\ Len(batch) \in Nat
        BY <3>3 DEF BatchPublished, LoopOK
      <4>2. \A i \in DOMAIN batch : stored[batch[i]] = 1
        BY <2>3, <4>1 DEF StoredSoFar
      <4>3. QED
        BY <3>3, <4>2 DEF BatchPublished, ToSet
    <3>4. QED
      BY <1>3, <3>1, <3>2, <3>3
  <2>7. QED
    BY <1>2, <2>1, <2>2, <2>4, <2>5, <2>6, FlushEnd
<1>4. CASE FlushFails
  <2>1. /\ stage[Receiver] = "error" /\ stage' = [stage EXCEPT ![Receiver] = "out"]
        /\ Close /\ attached' = FALSE /\ dropped' = dropped \cup ToSet(batch) /\ sent' = sent
    BY <1>4 DEF FlushFails, At, Goto
  <2>2. Flushing
    BY <2>1 DEF Turn
  <2>3. PubInv'
    BY <1>1, <2>1, CloseStep
  <2>4. wire' = <<>> /\ attached' \in BOOLEAN /\ ~attached'
    BY <2>1 DEF Close
  <2>5. \A c \in Caller : stage'[c] = "out"
    BY <1>1, <2>1 DEF Turn, PubInv, CallersOK
  <2>6. QED
    BY <1>2, <2>1, <2>2, <2>3, <2>4, <2>5, BatchOnce, FlushEnd
<1>5. QED
  BY <1>3, <1>4

LEMMA FreshStep ==
  ASSUME PubInv, FreshPublisher, UNCHANGED <<stage, stored, losses, rejects>>,
         \A c \in Caller : stage[c] # "wait"
  PROVE  PubInv'
<1> USE DEF PubInv
<1>1. StateOK' /\ FirstLoss' /\ DeadIsQuiet'
  BY PublisherAssumption DEF PublisherAssumption, FreshPublisher, StateOK, FirstLoss, DeadIsQuiet, Free, Dialer
<1>2. CallersOK' /\ OneWaits'
  BY PublisherAssumption DEF PublisherAssumption, FreshPublisher, CallersOK, OneWaits, At
<1>3. FlowOK'
  BY DEF FreshPublisher, FlowOK
<1>4. CountOK' /\ NoTimeoutYet'
  BY PublisherAssumption DEF PublisherAssumption, FreshPublisher, CountOK, NoTimeoutYet
<1>5. FlagOK'
  BY Zenon DEF FreshPublisher, FlagOK
<1>6. Lag'
  <2>1. /\ wire' = <<>> /\ answers' = <<>> /\ confirms' = <<>> /\ epoch' = 1 /\ holder' = Free
        /\ timeouts' = [e \in DOMAIN timeouts |-> 0]
    BY DEF FreshPublisher
  <2>2. timeouts'[epoch'] = 0 /\ holder' \notin Caller
    BY <2>1, PublisherAssumption DEF PublisherAssumption, CountOK
  <2>3. Len(wire') = 0 /\ Len(answers') = 0 /\ Len(confirms') = 0
    BY <2>1
  <2>4. QED
    BY <2>2, <2>3 DEF Lag
<1>7. QED
  BY <1>1, <1>2, <1>3, <1>4, <1>5, <1>6

LEMMA ReceiverConnects ==
  ASSUME ReceiverInv, ConnectSucceeds
  PROVE  ReceiverInv'
<1> USE DEF ReceiverInv
<1>1. /\ ~attached /\ FreshPublisher /\ UNCHANGED <<stage, stored, losses, rejects>>
      /\ UNCHANGED <<coming, place, incoming, batch, at, discarded, sent, dropped>>
      /\ attached' = TRUE
  BY DEF ConnectSucceeds, countVars
<1>2. at = 0 /\ (\A c \in Caller : stage[c] = "out") /\ Receiver \in Caller
  BY <1>1, ReceiverAssumption DEF ReceiverAssumption, LoopOK, Turn
<1>3. PubInv'
  BY <1>1, <1>2, FreshStep
<1>4. LoopOK' /\ InOnePlace' /\ RefusedLines' /\ StoredOnce'
  <2>1. attached' \in BOOLEAN
    BY <1>1, Zenon
  <2>2. QED
    BY <1>1, <2>1 DEF LoopOK, InOnePlace, RefusedLines, StoredOnce, Held
<1>5. wire' = <<>> /\ answers' = <<>> /\ confirms' = <<>>
  BY <1>1 DEF FreshPublisher
<1>6. stage'[Receiver] = "out" /\ at' = 0 /\ \A c \in Caller : stage'[c] = "out"
  BY <1>1, <1>2
<1>7. Turn'
  <2>1. Distinct(batch)' /\ (incoming' # <<>> => place' = "full" /\ Len(incoming') = 1)
    BY <1>1 DEF Turn, Distinct
  <2>2. QED
    BY <1>5, <1>6, <2>1 DEF Turn
<1>8. NothingElse' /\ AckIsTrue'
  <2>1. Len(wire') + Len(answers') + Len(confirms') = 0
    BY <1>5
  <2>2. QED
    BY <1>6, <2>1 DEF NothingElse, AckIsTrue
<1>9. StoredSoFar'
  BY <1>1, <1>2 DEF StoredSoFar
<1>10. QED
  BY <1>3, <1>4, <1>7, <1>8, <1>9

\* Between two publishes of a batch: everything behind `at` is stored.
LEMMA ReceiverMove ==
  ASSUME ReceiverInv, PublishItem \/ ItemDone
  PROVE  ReceiverInv'
<1> USE DEF ReceiverInv
<1>1. /\ UNCHANGED <<channel, epoch, wire, answers, confirms, connected, handler, attempt, holder,
                     stored, losses, rejects, timeouts>>
      /\ UNCHANGED <<coming, attached, place, incoming, batch, discarded, sent, dropped>>
      /\ stage[Receiver] \in {"out", "ok"}
  BY DEF PublishItem, EnterPublish, ItemDone, receiverVars, countVars, At
<1>2. PICK p \in {"out", "enter"} : Goto(Receiver, p)
  BY DEF PublishItem, EnterPublish, ItemDone
<1>3. Receiver \in Caller /\ stage' = [stage EXCEPT ![Receiver] = p]
      /\ stage \in [Caller -> {"out", "enter", "wait", "ok", "error"}]
  BY <1>2, ReceiverAssumption DEF ReceiverAssumption, Goto, PubInv, CallersOK
<1>4. PubInv'
  BY <1>1, <1>3, MoveStep DEF Goto
<1>5. \/ /\ stage[Receiver] = "out" /\ stage'[Receiver] = "enter" /\ at' = at + 1
         /\ at < Len(batch) /\ Flushing /\ attached
      \/ /\ stage[Receiver] = "ok" /\ stage'[Receiver] = "out" /\ at' = at
  BY <1>3 DEF PublishItem, EnterPublish, ItemDone, receiverVars, At, Goto
<1>6. LoopOK' /\ InOnePlace' /\ RefusedLines' /\ StoredOnce'
  <2>1. Len(batch) \in Nat
    BY DEF LoopOK
  <2>2. LoopOK'
    BY <1>1, <1>5, <2>1 DEF LoopOK
  <2>3. QED
    BY <1>1, <2>2 DEF InOnePlace, RefusedLines, StoredOnce, Held
<1>7. wire = <<>>
  BY <1>1 DEF Turn
<1>8. Turn'
  <2>1. Distinct(batch)' /\ (incoming' # <<>> => place' = "full" /\ Len(incoming') = 1)
    BY <1>1 DEF Turn, Distinct
  <2>2. /\ at' > 0 => Flushing' /\ attached'
        /\ stage'[Receiver] # "out" => at' > 0
    BY <1>1, <1>5 DEF Turn, Flushing, LoopOK
  <2>3. \A c \in Caller : c # Receiver => stage'[c] = "out"
    BY <1>3 DEF Turn
  <2>4. QED
    BY <1>1, <1>7, <2>1, <2>2, <2>3 DEF Turn
<1>9. NothingElse'
  BY <1>1, <1>5 DEF NothingElse
<1>10. AckIsTrue'
  BY <1>5 DEF AckIsTrue
<1>11. StoredSoFar'
  <2>1. DOMAIN batch = 1..Len(batch) /\ Len(batch) \in Nat /\ at \in Nat
    BY DEF LoopOK
  <2>2. QED
    BY <1>1, <1>5, <2>1 DEF StoredSoFar
<1>12. QED
  BY <1>4, <1>6, <1>8, <1>9, <1>10, <1>11

\* Publish: nil is returned only for a confirm of the item just sent.
LEMMA ReceiverPublish ==
  ASSUME ReceiverInv, InPublish
  PROVE  ReceiverInv'
<1> USE DEF ReceiverInv
<1>1. /\ UNCHANGED <<coming, attached, place, incoming, batch, at, discarded, sent, dropped>>
      /\ UNCHANGED <<answers, stored>>
      /\ Receiver \in Caller /\ stage[Receiver] \in {"enter", "wait"}
  BY ReceiverAssumption
     DEF ReceiverAssumption, InPublish, receiverVars, PublishFails, PublishSends, ReadConfirm, ConfirmTimeout, At
<1>2. /\ at > 0 /\ at \in DOMAIN batch /\ batch[at] \in Message /\ Flushing /\ attached
      /\ DOMAIN batch = 1..Len(batch) /\ Len(batch) \in Nat /\ at \in Nat
  BY <1>1 DEF Turn, LoopOK
<1>3. PICK p \in {"wait", "ok", "error"} : stage' = [stage EXCEPT ![Receiver] = p]
  BY DEF InPublish, PublishFails, PublishSends, ReadConfirm, ConfirmTimeout, Goto
<1>4. stage'[Receiver] = p /\ \A c \in Caller : c # Receiver => stage'[c] = "out"
  BY <1>1, <1>3 DEF PubInv, CallersOK, Turn
<1>5. PubInv'
  <2>1. CASE PublishFails(Receiver)
    BY <1>1, <2>1, MoveStep DEF PublishFails, At
  <2>2. CASE PublishSends(Receiver, batch[at])
    BY <1>1, <1>2, <2>2, SendStep
  <2>3. CASE ReadConfirm(Receiver) \/ ConfirmTimeout(Receiver)
    BY <1>1, <2>3, AnswerStep
  <2>4. QED
    BY <2>1, <2>2, <2>3 DEF InPublish
<1>6. LoopOK' /\ InOnePlace' /\ RefusedLines' /\ StoredOnce'
  BY <1>1 DEF LoopOK, InOnePlace, RefusedLines, StoredOnce, Held
<1>7. wire \in Seq(Message) /\ answers \in Seq(BOOLEAN) /\ confirms \in Seq(BOOLEAN)
      /\ Len(wire) \in Nat /\ Len(answers) \in Nat /\ Len(confirms) \in Nat
      /\ stored[batch[at]] \in Nat
  BY <1>2, Queueing DEF PubInv, FlowOK, CountOK
<1>8. Distinct(batch)' /\ (incoming' # <<>> => place' = "full" /\ Len(incoming') = 1)
  BY <1>1 DEF Turn, Distinct
<1>9. \A i \in DOMAIN batch : i # at =>
        (i < at => stored'[batch'[i]] = 1) /\ (i > at => stored'[batch'[i]] = 0)
  BY <1>1 DEF StoredSoFar
\* What is left to show is about the item at hand alone.
<1>10. SUFFICES /\ wire' # <<>> => p \in {"wait", "error"} /\ wire' = <<batch[at]>>
                /\ p # "error" => Len(wire') + Len(answers') + Len(confirms') <= (IF p = "wait" THEN 1 ELSE 0)
                /\ p = "ok" => stored[batch[at]] = 1
                /\ p \in {"wait", "error"} => stored[batch[at]] + Len(wire') <= 1
                /\ p = "wait" /\ TRUE \in ToSet(answers') \cup ToSet(confirms') => stored[batch[at]] = 1
  <2>1. Turn'
    BY <1>1, <1>2, <1>4, <1>8, <1>10 DEF Turn, Flushing
  <2>2. NothingElse'
    BY <1>4, <1>10 DEF NothingElse
  <2>3. StoredSoFar'
    BY <1>1, <1>2, <1>4, <1>9, <1>10 DEF StoredSoFar
  <2>4. AckIsTrue'
    BY <1>1, <1>4, <1>10 DEF AckIsTrue
  <2>5. QED
    BY <1>5, <1>6, <2>1, <2>2, <2>3, <2>4
<1>11. CASE PublishFails(Receiver)
  <2>1. stage[Receiver] = "enter" /\ p = "error" /\ wire' = wire
    BY <1>1, <1>4, <1>11 DEF PublishFails, At, Goto, PubInv, CallersOK
  <2>2. wire = <<>> /\ stored[batch[at]] = 0
    BY <1>2, <2>1 DEF Turn, StoredSoFar
  <2>3. QED
    BY <2>1, <2>2
<1>12. CASE PublishSends(Receiver, batch[at])
  <2>1. stage[Receiver] = "enter" /\ p = "wait" /\ wire' = Append(wire, batch[at]) /\ confirms' = confirms
    BY <1>1, <1>4, <1>12 DEF PublishSends, At, Goto, PubInv, CallersOK
  <2>2. wire = <<>> /\ stored[batch[at]] = 0
    BY <1>2, <2>1 DEF Turn, StoredSoFar
  <2>3. Len(wire) + Len(answers) + Len(confirms) <= 0
    BY <1>2, <2>1 DEF NothingElse
  <2>4. wire' = <<batch[at]>> /\ Len(wire') = 1
    BY <2>1, <2>2
  <2>5. answers = <<>> /\ confirms = <<>> /\ Len(answers) = 0 /\ Len(confirms) = 0
    <3>1. Len(answers) = 0 /\ Len(confirms) = 0
      BY <1>7, <2>3
    <3>2. QED
      BY <1>7, <3>1, Queueing
  <2>6. ToSet(answers) = {} /\ ToSet(confirms) = {}
    BY <1>7, <2>5, Members
  <2>7. Len(answers') = 0 /\ Len(confirms') = 0 /\ ToSet(answers') = {} /\ ToSet(confirms') = {}
    BY <1>1, <2>1, <2>5, <2>6
  <2>8. QED
    BY <2>1, <2>2, <2>4, <2>7
<1>13. CASE ConfirmTimeout(Receiver)
  <2>1. stage[Receiver] = "wait" /\ p = "error" /\ wire' = wire
    BY <1>1, <1>4, <1>13 DEF ConfirmTimeout, At, Goto, PubInv, CallersOK
  <2>2. (wire # <<>> => wire = <<batch[at]>>) /\ stored[batch[at]] + Len(wire) <= 1
    BY <1>2, <2>1 DEF Turn, StoredSoFar
  <2>3. QED
    BY <2>1, <2>2
<1>14. CASE ReadConfirm(Receiver)
  <2>1. /\ stage[Receiver] = "wait" /\ wire' = wire /\ p \in {"ok", "error"}
        /\ stage' = [stage EXCEPT ![Receiver] = IF confirms # <<>> /\ Head(confirms) THEN "ok" ELSE "error"]
        /\ confirms # <<>> => confirms' = Tail(confirms)
    BY <1>1, <1>4, <1>14 DEF ReadConfirm, At, Goto, PubInv, CallersOK
  <2>2. (wire # <<>> => wire = <<batch[at]>>) /\ stored[batch[at]] + Len(wire) <= 1
    BY <1>2, <2>1 DEF Turn, StoredSoFar
  <2>3. ASSUME p = "ok"
        PROVE  wire' = <<>> /\ stored[batch[at]] = 1
               /\ Len(wire') + Len(answers') + Len(confirms') <= 0
    <3>1. confirms # <<>> /\ Head(confirms)
      BY <1>1, <1>4, <2>1, <2>3 DEF PubInv, CallersOK
    <3>2. Head(confirms) \in ToSet(confirms) /\ Head(confirms) \in BOOLEAN
      BY <1>7, <3>1, Members
    <3>3. TRUE \in ToSet(confirms)
      BY <3>1, <3>2
    <3>4. stored[batch[at]] = 1
      BY <2>1, <3>3 DEF AckIsTrue
    <3>5. Len(wire) + Len(answers) + Len(confirms) <= 1
      BY <1>2, <2>1 DEF NothingElse
    <3>6. Len(confirms') = Len(confirms) - 1 /\ Len(confirms) > 0
      <4>1. confirms # <<>>
        BY <3>1
      <4>2. confirms' = Tail(confirms)
        BY <2>1, <4>1
      <4>3. Len(Tail(confirms)) = Len(confirms) - 1 /\ Len(confirms) # 0
        BY <1>7, <4>1, Queueing
      <4>4. QED
        BY <1>7, <4>2, <4>3
    <3>7. Len(wire) = 0
      BY <1>7, <3>5, <3>6
    <3>8. wire = <<>>
      BY <1>7, <3>7, Queueing
    <3>9. wire' = wire /\ answers' = answers
      BY <1>1, <2>1
    <3>10. Len(wire') + Len(answers') + Len(confirms') <= 0
      BY <1>7, <3>5, <3>6, <3>9
    <3>11. QED
      BY <3>4, <3>8, <3>9, <3>10
  <2>4. QED
    BY <2>1, <2>2, <2>3
<1>15. QED
  BY <1>11, <1>12, <1>13, <1>14 DEF InPublish

LEMMA ReceiverStep ==
  ReceiverInv /\ [ReceiverNext]_<<publisherVars, receiverVars>> => ReceiverInv'
<1> SUFFICES ASSUME ReceiverInv, [ReceiverNext]_<<publisherVars, receiverVars>> PROVE ReceiverInv'
  OBVIOUS
<1>1. CASE UNCHANGED <<publisherVars, receiverVars>>
  <2>1. PubInv'
    BY <1>1, PublisherIdle DEF ReceiverInv
  <2>2. QED
    BY <1>1, <2>1
       DEF publisherVars, receiverVars, ReceiverInv, LoopOK, InOnePlace, RefusedLines, Turn, NothingElse,
           StoredOnce, StoredSoFar, AckIsTrue, Held, Distinct, Flushing
<1>2. CASE ReceiverNext
  <2>1. CASE Listen
    BY <2>1, ReceiverRead, ReceiverLoop DEF Listen
  <2>2. CASE Work
    BY <2>2, ReceiverLoop, ReceiverFlush, ReceiverConnects, ReceiverMove, ReceiverPublish DEF Work
  <2>3. CASE Dial
    BY <2>3, ReceiverDial DEF Dial
  <2>4. CASE SignalArrives \/ OrphanEnds
    BY <2>4, ReceiverLoop
  <2>5. CASE Broker /\ UNCHANGED receiverVars
    BY <2>5, ReceiverBroker
  <2>6. QED
    BY <1>2, <2>1, <2>2, <2>3, <2>4, <2>5 DEF ReceiverNext
<1>3. QED
  BY <1>1, <1>2

\* The totals the syslog receiver logs are true for any number of datagrams, any batch
\* size and any number of lost channels: what it counts as sent is in the queue exactly
\* once, nothing is there twice, and every datagram is in exactly one place.
THEOREM TotalsAreTrue == ReceiverSpec => []CountsTellTheTruth
<1>1. ReceiverInit /\ died = FALSE => ReceiverInv
  BY ReceiverMade
<1>2. QED
  BY <1>1, ReceiverStep, ReceiverFacts, PTL DEF ReceiverSpec

----------------------------------------------------------------------------
(***************************************************************************)
(* The Python receiver.  That sent_total never exceeds what was published  *)
(* depends on the first of two attempts: it may put the batch in RabbitMQ  *)
(* and still raise, before anything is counted.  So what is counted is     *)
(* compared with what is published and not in hand (SentCounted).          *)
(***************************************************************************)
SophosSpec == SophosInit /\ [][SophosNext]_sophosVars

SophosOK ==
  /\ fifo \in Seq(LogLine) /\ pyBatch \in Seq(LogLine)
  /\ ahead \subseteq LogLine
  /\ sent_total \in Nat /\ drop_total \in Nat

FinitelyMany ==
  /\ IsFiniteSet(inQueue) /\ IsFiniteSet(vanished) /\ IsFiniteSet(refused)
  /\ IsFiniteSet(ToSet(pyBatch))

Reached ==
  ToSet(fifo) \cup ToSet(pyBatch) \cup inQueue \cup refused \cup failed \cup vanished \cup leftBehind

EachOnce ==
  /\ LogLine \ ahead = Reached
  /\ ahead \cap Reached = {}
  /\ Distinct(fifo)
  /\ ToSet(fifo) \cap (ToSet(pyBatch) \cup inQueue \cup vanished) = {}
  /\ Cardinality(ToSet(pyBatch)) = Len(pyBatch)

DropsCounted == drop_total = Cardinality(refused)

SentCounted == sent_total <= Cardinality((inQueue \cup vanished) \ ToSet(pyBatch))

SophosInv ==
  /\ SophosOK /\ FinitelyMany /\ EachOnce /\ DropsCounted /\ SentCounted
  /\ leftBehind # {} => stopping /\ exited

\* Taking from, and adding to, a queue whose members all differ.
LEMMA DistinctQueue ==
  ASSUME NEW S, NEW q \in Seq(S), Distinct(q)
  PROVE  /\ q # <<>> => /\ Head(q) \notin ToSet(Tail(q)) /\ Distinct(Tail(q))
                        /\ ToSet(q) = {Head(q)} \cup ToSet(Tail(q))
         /\ \A x \in S : x \notin ToSet(q) => Distinct(Append(q, x))
<1>1. ASSUME q # <<>>
      PROVE  /\ Head(q) \notin ToSet(Tail(q)) /\ Distinct(Tail(q))
             /\ ToSet(q) = {Head(q)} \cup ToSet(Tail(q))
  <2>1. /\ DOMAIN q = 1..Len(q) /\ Len(q) \in Nat \ {0} /\ Head(q) = q[1]
        /\ DOMAIN Tail(q) = 1..(Len(q) - 1)
        /\ \A i \in 1..(Len(q) - 1) : Tail(q)[i] = q[i + 1]
    BY <1>1
  <2>2. Head(q) \notin ToSet(Tail(q)) /\ Distinct(Tail(q))
    BY <2>1 DEF ToSet, Distinct
  <2>3. ASSUME NEW x \in ToSet(q) PROVE x = Head(q) \/ x \in ToSet(Tail(q))
    <3>1. PICK i \in 1..Len(q) : x = q[i]
      BY <2>1 DEF ToSet
    <3>2. i = 1 \/ (i - 1 \in 1..(Len(q) - 1) /\ Tail(q)[i - 1] = x)
      BY <2>1, <3>1
    <3>3. QED
      BY <2>1, <3>1, <3>2 DEF ToSet
  <2>4. QED
    BY <1>1, <2>2, <2>3, Members
<1>2. ASSUME NEW x \in S, x \notin ToSet(q) PROVE Distinct(Append(q, x))
  <2>1. /\ DOMAIN q = 1..Len(q) /\ DOMAIN Append(q, x) = 1..(Len(q) + 1) /\ Len(q) \in Nat
        /\ \A i \in 1..Len(q) : Append(q, x)[i] = q[i]
        /\ Append(q, x)[Len(q) + 1] = x
    OBVIOUS
  <2>2. \A i \in 1..Len(q) : q[i] # x
    BY <1>2, <2>1 DEF ToSet
  <2>3. QED
    BY <2>1, <2>2 DEF Distinct
<1>3. QED
  BY <1>1, <1>2

LEMMA SophosFacts == SophosInv => SophosLossHasCause
<1> SUFFICES ASSUME SophosInv PROVE SophosLossHasCause
  OBVIOUS
<1>1. sent_total <= Cardinality(inQueue \cup vanished)
  <2>1. IsFiniteSet(inQueue \cup vanished)
    BY FS_Union DEF SophosInv, FinitelyMany
  <2>2. (inQueue \cup vanished) \ ToSet(pyBatch) \in SUBSET (inQueue \cup vanished)
    OBVIOUS
  <2>3. /\ Cardinality((inQueue \cup vanished) \ ToSet(pyBatch)) <= Cardinality(inQueue \cup vanished)
        /\ IsFiniteSet((inQueue \cup vanished) \ ToSet(pyBatch))
    BY <2>1, <2>2, FS_Subset
  <2>4. /\ Cardinality((inQueue \cup vanished) \ ToSet(pyBatch)) \in Nat
        /\ Cardinality(inQueue \cup vanished) \in Nat
    BY <2>1, <2>3, FS_CardinalityType
  <2>5. QED
    BY <2>3, <2>4 DEF SophosInv, SophosOK, SentCounted
<1>2. QED
  BY <1>1 DEF SophosInv, EachOnce, Reached, DropsCounted, SophosLossHasCause

LEMMA SophosMade == SophosInit => SophosInv
<1> SUFFICES ASSUME SophosInit PROVE SophosInv
  OBVIOUS
<1>1. ToSet(fifo) = {} /\ ToSet(pyBatch) = {} /\ Len(pyBatch) = 0
  BY DEF SophosInit, ToSet
<1>2. IsFiniteSet({}) /\ Cardinality({}) = 0
  BY FS_EmptySet
<1>3. (inQueue \cup vanished) \ ToSet(pyBatch) = {}
  BY DEF SophosInit
<1>4. SophosOK /\ FinitelyMany /\ DropsCounted /\ SentCounted
  <2>1. SophosOK
    BY DEF SophosInit, SophosOK
  <2>2. FinitelyMany /\ DropsCounted
    BY <1>1, <1>2 DEF SophosInit, FinitelyMany, DropsCounted
  <2>3. sent_total = 0 /\ Cardinality((inQueue \cup vanished) \ ToSet(pyBatch)) = 0
    BY <1>2, <1>3 DEF SophosInit
  <2>4. QED
    BY <2>1, <2>2, <2>3 DEF SentCounted
<1>5. EachOnce
  BY <1>1, <1>2 DEF SophosInit, EachOnce, Reached, Distinct
<1>6. QED
  BY <1>4, <1>5 DEF SophosInit, SophosInv

\* main() puts an event into the queue, or counts it as dropped.
LEMMA SophosEnqueue ==
  ASSUME SophosInv, NEW e \in LogLine, enqueue(e)
  PROVE  SophosInv'
<1> USE DEF SophosInv
<1>1. /\ e \in ahead /\ ahead' = ahead \ {e}
      /\ UNCHANGED <<pyBatch, stopping, exited, sent_total, inQueue, failed, vanished, leftBehind>>
      /\ \/ fifo' = Append(fifo, e) /\ UNCHANGED <<drop_total, refused>>
         \/ drop_total' = drop_total + 1 /\ refused' = refused \cup {e} /\ fifo' = fifo
  BY DEF enqueue
<1>2. e \notin ToSet(fifo) /\ e \notin refused
      /\ e \notin ToSet(pyBatch) \cup inQueue \cup failed \cup vanished \cup leftBehind
  BY <1>1 DEF EachOnce, Reached
<1>3. SentCounted'
  BY <1>1 DEF SentCounted
<1>4. CASE fifo' = Append(fifo, e) /\ UNCHANGED <<drop_total, refused>>
  <2>1. ToSet(fifo') = ToSet(fifo) \cup {e} /\ fifo' \in Seq(LogLine) /\ Distinct(fifo')
    BY <1>2, <1>4, Members, DistinctQueue DEF SophosOK, EachOnce
  <2>2. SophosOK' /\ FinitelyMany' /\ DropsCounted'
    BY <1>1, <1>4, <2>1 DEF SophosOK, FinitelyMany, DropsCounted
  <2>3. Reached' = Reached \cup {e}
    BY <1>1, <1>4, <2>1 DEF Reached
  <2>4. EachOnce'
    <3>1. Distinct(fifo)'
      BY <2>1 DEF Distinct
    <3>2. QED
      BY <1>1, <1>2, <2>1, <2>3, <3>1 DEF EachOnce
  <2>5. QED
    BY <1>1, <1>3, <2>2, <2>4
<1>5. CASE drop_total' = drop_total + 1 /\ refused' = refused \cup {e} /\ fifo' = fifo
  <2>1. IsFiniteSet(refused') /\ Cardinality(refused') = Cardinality(refused) + 1
    BY <1>2, <1>5, FS_AddElement DEF FinitelyMany
  <2>2. SophosOK' /\ FinitelyMany' /\ DropsCounted'
    BY <1>1, <1>5, <2>1 DEF SophosOK, FinitelyMany, DropsCounted
  <2>3. Reached' = Reached \cup {e}
    BY <1>1, <1>5 DEF Reached
  <2>4. EachOnce'
    BY <1>1, <1>5, <2>3 DEF EachOnce, Distinct
  <2>5. QED
    BY <1>1, <1>3, <2>2, <2>4
<1>6. QED
  BY <1>1, <1>4, <1>5

\* The thread takes an event: it is in hand, and published only later.
LEMMA SophosTake ==
  ASSUME SophosInv, TakeEvent \/ LeaveLoop \/ Interrupt
  PROVE  SophosInv'
<1> USE DEF SophosInv
<1>1. /\ UNCHANGED <<ahead, sent_total, drop_total, inQueue, refused, failed, vanished, leftBehind>>
      /\ \/ fifo # <<>> /\ fifo' = Tail(fifo) /\ pyBatch' = Append(pyBatch, Head(fifo))
         \/ UNCHANGED <<fifo, pyBatch>>
      /\ stopping => stopping'
      /\ exited' = exited
  BY DEF TakeEvent, LeaveLoop, Interrupt
<1>2. DropsCounted' /\ (leftBehind' # {} => stopping' /\ exited')
  BY <1>1 DEF DropsCounted
<1>3. CASE UNCHANGED <<fifo, pyBatch>>
  <2>1. SophosOK' /\ FinitelyMany' /\ EachOnce' /\ SentCounted'
    BY <1>1, <1>3 DEF SophosOK, FinitelyMany, EachOnce, Reached, Distinct, SentCounted
  <2>2. QED
    BY <1>2, <2>1
<1>4. CASE fifo # <<>> /\ fifo' = Tail(fifo) /\ pyBatch' = Append(pyBatch, Head(fifo))
  <2>1. fifo \in Seq(LogLine) /\ pyBatch \in Seq(LogLine) /\ Distinct(fifo)
    BY DEF SophosOK, EachOnce
  <2>2. /\ Head(fifo) \in LogLine /\ fifo' \in Seq(LogLine)
        /\ Head(fifo) \notin ToSet(fifo') /\ Distinct(fifo')
        /\ ToSet(fifo) = {Head(fifo)} \cup ToSet(fifo')
    BY <1>4, <2>1, Queueing, DistinctQueue
  <2>3. /\ pyBatch' \in Seq(LogLine) /\ Len(pyBatch') = Len(pyBatch) + 1
        /\ ToSet(pyBatch') = ToSet(pyBatch) \cup {Head(fifo)}
    BY <1>4, <2>1, <2>2, Queueing, Members
  <2>4. Head(fifo) \notin ToSet(pyBatch) \cup inQueue \cup vanished
    BY <2>2 DEF EachOnce
  <2>5. IsFiniteSet(ToSet(pyBatch')) /\ Cardinality(ToSet(pyBatch')) = Cardinality(ToSet(pyBatch)) + 1
    BY <2>3, <2>4, FS_AddElement DEF FinitelyMany
  <2>6. SophosOK' /\ FinitelyMany'
    BY <1>1, <2>2, <2>3, <2>5 DEF SophosOK, FinitelyMany
  <2>7. Reached' = Reached
    BY <1>1, <2>2, <2>3 DEF Reached
  <2>8. EachOnce'
    <3>1. Distinct(fifo)'
      BY <2>2 DEF Distinct
    <3>2. QED
      BY <1>1, <2>2, <2>3, <2>4, <2>5, <2>7, <3>1 DEF EachOnce
  <2>9. (inQueue \cup vanished)' \ ToSet(pyBatch') = (inQueue \cup vanished) \ ToSet(pyBatch)
    BY <1>1, <2>3, <2>4
  <2>10. SentCounted'
    BY <1>1, <2>9 DEF SentCounted
  <2>11. QED
    BY <1>2, <2>6, <2>8, <2>10
<1>5. QED
  BY <1>1, <1>3, <1>4

\* What is published, or was put into a dying connection, only grows; the batch in hand
\* is left out of what is counted until publish() returns.
LEMMA SophosPublish ==
  ASSUME SophosInv,
         BasicPublish \/ FirstAttemptRaises \/ SecondAttemptRaises \/ ProcessEnds
  PROVE  SophosInv'
<1> USE DEF SophosInv
<1> DEFINE out == inQueue \cup vanished
           inHand == ToSet(pyBatch)
<1>1. /\ UNCHANGED <<ahead, drop_total, refused>>
      /\ fifo' \in {fifo, <<>>} /\ pyBatch' \in {pyBatch, <<>>} /\ stopping' = stopping
  BY DEF BasicPublish, FirstAttemptRaises, SecondAttemptRaises, ProcessEnds, PublishReturns
<1>2. /\ out \subseteq out' /\ out' \subseteq out \cup inHand
      /\ inQueue' \subseteq inQueue \cup inHand /\ vanished' \subseteq vanished \cup inHand
  BY DEF BasicPublish, FirstAttemptRaises, SecondAttemptRaises, ProcessEnds
<1>3. /\ sent_total' = sent_total \/ (sent_total' = sent_total + Len(pyBatch) /\ BasicPublish)
      /\ leftBehind' # {} => stopping' /\ exited'
  BY DEF BasicPublish, FirstAttemptRaises, SecondAttemptRaises, ProcessEnds
<1>4. pyBatch \in Seq(LogLine) /\ fifo \in Seq(LogLine) /\ pyBatch' \in Seq(LogLine) /\ fifo' \in Seq(LogLine)
      /\ Len(pyBatch) \in Nat
  <2>1. pyBatch \in Seq(LogLine) /\ fifo \in Seq(LogLine) /\ <<>> \in Seq(LogLine)
    BY DEF SophosOK
  <2>2. pyBatch' \in Seq(LogLine) /\ fifo' \in Seq(LogLine)
    BY <1>1, <2>1, Zenon
  <2>3. QED
    BY <2>1, <2>2
<1>5. /\ pyBatch' = <<>> => ToSet(pyBatch') = {} /\ Len(pyBatch') = 0
      /\ fifo' = <<>> => ToSet(fifo') = {}
  BY <1>4, Members
<1>6. /\ IsFiniteSet(inQueue') /\ IsFiniteSet(vanished')
      /\ IsFiniteSet(out) /\ IsFiniteSet(inHand) /\ IsFiniteSet(out')
  <2>1. IsFiniteSet(inQueue \cup inHand) /\ IsFiniteSet(vanished \cup inHand)
    BY FS_Union DEF FinitelyMany
  <2>2. inQueue' \in SUBSET (inQueue \cup inHand) /\ vanished' \in SUBSET (vanished \cup inHand)
    BY <1>2
  <2>3. IsFiniteSet(inQueue') /\ IsFiniteSet(vanished')
    BY <2>1, <2>2, FS_Subset
  <2>4. QED
    BY <2>3, FS_Union DEF FinitelyMany
<1>7. SophosOK' /\ DropsCounted'
  BY <1>1, <1>3, <1>4 DEF SophosOK, DropsCounted
<1>8. FinitelyMany'
  <2>1. IsFiniteSet(ToSet(pyBatch'))
    BY <1>1, <1>5, FS_EmptySet DEF FinitelyMany
  <2>2. QED
    BY <1>1, <1>6, <2>1 DEF FinitelyMany
<1>9. EachOnce'
  <2>1. Reached' = Reached
    <3>1. CASE BasicPublish
      <4>1. pyBatch' = <<>> /\ fifo' = fifo /\ out' = out \cup inHand
            /\ UNCHANGED <<failed, leftBehind>>
        BY <3>1 DEF BasicPublish, PublishReturns
      <4>2. QED
        BY <1>1, <1>5, <4>1 DEF Reached
    <3>2. CASE FirstAttemptRaises
      <4>1. UNCHANGED <<fifo, pyBatch, failed, vanished, leftBehind>>
        BY <3>2 DEF FirstAttemptRaises
      <4>2. QED
        BY <1>1, <1>2, <4>1 DEF Reached
    <3>3. CASE SecondAttemptRaises
      <4>1. pyBatch' = <<>> /\ failed' = failed \cup inHand
            /\ UNCHANGED <<fifo, inQueue, vanished, leftBehind>>
        BY <3>3 DEF SecondAttemptRaises, PublishReturns
      <4>2. QED
        BY <1>1, <1>5, <4>1 DEF Reached
    <3>4. CASE ProcessEnds
      <4>1. /\ pyBatch' = <<>> /\ fifo' = <<>> /\ leftBehind' = ToSet(fifo) \cup inHand
            /\ UNCHANGED <<failed, inQueue, vanished>>
        BY <3>4 DEF ProcessEnds
      <4>2. leftBehind = {}
        BY <3>4 DEF ProcessEnds
      <4>3. QED
        BY <1>1, <1>5, <4>1, <4>2 DEF Reached
    <3>5. QED
      BY <3>1, <3>2, <3>3, <3>4
  <2>2. Distinct(fifo)'
    <3>1. fifo' = <<>> => DOMAIN fifo' = {}
      OBVIOUS
    <3>2. QED
      BY <1>1, <3>1 DEF EachOnce, Distinct
  <2>3. ToSet(fifo)' \cap (ToSet(pyBatch) \cup inQueue \cup vanished)' = {}
    BY <1>1, <1>2, <1>5 DEF EachOnce
  <2>4. Cardinality(ToSet(pyBatch'))  = Len(pyBatch')
    BY <1>1, <1>5, FS_EmptySet DEF EachOnce
  <2>5. QED
    BY <1>1, <2>1, <2>2, <2>3, <2>4 DEF EachOnce
<1>10. SentCounted'
  <2>1. IsFiniteSet(out \ inHand) /\ IsFiniteSet(out' \ inHand')
    BY <1>6, FS_Difference
  <2>2. Cardinality(out \ inHand) \in Nat /\ Cardinality(out' \ inHand') \in Nat
    BY <2>1, FS_CardinalityType
  <2>3. CASE sent_total' = sent_total
    <3>1. inHand' \subseteq inHand
      BY <1>1, <1>5
    <3>2. out \ inHand \in SUBSET (out' \ inHand')
      BY <1>2, <3>1
    <3>3. Cardinality(out \ inHand) <= Cardinality(out' \ inHand')
      BY <2>1, <3>2, FS_Subset
    <3>4. QED
      BY <2>2, <2>3, <3>3 DEF SentCounted, SophosOK
  <2>4. CASE sent_total' = sent_total + Len(pyBatch) /\ BasicPublish
    <3>1. out' = out \cup inHand /\ inHand' = {}
      BY <1>5, <2>4 DEF BasicPublish, PublishReturns
    <3>2. out' \ inHand' = (out \ inHand) \cup inHand /\ (out \ inHand) \cap inHand = {}
      BY <3>1
    <3>3. Cardinality(out' \ inHand') = Cardinality(out \ inHand) + Cardinality(inHand) - Cardinality({})
      BY <1>6, <2>1, <3>2, FS_Union
    <3>4. Cardinality({}) = 0 /\ Cardinality(inHand) = Len(pyBatch)
      BY FS_EmptySet DEF EachOnce
    <3>5. Cardinality(out' \ inHand') = Cardinality(out \ inHand) + Len(pyBatch)
      BY <1>4, <2>2, <3>3, <3>4
    <3>6. QED
      BY <1>4, <2>2, <2>4, <3>5 DEF SentCounted, SophosOK
  <2>5. QED
    BY <1>3, <2>3, <2>4
<1>11. QED
  BY <1>3, <1>7, <1>8, <1>9, <1>10

LEMMA SophosStep == SophosInv /\ [SophosNext]_sophosVars => SophosInv'
<1> SUFFICES ASSUME SophosInv, [SophosNext]_sophosVars PROVE SophosInv'
  OBVIOUS
<1>1. CASE UNCHANGED sophosVars
  BY <1>1 DEF sophosVars, SophosInv, SophosOK, FinitelyMany, EachOnce, Reached, Distinct, DropsCounted,
              SentCounted
<1>2. CASE SophosNext
  BY <1>2, SophosEnqueue, SophosTake, SophosPublish DEF SophosNext
<1>3. QED
  BY <1>1, <1>2

\* However the datagrams come, the broker fails and the process ends, the Python receiver
\* loses an event only for one of the causes named, its drop_total is exactly what the
\* full queue refused, and its sent_total never claims more than was published.
THEOREM SophosLosesForACause == SophosSpec => []SophosLossHasCause
BY SophosMade, SophosStep, SophosFacts, PTL DEF SophosSpec
=============================================================================
