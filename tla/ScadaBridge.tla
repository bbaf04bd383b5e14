----------------------------- MODULE ScadaBridge -----------------------------
(***************************************************************************)
(* cmd/server/main.go, POST /ingest_scada: every request is a goroutine of *)
(* its own that checks its entries and publishes them one by one through   *)
(* the one Publisher of the SCADA queue.                                   *)
(***************************************************************************)
EXTENDS Publisher

CONSTANTS
  Request,     \* requests a client may send
  Invalid,     \* those answered 4xx: method, body, JSON, or a required field
  Entries      \* per request: the events to publish

ASSUME BridgeAssumption ==
  /\ Request \subseteq Caller
  /\ Invalid \subseteq Request
  /\ Entries \in [Request -> Seq(Message)]

VARIABLES
  index,       \* per request: the entry PublishBatch is at, 0 before it begins
  response,    \* per request: what the client was told
  \* History
  vouched      \* entries whose Publish returned nil, with the epoch

bridgeVars == <<index, response, vouched>>

BridgeTypeOK ==
  /\ PublisherTypeOK
  /\ index \in [Request -> Nat]
  /\ response \in [Request -> {"none", "bad", "failed", "ok"}]
  /\ vouched \subseteq [msg : Message, epoch : Nat]

\* main() has made the Publisher.
BridgeInit ==
  /\ index = [r \in Request |-> 0]
  /\ response = [r \in Request |-> "none"]
  /\ vouched = {}

\* The process has not died in reconnect().
Up == handler # "fatal"

Entry(r) == Entries[r][index[r]]

Respond(r, status) == response' = [response EXCEPT ![r] = status]

\* A single bad entry refuses the whole request before anything is published.
Refuse(r) ==
  /\ index[r] = 0 /\ response[r] = "none"
  /\ r \in Invalid
  /\ Respond(r, "bad")
  /\ UNCHANGED <<publisherVars, index, vouched>>

Receive(r) ==
  /\ index[r] = 0 /\ response[r] = "none"
  /\ r \notin Invalid
  /\ index' = [index EXCEPT ![r] = 1]
  /\ UNCHANGED <<publisherVars, response, vouched>>

Publishing(r) == index[r] > 0 /\ response[r] = "none"

\* PublishBatch calls Publish for its next entry.
PublishNext(r) ==
  /\ Publishing(r) /\ index[r] <= Len(Entries[r])
  /\ EnterPublish(r)
  /\ UNCHANGED <<channel, epoch, wire, answers, confirms, connected, handler, attempt, holder,
                 stored, losses, rejects, timeouts>>
  /\ UNCHANGED bridgeVars

Publish(r) ==
  /\ \/ PublishFails(r)
     \/ At(r, "enter") /\ PublishSends(r, Entry(r))
     \/ ReadConfirm(r)
     \/ ConfirmTimeout(r)
  /\ UNCHANGED <<index, response>>
  /\ vouched' = IF stage'[r] = "ok" THEN vouched \cup {[msg |-> Entry(r), epoch |-> epoch]}
                ELSE vouched

\* Publish returned nil: on to the next entry.
EntryDone(r) ==
  /\ At(r, "ok")
  /\ Goto(r, "out")
  /\ index' = [index EXCEPT ![r] = @ + 1]
  /\ UNCHANGED <<channel, epoch, wire, answers, confirms, connected, handler, attempt, holder,
                 stored, losses, rejects, timeouts>>
  /\ UNCHANGED <<response, vouched>>

\* Publish returned an error: the entries before it stay published.
BatchFails(r) ==
  /\ At(r, "error")
  /\ Goto(r, "out")
  /\ Respond(r, "failed")
  /\ UNCHANGED <<channel, epoch, wire, answers, confirms, connected, handler, attempt, holder,
                 stored, losses, rejects, timeouts>>
  /\ UNCHANGED <<index, vouched>>

BatchDone(r) ==
  /\ Publishing(r) /\ index[r] > Len(Entries[r])
  /\ Respond(r, "ok")
  /\ UNCHANGED <<publisherVars, index, vouched>>

\* main()'s deferred pub.Close(); the HTTP server goes on until main() returns.
Shutdown ==
  /\ channel # "closed"
  /\ Close
  /\ UNCHANGED <<stage, bridgeVars>>

Handle(r) ==
  Up /\ (Receive(r) \/ PublishNext(r) \/ Publish(r) \/ EntryDone(r) \/ BatchFails(r) \/ BatchDone(r))

BridgeNext ==
  \/ Broker /\ UNCHANGED bridgeVars
  \/ HandleReconnect /\ UNCHANGED bridgeVars
  \/ \E r \in Request : (Up /\ Refuse(r)) \/ Handle(r)
  \/ Up /\ Shutdown

(***************************************************************************)
(* Fairness: of the handlers that can take a step one does, and a dial     *)
(* returns.  Nothing is assumed of the broker: it may never confirm.       *)
(***************************************************************************)
BridgeFairness ==
  LET v == <<publisherVars, bridgeVars>> IN
  /\ WF_v(HandleReconnect /\ UNCHANGED bridgeVars)
  /\ WF_v(\E r \in Request :
            Up /\ (PublishNext(r) \/ Publish(r) \/ EntryDone(r) \/ BatchFails(r) \/ BatchDone(r)))

----------------------------------------------------------------------------
(* Properties *)

\* An entry that Publish vouched for was accepted by the broker, as long as no
\* publish of that channel had timed out; and "200 OK" vouches for every entry.
OkIsStored ==
  /\ \A v \in vouched : stored[v.msg] > 0 \/ timeouts[v.epoch] > 0
  /\ \A r \in Request : response[r] = "ok" =>
       \A i \in 1..Len(Entries[r]) : \E v \in vouched : v.msg = Entries[r][i]

\* What is in flight between two publishes is exactly one confirm per timeout:
\* the lag a timeout causes is never made up for, nor does it grow by itself.
ConfirmsLag ==
  channel = "open" =>
    Len(wire) + Len(answers) + Len(confirms) =
      timeouts[epoch] + (IF holder \in Caller THEN 1 ELSE 0)

\* A valid request is answered, whatever the broker does: nobody waits for ever
\* for a confirm or for the mutex.
EveryRequestAnswered ==
  \A r \in Request : index[r] > 0 ~> (response[r] # "none" \/ ~Up)
=============================================================================
