------------------------------- MODULE Consumer -------------------------------
(***************************************************************************)
(* internal/queue/consumer.go: the Consumer type and its reconnection      *)
(* goroutine.  Every method holds Consumer.mu, so each is one step; the    *)
(* two critical sections of reconnect() are separate steps.                *)
(*                                                                         *)
(* handleReconnect evaluates "range c.notifyClose" once.  The channel it   *)
(* ranges over belongs to the first AMQP channel: the client library sends *)
(* the loss error on it and closes it, so the goroutine serves one loss    *)
(* and returns.  The notifyClose created by the later connect() has no     *)
(* reader.                                                                 *)
(***************************************************************************)
EXTENDS AmqpQueue

CONSTANT MaxAttempts   \* reconnect() gives up after this many dials (30 in the code)

ASSUME AttemptsAssumption == MaxAttempts \in Nat \ {0}

VARIABLES
  connected,  \* Consumer.connected
  handler,    \* where the handleReconnect goroutine is
  attempt     \* loop variable of reconnect(), 0 outside it

consumerVars == <<connected, handler, attempt>>

ConsumerTypeOK ==
  /\ connected \in BOOLEAN
  /\ handler \in {"waiting", "reconnecting", "exited"}
  /\ attempt \in 0..MaxAttempts

ConsumerInit ==
  /\ connected = FALSE
  /\ handler = "exited"
  /\ attempt = 0

\* NewConsumer with a connect() that succeeds; part of a step.
NewConsumer ==
  /\ OpenChannel
  /\ connected' = TRUE
  /\ handler' = "waiting"
  /\ attempt' = 0

\* The first critical section of reconnect(), run when notifyClose yields
\* the loss error.
ReconnectBegin ==
  /\ handler = "waiting"
  /\ channel = "lost"
  /\ handler' = "reconnecting"
  /\ connected' = FALSE
  /\ attempt' = 1
  /\ UNCHANGED queueVars

\* connect() succeeds; reconnect() returns and the range loop finds its
\* channel closed.
ReconnectSucceed ==
  /\ handler = "reconnecting"
  /\ OpenChannel
  /\ connected' = TRUE
  /\ handler' = "exited"
  /\ attempt' = 0
  /\ UNCHANGED <<published, ready, unacked, abandoned, subscribed, orphaned, inbox, losses>>

\* Mutant of ReconnectFail: the loop runs one attempt too many.
ReconnectFailOffByOne ==
  /\ handler = "reconnecting"
  /\ attempt <= MaxAttempts
  /\ attempt' = attempt + 1
  /\ UNCHANGED <<connected, handler>>
  /\ UNCHANGED queueVars

\* Mutant of ReconnectFail: a failed dial ends the goroutine.
ReconnectFailReturns ==
  /\ handler = "reconnecting"
  /\ attempt < MaxAttempts
  /\ handler' = "exited"
  /\ attempt' = 0
  /\ UNCHANGED connected
  /\ UNCHANGED queueVars

\* connect() fails and another attempt is left.
ReconnectFail ==
  /\ handler = "reconnecting"
  /\ attempt < MaxAttempts
  /\ attempt' = attempt + 1
  /\ UNCHANGED <<connected, handler>>
  /\ UNCHANGED queueVars

\* The last attempt fails: log.Fatal.  A guard; the process dies.
OutOfAttempts == handler = "reconnecting" /\ attempt = MaxAttempts

\* Consume() returns a delivery channel.  With connected still TRUE on a
\* channel that is gone the library returns an error instead.
CanConsume == connected /\ channel = "open"

\* Close().  A notifyClose closed without an error ends the handler; an
\* error already sent on it is still served.  Part of a step.
Close ==
  /\ CloseChannel
  /\ connected' = FALSE
  /\ handler' = IF handler = "waiting" /\ channel = "open" THEN "exited" ELSE handler
  /\ UNCHANGED attempt
=============================================================================
