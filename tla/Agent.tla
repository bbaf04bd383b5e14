-------------------------------- MODULE Agent --------------------------------
(***************************************************************************)
(* source_side/ULS_Agent.ps1: the collector on a Windows host.  Every      *)
(* iteration reads the logs from the last watermark to now, sends what it  *)
(* found in batches - over AMQP without confirms, or over the HTTP API -   *)
(* and writes a batch that failed to a file that nothing reads back.       *)
(*                                                                         *)
(* The clock ticks in seconds: a fallback file is named after one.  An     *)
(* event can be read as soon as it is written, with the second of its      *)
(* writing.                                                                *)
(***************************************************************************)
EXTENDS Naturals, Sequences, FiniteSets, SequencesExt

CONSTANTS
  Record,            \* events the host writes, each once
  LogOf,             \* the event log of each
  AgentBatch,        \* BatchSize
  Interval,          \* IntervalSeconds
  MaxSeconds,        \* bound: the clock
  MaxAgentFaults     \* bound: failures of a query, a publish, a file and the process

ASSUME AgentAssumption ==
  /\ AgentBatch \in Nat \ {0}
  /\ Interval \in Nat \ {0}
  /\ MaxSeconds \in Nat /\ MaxSeconds > Interval    \* the clock starts at Interval + 1
  /\ MaxAgentFaults \in Nat

VARIABLES
  clock,
  written,           \* the second each event was written, 0 before
  lastTimestamp,
  currentTime,
  iteration,         \* where the loop is
  unqueried,         \* logs Get-EventsInTimeRange has still to read
  events,            \* what it found
  pieces,            \* slices of the current batch that are still to be sent
  batchOk,           \* the result of its Send-EventsToRabbitMQ so far
  useHttpApi,
  fallbackFile,      \* per second: the events of the file named after it
  agentFaults,
  \* History
  queued,         \* events that reached the queue
  unread,            \* their log could not be read in the iteration of their second
  unconfirmed,       \* published over AMQP on a connection that was dying
  overwritten,       \* their file was written again in the same second, or not at all
  unwatched          \* not read when the agent ended, and older than its next watermark

loopVars == <<lastTimestamp, currentTime, iteration, unqueried, events, pieces, batchOk>>
causeVars == <<unread, unconfirmed, overwritten, unwatched>>
agentVars == <<clock, written, loopVars, useHttpApi, fallbackFile, agentFaults, queued, causeVars>>

Logs == {LogOf[e] : e \in Record}

\* The agent starts with a host that has been silent for an interval.
AgentInit ==
  /\ clock = Interval + 1 /\ written = [e \in Record |-> 0]
  /\ lastTimestamp = 1 /\ currentTime = 1
  /\ iteration = "asleep"
  /\ unqueried = {} /\ events = <<>> /\ pieces = <<>> /\ batchOk = TRUE
  /\ useHttpApi \in BOOLEAN
  /\ fallbackFile = [t \in 1..MaxSeconds |-> {}]
  /\ agentFaults = 0
  /\ queued = {} /\ unread = {} /\ unconfirmed = {} /\ overwritten = {} /\ unwatched = {}

AgentFault == agentFaults < MaxAgentFaults /\ agentFaults' = agentFaults + 1

Second ==
  /\ clock < MaxSeconds
  /\ clock' = clock + 1
  /\ UNCHANGED <<written, loopVars, useHttpApi, fallbackFile, agentFaults, queued, causeVars>>

Write(e) ==
  /\ written[e] = 0
  /\ written' = [written EXCEPT ![e] = clock]
  /\ UNCHANGED <<clock, loopVars, useHttpApi, fallbackFile, agentFaults, queued, causeVars>>

----------------------------------------------------------------------------
(* One iteration *)

\* $currentTime is taken before the logs are read.
BeginIteration ==
  /\ iteration = "asleep"
  /\ iteration' = "query"
  /\ currentTime' = clock
  /\ unqueried' = Logs
  /\ events' = <<>>
  /\ UNCHANGED <<clock, written, lastTimestamp, pieces, batchOk, useHttpApi, fallbackFile,
                 agentFaults, queued, causeVars>>

\* Get-WinEvent's StartTime and EndTime are both inclusive.
InRange(log) ==
  {e \in Record : LogOf[e] = log /\ written[e] # 0 /\ written[e] \in lastTimestamp..currentTime}

QueryLog(log) ==
  /\ iteration = "query" /\ log \in unqueried
  /\ unqueried' = unqueried \ {log}
  /\ \/ events' = events \o SetToSeq(InRange(log)) /\ UNCHANGED <<unread, agentFaults>>
     \/ AgentFault /\ unread' = unread \cup InRange(log) /\ UNCHANGED events
  /\ UNCHANGED <<clock, written, lastTimestamp, currentTime, iteration, pieces, batchOk, useHttpApi,
                 fallbackFile, queued, unconfirmed, overwritten, unwatched>>

\* The events go into batches, the first of which is taken.
FirstBatch == SubSeq(events, 1, IF Len(events) < AgentBatch THEN Len(events) ELSE AgentBatch)

NextBatch ==
  /\ iteration = "query" /\ unqueried = {} /\ events # <<>>
  /\ iteration' = "send"
  /\ pieces' = <<FirstBatch>>
  /\ batchOk' = TRUE
  /\ UNCHANGED <<clock, written, lastTimestamp, currentTime, unqueried, events, useHttpApi,
                 fallbackFile, agentFaults, queued, causeVars>>

\* Mutant of EndIteration: the watermark is the time at the end.
EndIterationLate ==
  /\ iteration = "query" /\ unqueried = {} /\ events = <<>>
  /\ iteration' = "asleep"
  /\ lastTimestamp' = clock
  /\ UNCHANGED <<clock, written, currentTime, unqueried, events, pieces, batchOk, useHttpApi,
                 fallbackFile, agentFaults, queued, causeVars>>

\* Whatever became of the batches; then Start-Sleep.
EndIteration ==
  /\ iteration = "query" /\ unqueried = {} /\ events = <<>>
  /\ iteration' = "asleep"
  /\ lastTimestamp' = currentTime
  /\ UNCHANGED <<clock, written, currentTime, unqueried, events, pieces, batchOk, useHttpApi,
                 fallbackFile, agentFaults, queued, causeVars>>

----------------------------------------------------------------------------
(* Send-EventsToRabbitMQ *)

Sending == iteration = "send" /\ pieces # <<>>

\* BasicPublish returns: true, whether or not the message arrives.
AmqpSend ==
  /\ Sending /\ ~useHttpApi
  /\ pieces' = Tail(pieces)
  /\ \/ queued' = queued \cup ToSet(Head(pieces)) /\ UNCHANGED <<unconfirmed, agentFaults>>
     \/ /\ AgentFault
        /\ unconfirmed' = unconfirmed \cup ToSet(Head(pieces))
        /\ UNCHANGED queued
  /\ UNCHANGED <<clock, written, lastTimestamp, currentTime, iteration, unqueried, events, batchOk,
                 useHttpApi, fallbackFile, unread, overwritten, unwatched>>

\* An exception: from here on, this call included, the agent uses HTTP.
AmqpThrows ==
  /\ Sending /\ ~useHttpApi
  /\ AgentFault
  /\ useHttpApi' = TRUE
  /\ UNCHANGED <<clock, written, loopVars, fallbackFile, queued, causeVars>>

HttpSend ==
  /\ Sending /\ useHttpApi
  /\ pieces' = Tail(pieces)
  /\ queued' = queued \cup ToSet(Head(pieces))
  /\ UNCHANGED <<clock, written, lastTimestamp, currentTime, iteration, unqueried, events, batchOk,
                 useHttpApi, fallbackFile, agentFaults, causeVars>>

\* Not routed, an error, or a 400 for a single event; the answer may be what is lost.
HttpFails ==
  /\ Sending /\ useHttpApi
  /\ AgentFault
  /\ pieces' = Tail(pieces)
  /\ batchOk' = FALSE
  /\ queued' \in {queued, queued \cup ToSet(Head(pieces))}
  /\ UNCHANGED <<clock, written, lastTimestamp, currentTime, iteration, unqueried, events,
                 useHttpApi, fallbackFile, causeVars>>

\* A 400 for several events: both halves are sent, even when the first one fails.
HttpSplits ==
  /\ Sending /\ useHttpApi /\ Len(Head(pieces)) > 1
  /\ AgentFault
  /\ LET piece == Head(pieces)
         mid == Len(piece) \div 2
     IN pieces' = <<SubSeq(piece, 1, mid), SubSeq(piece, mid + 1, Len(piece))>> \o Tail(pieces)
  /\ UNCHANGED <<clock, written, lastTimestamp, currentTime, iteration, unqueried, events, batchOk,
                 useHttpApi, fallbackFile, queued, causeVars>>

----------------------------------------------------------------------------
(* After a batch *)

RestOfEvents == SubSeq(events, Len(FirstBatch) + 1, Len(events))

\* Save-ToFallback: Out-File replaces a file of the same second; an error is logged.
SaveToFallback(saved) ==
  LET lostEvents == IF saved THEN fallbackFile[clock] \ ToSet(FirstBatch) ELSE ToSet(FirstBatch)
  IN  /\ overwritten' = overwritten \cup lostEvents
      /\ fallbackFile' = IF saved THEN [fallbackFile EXCEPT ![clock] = ToSet(FirstBatch)] ELSE fallbackFile

FinishBatch ==
  /\ iteration = "send" /\ pieces = <<>>
  /\ iteration' = "query"
  /\ events' = RestOfEvents
  /\ \/ batchOk /\ UNCHANGED <<fallbackFile, overwritten, agentFaults>>
     \/ ~batchOk /\ SaveToFallback(TRUE) /\ UNCHANGED agentFaults
     \/ ~batchOk /\ SaveToFallback(FALSE) /\ AgentFault
  /\ UNCHANGED <<clock, written, lastTimestamp, currentTime, unqueried, pieces, batchOk, useHttpApi,
                 queued, unread, unconfirmed, unwatched>>

\* The agent ends and is started again: it looks back one interval only.
Restart ==
  /\ clock > Interval
  /\ AgentFault
  /\ lastTimestamp' = clock - Interval
  /\ unwatched' = unwatched \cup {e \in Record : written[e] # 0 /\ written[e] < clock - Interval}
  /\ iteration' = "asleep"
  /\ unqueried' = {} /\ events' = <<>> /\ pieces' = <<>> /\ batchOk' = TRUE
  /\ useHttpApi' \in BOOLEAN
  /\ UNCHANGED <<clock, written, currentTime, fallbackFile, queued, unread, unconfirmed, overwritten>>

AgentNext ==
  \/ Second \/ \E e \in Record : Write(e)
  \/ BeginIteration \/ \E log \in Logs : QueryLog(log)
  \/ NextBatch \/ EndIteration
  \/ AmqpSend \/ AmqpThrows \/ HttpSend \/ HttpFails \/ HttpSplits
  \/ FinishBatch \/ Restart

----------------------------------------------------------------------------
(* Properties *)

\* The watermark leaves no gap and no batch is forgotten: an event older than the
\* watermark reached the queue or lies in a fallback file, unless its log could not be
\* read, AMQP lost it without a word, its file was overwritten within a second, or the
\* agent was down when it should have been read.
AgentLossHasCause ==
  \A e \in Record :
    written[e] # 0 /\ written[e] < lastTimestamp =>
      \/ e \in queued
      \/ \E t \in DOMAIN fallbackFile : e \in fallbackFile[t]
      \/ e \in unread \cup unconfirmed \cup overwritten \cup unwatched
=============================================================================
