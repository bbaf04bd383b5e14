---------------------------- MODULE EnrichedQueue ----------------------------
(***************************************************************************)
(* The queue between the enrichment service and the database writer:       *)
(* external code, as internal/enrichment publishes to it and               *)
(* internal/dbwriter consumes from it.  A message is a batch of events; it *)
(* carries a serial number, since the same events may be published twice.  *)
(***************************************************************************)
EXTENDS Naturals, Sequences, FiniteSets

CONSTANT Event

VARIABLES
  enriched,    \* every message the broker has accepted
  waiting,     \* those in the queue
  delivered    \* unsettled deliveries of the writer's consumer

enrichedVars == <<enriched, waiting, delivered>>

EnrichedMessage == [serial : Nat, events : Seq(Event)]

EnrichedTypeOK ==
  /\ enriched \subseteq EnrichedMessage
  /\ waiting \subseteq enriched /\ delivered \subseteq enriched
  /\ waiting \cap delivered = {}

EnrichedInit == enriched = {} /\ waiting = {} /\ delivered = {}

\* The broker takes a batch; part of a step.
BrokerStores(batch) ==
  LET msg == [serial |-> Cardinality(enriched) + 1, events |-> batch]
  IN  /\ enriched' = enriched \cup {msg}
      /\ waiting' = waiting \cup {msg}
      /\ UNCHANGED delivered

\* Connection or process of the writer gone; part of a step.
Redeliver ==
  /\ waiting' = waiting \cup delivered
  /\ delivered' = {}
  /\ UNCHANGED enriched
=============================================================================
