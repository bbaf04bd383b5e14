------------------------------- MODULE TwoStage -------------------------------
(***************************************************************************)
(* The two-stage pipeline of LOAD_BALANCING_ARCHITECTURE.md: the           *)
(* enrichment service, the enriched queue and the database writer, each    *)
(* service a process of its own.                                           *)
(***************************************************************************)
EXTENDS Enrichment, DbWriter

twoStageVars == <<enrichedVars, enrichmentVars, writerVars>>

TwoStageTypeOK == EnrichedTypeOK /\ EnrichmentTypeOK /\ WriterTypeOK

TwoStageInit == EnrichedInit /\ EnrichmentInit /\ WriterInit

TwoStageNext ==
  \/ EnrichmentNext /\ UNCHANGED writerVars
  \/ WriterNext /\ UNCHANGED enrichmentVars

----------------------------------------------------------------------------
(* Properties *)

Acknowledged == Source \ (srcReady \cup srcUnacked \cup Unparsable)

OnItsWay(e) ==
  \/ e \in Elements(enrichedChan) \cup Elements(pubBatch)
  \/ \E m \in waiting \cup delivered : e \in Elements(m.events)
  \/ dbRows[e] > 0

\* Lost for a known cause: its Publish failed, it was in memory when the process ended, or
\* its Publish returned nil on a confirm that was another batch's.
CauseKnown(e) ==
  \/ e \in unpublished \cup forgottenEvents
  \/ e \in misconfirmed /\ unpublished # {}

\* Once its message is acknowledged, an event is on its way to the table or in it, end to
\* end, or it was lost for one of three causes; and what a Publish reported as stored is
\* only lost after some Publish has reported an error.
LossHasCause ==
  \A m \in Acknowledged : \A e \in Elements(EventsOf[m]) :
    OnItsWay(e) \/ CauseKnown(e)
=============================================================================
