------------------------------- MODULE MCIngest -------------------------------
(* Instances of Ingest for TLC.                                             *)
EXTENDS Ingest

CONSTANTS e1, e2, e3, empty, bad   \* message names

\* e1 and e2 carry one event, e3 two; "empty" is a JSON [] and "bad" no JSON.
MCEvents == [m \in Message |-> IF m \in {empty, bad} THEN 0
                               ELSE IF m = e3 THEN 2 ELSE 1]
MCMalformed == Message \cap {bad}
=============================================================================
