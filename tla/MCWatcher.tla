------------------------------- MODULE MCWatcher -------------------------------
(* Instances of Watcher for TLC: two Windows rows, of which the second may    *)
(* look like the first, and a firewall row.                                   *)
EXTENDS Watcher

CONSTANTS w1, w2, f1

MCSource == Source
MCSourceOf == [e \in Event |-> IF e = f1 THEN "firewall" ELSE "windows"]
MCFingerprints == [e \in Event |-> IF e = w2 THEN {w1, w2} ELSE {e}]
MCRuleSeverity == [e \in Event |-> CASE e = w1 -> 1 [] e = w2 -> 3 [] e = f1 -> 4]
=============================================================================
