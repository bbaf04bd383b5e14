------------------------------- MODULE MCServices -------------------------------
(* Instances for TLC of three parts that must make progress on their own: the   *)
(* BART client, the HTTP bridge and the syslog receiver.  A behaviour runs one  *)
(* of them; the last two share a Publisher.                                     *)
EXTENDS BartRunner, ScadaBridge, SyslogReceiver

CONSTANTS r1, r2, r3, q1, q2, q3, rcv, m1, m2, m3, m4

VARIABLE focus   \* the part that runs

vars == <<focus, bartVars, publisherVars, bridgeVars, receiverVars>>

MCEntries == [r \in Request |-> CASE r = q1 -> <<m1, m2>> [] r = q2 -> <<m3>> [] r = q3 -> <<>>]

\* Three events, and a line of each kind for the fourth datagram.
Plain == [header |-> "none", blank |-> FALSE, cef |-> "no", equals |-> FALSE, pairs |-> FALSE]
Pairs == [Plain EXCEPT !.equals = TRUE, !.pairs = TRUE]
MCLineOf == [m \in Message |-> CASE m = m1 -> Pairs [] m = m2 -> Plain
  [] m = m3 -> [Plain EXCEPT !.header = "rfc3164", !.cef = "full"]
  [] m = m4 -> [Plain EXCEPT !.equals = TRUE]]

\* For the syslog receiver: one lost channel or rejected message; its events, alike
\* but for the form of their lines, arrive in one order, the line that is no event
\* anywhere between them.
Bounds ==
  /\ losses' + rejects' <= 1
  /\ m1 \in coming' => m2 \in coming'
  /\ m2 \in coming' => m3 \in coming'

\* A part that does not run has nothing to do, and fairness asks nothing of it.
Init ==
  /\ focus \in {"bart", "bridge", "syslog"}
  /\ BartInit
  /\ ReceiverInit /\ died = (focus # "syslog")
  /\ focus # "syslog" => attached
  /\ BridgeInit

Next ==
  /\ UNCHANGED focus
  /\ \/ focus = "bart" /\ BartNext /\ UNCHANGED <<publisherVars, bridgeVars, receiverVars>>
     \/ focus = "bridge" /\ BridgeNext /\ UNCHANGED <<bartVars, receiverVars>>
     \/ focus = "syslog" /\ ReceiverNext /\ Bounds /\ UNCHANGED <<bartVars, bridgeVars>>

Spec == Init /\ [][Next]_vars /\ BartFairness /\ BridgeFairness /\ ReceiverFairness
=============================================================================
