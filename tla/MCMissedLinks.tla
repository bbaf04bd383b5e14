----------------------------- MODULE MCMissedLinks -----------------------------
(* Two attack sequences as the documentation of the correlator tells them: a    *)
(* credential dump and then 60 MB from the same computer, and a logon over the  *)
(* network with the traffic that carried it.                                    *)
EXTENDS CorrelatorV1

CONSTANTS h1, h2, i1, i2

\* The addresses of the computers, as the network knows them.
AddressOf == [h \in {h1, h2} |-> IF h = h1 THEN i1 ELSE i2]

Plain == [alert |-> "none", port |-> "other", from |-> "LAN", to |-> "WAN",
          action |-> "ALLOW", protocol |-> "TCP", sent |-> 5]

MCScenarios == {
  {Windows("10", {"lsass", "suspicious_access"}, h1, NoAddress, NoAddress),
   Firewall([Plain EXCEPT !.sent = 60], i1, i2)},
  {Windows("4624", {"logon_type_3"}, h2, i1, NoAddress),
   Firewall([Plain EXCEPT !.port = "lateral", !.to = "LAN"], i1, i2)} }

Init ==
  /\ CorrelatorInit /\ ~useLLMPass
  /\ event = Unknown /\ target = Unknown /\ verdict = Unknown
  /\ flow = Plain /\ threat = Unjudged

Next == CorrelatorNext /\ UNCHANGED <<detectorVars, firewallDetectorVars>>

Spec == Init /\ [][Next]_<<correlatorVars, detectorVars, firewallDetectorVars>>

----------------------------------------------------------------------------
(* Property *)

\* "LSASS access detected on host X AND >10MB outbound from X's IP".
DumpThenTransfer(we, fe) ==
  /\ we.row.event.id = "10" /\ "lsass" \in we.row.event.signs
  /\ fe.row.src = AddressOf[we.row.host] /\ fe.row.flow.sent >= 10 /\ Allowed(fe)
  /\ fe.ts >= we.ts

\* "Windows records successful network logon from IP A to host B AND Sophos confirms
\* internal SMB/RDP traffic A->B".
NetworkLogon(we, fe) ==
  /\ we.row.event.id = "4624" /\ "logon_type_3" \in we.row.event.signs
  /\ fe.row.src = we.row.src /\ fe.row.dst = AddressOf[we.row.host]
  /\ fe.row.flow.port = "lateral" /\ fe.row.flow.from = "LAN" /\ fe.row.flow.to = "LAN" /\ Allowed(fe)

\* The third and fourth row of the table at src/README.md:365-375, and the comments above
\* their rules (rules.go:158-162, 220-224): the two coincidences become incidents in the
\* pass that finds both rows in the tables and in its window, when no statement failed.
DocumentedLinksAreMade ==
  \A n \in 0..now \ badPasses :
    \/ n = now /\ step # "waiting"
    \/ \E f \in notSaved : f[2] = n
    \/ \A we, fe \in {t \in table : t.at < n /\ t.ts >= n - Window} :
         /\ we.row.source = "windows" /\ fe.row.source = "firewall"
         /\ Distance(we, fe) <= Window
         /\ DumpThenTransfer(we, fe) \/ NetworkLogon(we, fe)
         => \E i \in DOMAIN incidents : {we, fe} \subseteq i.evidence
=============================================================================
