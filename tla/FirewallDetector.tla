--------------------------- MODULE FirewallDetector ---------------------------
(***************************************************************************)
(* internal/firewall/detector.go: the threat level of a firewall row.      *)
(* Ports and texts are abstracted to the classes the rules tell apart.     *)
(***************************************************************************)
EXTENDS Naturals, Sequences, FiniteSetsExt

VARIABLES
  flow,      \* the row to judge
  threat     \* what Detect returned, Unjudged before

firewallDetectorVars == <<flow, threat>>

Level == <<"INFO", "LOW", "MEDIUM", "HIGH", "CRITICAL">>
LevelRank(level) == CHOOSE n \in DOMAIN Level : Level[n] = level

Threat(level, type) == [level |-> level, type |-> type]
NoThreat == Threat("INFO", "")
Unjudged == Threat("none", "")

NoProtocol == ""

\* Ports, in the classes this file and the correlator's rules.go tell apart: "c2" is one
\* of the eight ports that both call so, "irc" one of 4445, 6667 and 6697, which only this
\* file does; "lateral" is 22, 445, 3389 or 5985, "sensitive" is in sensitivePorts only.
c2Ports == {"c2", "irc"}
lateralPorts == {"lateral", "5986", "135"}
sensitivePorts == lateralPorts \cup {"sensitive"}

\* Bytes are in units of 10^6.
Flow == [alert : {"none", "plain", "critical"},
         port : c2Ports \cup sensitivePorts \cup {"53", "web", "other"},
         from : {"LAN", "WAN"}, to : {"LAN", "WAN"},
         action : {"ALLOW", "DROP", ""}, protocol : {"TCP", "UDP", NoProtocol},
         sent : {5, 20, 60}]

Blocked(e) == e.action = "DROP"

\* Each rule with the threat it returns where it applies, in the order of Detect.
FirewallRules(e) == <<
  [applies |-> e.alert # "none",
   threat |-> Threat(IF e.alert = "critical" THEN "CRITICAL" ELSE "HIGH", "IDS_IPS_ALERT")],
  [applies |-> e.port \in c2Ports,
   threat |-> Threat(IF Blocked(e) THEN "HIGH" ELSE "CRITICAL", "C2_PORT_OUTBOUND")],
  [applies |-> e.port \in sensitivePorts /\ e.from = "WAN" /\ e.to = "LAN",
   threat |-> Threat(IF e.action = "ALLOW" THEN "HIGH" ELSE "MEDIUM", "EXTERNAL_ACCESS_SENSITIVE_PORT")],
  [applies |-> e.port \in lateralPorts /\ e.from = "LAN" /\ e.to = "LAN",
   threat |-> Threat("MEDIUM", "LATERAL_MOVEMENT_INDICATOR")],
  [applies |-> e.sent > 50 /\ e.from = "LAN" /\ e.to = "WAN",
   threat |-> Threat("MEDIUM", "LARGE_OUTBOUND_TRANSFER")],
  [applies |-> e.port = "53" /\ e.protocol = "TCP",
   threat |-> Threat("MEDIUM", "DNS_OVER_TCP")],
  [applies |-> e.port = "web" /\ e.protocol \notin {"TCP", NoProtocol},
   threat |-> Threat("LOW", "PROTOCOL_ANOMALY")],
  [applies |-> Blocked(e),
   threat |-> Threat("LOW", "FIREWALL_DENY")] >>

FirstThreat(rules) ==
  LET hits == {n \in DOMAIN rules : rules[n].applies}
  IN  IF hits = {} THEN NoThreat ELSE rules[Min(hits)].threat

\* Mutant of DetectThreat: the rule for blocked connections comes first.
DetectThreatDenyFirst(e) ==
  FirstThreat(<<FirewallRules(e)[8]>> \o SubSeq(FirewallRules(e), 1, 7))

DetectThreat(e) == FirstThreat(FirewallRules(e))

FirewallDetectorInit == flow \in Flow /\ threat = Unjudged

DetectFlow ==
  /\ threat = Unjudged
  /\ threat' = DetectThreat(flow)
  /\ UNCHANGED flow

----------------------------------------------------------------------------
(* Property *)

\* The level returned is the highest of all the rules that apply, as the comment of
\* Detect says ("highest-confidence"), although it stops at the first one; but for an
\* intrusion alert of ordinary severity on an allowed connection to a C2 port, which
\* is returned as HIGH where the C2 rule would say CRITICAL.
HighestLevelWins ==
  threat # Unjudged =>
    \A n \in DOMAIN FirewallRules(flow) :
      LET r == FirewallRules(flow)[n]
      IN  r.applies =>
            \/ LevelRank(threat.level) >= LevelRank(r.threat.level)
            \/ threat = Threat("HIGH", "IDS_IPS_ALERT") /\ r.threat = Threat("CRITICAL", "C2_PORT_OUTBOUND")
=============================================================================
