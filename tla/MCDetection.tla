------------------------------ MODULE MCDetection ------------------------------
(* Instances for TLC of what a Windows event, an alert and a log line go        *)
(* through: the agent, the Python syslog receiver, the two detectors, the       *)
(* correlator built on them, the process trees, the deduplicator and the        *)
(* two-stage pipeline.  A behaviour runs one of them.                           *)
EXTENDS CorrelatorV1, ProcessChain, Agent, Dedup, TwoStage, SophosReceiver

CONSTANTS i1, i2, i3, h1, h2, g1, g2, e1, e2, e3, log1, log2,
          a1, a2, a3, v1, v2, w1, w2, list, bad, l1, l2, l3

VARIABLE focus   \* the part that runs

judgingVars == <<detectorVars, firewallDetectorVars, correlatorVars, chainVars, agentVars>>
passingVars == <<dedupVars, twoStageVars, sophosVars>>
vars == <<focus, judgingVars, passingVars>>

Plain == [alert |-> "none", port |-> "other", from |-> "LAN", to |-> "WAN",
          action |-> "ALLOW", protocol |-> "TCP", sent |-> 5]

\* The second beacon is of a computer whose name is the address the firewall knows.
Beacon(host) == Windows("3", {"suspicious_port", "port"}, host, i1, i2)
Fail == Windows("4625", {}, h1, i1, "")
FailAgain == Windows("4625", {"again"}, h1, i1, "")
FailElsewhere == Windows("4625", {"again"}, h1, i2, "")
Logon(type, ip) == Windows("4624", {type}, h1, ip, "")
Dump == Windows("10", {"lsass", "suspicious_access"}, h1, "", "")
BeaconAllowed(ip) == Firewall([Plain EXCEPT !.port = "c2"], ip, i2)
BeaconBlocked == Firewall([Plain EXCEPT !.port = "c2", !.action = "DROP"], i1, i2)
LoginBlocked == Firewall([Plain EXCEPT !.port = "lateral", !.action = "DROP"], i1, i2)
LoginAllowed == Firewall([Plain EXCEPT !.port = "lateral", !.to = "LAN"], i1, i2)
Transfer(sent) == Firewall([Plain EXCEPT !.sent = sent], i1, i2)

MCScenarios == {
  {Beacon(h1), BeaconAllowed(i1), BeaconBlocked}, {Beacon(i3), BeaconAllowed(i3)},
  {Fail, FailAgain, LoginBlocked}, {Fail, FailElsewhere, LoginBlocked},
  {Logon("logon_type_10", i1), Logon("logon_type_3", i1), LoginAllowed},
  {Logon("logon_type_10", i1), LoginBlocked, LoginAllowed},
  {Logon("logon_type_10", i2), LoginBlocked},
  {Dump, Transfer(20), Transfer(60)} }

MCHost == <<h1, h2>>
MCChainRow ==
  [host : {h1}, id : {"1", "10"}, from : {g1, g2, ""}, to : {g1, g2, ""}]
    \cup [host : {h1}, id : {"3"}, from : {""}, to : {g1}]
    \cup [host : {h2}, id : {"1", "8"}, from : {g1}, to : {g2}]

MCLogOf == [e \in Record |-> IF e = e3 THEN log2 ELSE log1]

MCEventsOf == [m \in Source |-> IF m = list THEN <<v1, v2>> ELSE <<>>]

Init ==
  /\ focus \in {"agent", "windows", "firewall", "correlator", "chains", "dedup", "two_stage", "sophos"}
  /\ AgentInit /\ (focus # "agent" => useHttpApi)
  /\ IF focus = "windows" THEN DetectorInit ELSE event = Unknown /\ target = Unknown /\ verdict = Unknown
  /\ IF focus = "firewall" THEN FirewallDetectorInit ELSE flow = Plain /\ threat = Unjudged
  /\ CorrelatorInit
  /\ focus # "correlator" => ~useLLMPass /\ coming = {Beacon(i3), BeaconAllowed(i3)}
  /\ IF focus = "chains" THEN ChainInit ELSE rows = <<>> /\ Start
  /\ DedupInit /\ TwoStageInit /\ SophosInit

Judging ==
  \/ focus = "agent" /\ AgentNext
     /\ UNCHANGED <<detectorVars, firewallDetectorVars, correlatorVars, chainVars>>
  \/ focus = "windows" /\ Detect /\ UNCHANGED <<firewallDetectorVars, correlatorVars, chainVars, agentVars>>
  \/ focus = "firewall" /\ DetectFlow /\ UNCHANGED <<detectorVars, correlatorVars, chainVars, agentVars>>
  \/ focus = "correlator" /\ CorrelatorNext /\ UNCHANGED <<detectorVars, firewallDetectorVars, chainVars, agentVars>>
  \/ focus = "chains" /\ ChainNext /\ UNCHANGED <<detectorVars, firewallDetectorVars, correlatorVars, agentVars>>

Passing ==
  \/ focus = "dedup" /\ DedupNext /\ UNCHANGED <<twoStageVars, sophosVars>>
  \/ focus = "two_stage" /\ TwoStageNext /\ UNCHANGED <<dedupVars, sophosVars>>
  \/ focus = "sophos" /\ SophosNext /\ UNCHANGED <<dedupVars, twoStageVars>>

Next ==
  /\ UNCHANGED focus
  /\ (Judging /\ UNCHANGED passingVars) \/ (Passing /\ UNCHANGED judgingVars)

Spec == Init /\ [][Next]_vars
=============================================================================
