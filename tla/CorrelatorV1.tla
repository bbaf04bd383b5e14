------------------------------ MODULE CorrelatorV1 ------------------------------
(***************************************************************************)
(* internal/correlator: every period the engine reads the alerted rows of  *)
(* the last Window from both tables, or both kinds from llm_pass_1, and    *)
(* saves an incident for every coincidence its five rules see.  The levels *)
(* of the rows are those the two detectors give them.                      *)
(* One unit of time is a period of the ticker; a pass ends before the next *)
(* tick.                                                                   *)
(***************************************************************************)
EXTENDS WindowsDetector, FirewallDetector, Integers, FiniteSets

CONSTANTS
  Scenarios,      \* sets of rows that may be inserted in a behaviour
  Window,         \* CorrelationWindow, in periods
  FailThreshold,  \* failed logons the brute-force rule asks for (5 in the code)
  RowLimit,       \* LIMIT of the queries (5000 in the code)
  MaxLate,        \* bound: how long after its timestamp a row is inserted
  MaxAhead,       \* bound: how far an agent's clock is ahead of the server's
  MaxPasses,      \* bound: passes
  MaxErrors       \* bound: statements that fail

ASSUME CorrelatorAssumption ==
  /\ Window \in Nat /\ FailThreshold \in Nat \ {0} /\ RowLimit \in Nat \ {0}
  /\ MaxLate \in Nat /\ MaxAhead \in Nat /\ MaxPasses \in Nat /\ MaxErrors \in Nat

VARIABLES
  useLLMPass,   \* Engine.useLLMPass
  coming,       \* rows not inserted yet
  table,        \* rows inserted: [row, ts, at], at the time of the insertion
  now,
  step,         \* where runPass is
  winEvents,    \* what the first query returned
  unsaved,      \* incidents of this pass not yet saved
  incidents,    \* the saved ones: incident -> number of rows of correlation_incidents
  errors,
  \* History
  badPasses,    \* passes a query error ended
  notSaved      \* incidents whose INSERT failed, with the pass

correlatorVars == <<useLLMPass, coming, table, now, step, winEvents, unsaved, incidents, errors,
                    badPasses, notSaved>>

----------------------------------------------------------------------------
(* Rows *)

NoAddress == ""

\* host is what AgentHost gets: the agent's name for its computer.
Windows(id, signs, host, src, dst) ==
  [source |-> "windows", event |-> [source |-> LogSource(id), id |-> id, signs |-> signs],
   host |-> host, src |-> src, dst |-> dst]
Firewall(f, src, dst) == [source |-> "firewall", flow |-> f, src |-> src, dst |-> dst]

Technique(r) == DetectEvent(r.event).technique
Severity(r) == IF r.source = "windows" THEN DetectEvent(r.event).severity ELSE DetectThreat(r.flow).level

\* queryLLMPassEvents leaves Action, SentBytes and LogonType empty.
Action(t) == IF useLLMPass THEN "" ELSE t.row.flow.action
SentBytes(t) == IF useLLMPass THEN 0 ELSE t.row.flow.sent
RemoteLogon(t) == ~useLLMPass /\ t.row.event.signs \cap {"logon_type_3", "logon_type_10"} # {}

\* final_severity is the LLM's, which may differ from the detector's.
Alerted(r) == useLLMPass \/ Severity(r) # "INFO"

Stored(rows, source, from) == {t \in rows : t.row.source = source /\ t.ts >= from /\ Alerted(t.row)}

\* ORDER BY timestamp LIMIT n: the possible results of the query.
Oldest(rows) ==
  IF Cardinality(rows) <= RowLimit THEN {rows}
  ELSE {s \in SUBSET rows : Cardinality(s) = RowLimit /\ \A t \in s, u \in rows \ s : t.ts <= u.ts}

Distance(t, u) == IF t.ts > u.ts THEN t.ts - u.ts ELSE u.ts - t.ts
inWindow(t, u) == Distance(t, u) <= Window

Incident(type, evidence) == [type |-> type, evidence |-> evidence]
Allowed(t) == Action(t) = "ALLOW"
Denied(t) == Action(t) = "DROP"

\* What the agent puts in a row: the log of the event's number; of the Sysmon events
\* only the network connection has a source address, and a logon has one type.
FromAgent(r) ==
  /\ r.event.source = LogSource(r.event.id)
  /\ r.event.source = "sysmon" /\ r.event.id # "3" => r.src = NoAddress
  /\ ~ {"logon_type_3", "logon_type_10"} \subseteq r.event.signs

ASSUME RowsAssumption ==
  \A s \in Scenarios : \A r \in s : r.source = "windows" => FromAgent(r)

----------------------------------------------------------------------------
(* The rules *)

ruleC2BeaconConfirmed(win, fw) ==
  {Incident("C2_BEACON_CONFIRMED", {q[1], q[2]}) : q \in
     {p \in win \X fw :
        /\ Technique(p[1].row) \in {"T1571", "T1071.001", "T1071.004", "T1059.001+T1071"}
        /\ p[1].row.dst # NoAddress
        /\ p[2].row.src \in {p[1].row.src, p[1].row.host}
        /\ p[2].row.flow.port = "c2" \/ p[2].row.dst = p[1].row.dst
        /\ inWindow(p[1], p[2])
        /\ Allowed(p[2])}}

ruleBruteForceWithFirewall(win, fw) ==
  LET Fails(ip) == {t \in win : t.row.event.id = "4625" /\ t.row.src = ip}
      First(s) == CHOOSE t \in s : \A u \in s : t.ts <= u.ts
      Blocks(ip) == {t \in fw : /\ t.row.src = ip /\ t.row.flow.port = "lateral" /\ Denied(t)
                                /\ inWindow(First(Fails(ip)), t)}
      Sources == {t.row.src : t \in win} \ {NoAddress}
  IN  {Incident("BRUTE_FORCE_CONFIRMED", Fails(ip) \cup Blocks(ip)) : ip \in
         {i \in Sources : Cardinality(Fails(i)) >= FailThreshold /\ Blocks(i) # {}}}

ruleCredDumpToExfil(win, fw) ==
  {Incident("CRED_DUMP_THEN_EXFIL", {q[1], q[2]}) : q \in
     {p \in win \X fw :
        /\ Technique(p[1].row) \in {"T1003", "T1003.001"}
        /\ p[1].row.src # NoAddress /\ p[2].row.src = p[1].row.src
        /\ p[2].ts >= p[1].ts /\ inWindow(p[1], p[2])
        /\ SentBytes(p[2]) >= 10 /\ Allowed(p[2])}}

ruleLateralMovementConfirmed(win, fw) ==
  {Incident("LATERAL_MOVEMENT_CONFIRMED", {q[1], q[2]}) : q \in
     {p \in win \X fw :
        /\ p[1].row.event.id = "4624" /\ RemoteLogon(p[1])
        /\ p[1].row.src # NoAddress /\ p[2].row.src = p[1].row.src
        /\ p[2].row.flow.port \in {"lateral", "5986"} /\ Allowed(p[2])
        /\ inWindow(p[1], p[2])}}

\* Mutant of ruleFirewallDenyThenSuccess: the order of the two is not looked at.
DenyAroundSuccess(win, fw) ==
  {Incident("FIREWALL_BYPASS_SUSPECTED", {q[1], q[2]}) : q \in
     {p \in fw \X win :
        /\ Denied(p[1]) /\ p[1].row.src # NoAddress
        /\ p[2].row.event.id = "4624" /\ p[2].row.src = p[1].row.src
        /\ inWindow(p[1], p[2])}}

ruleFirewallDenyThenSuccess(win, fw) ==
  {Incident("FIREWALL_BYPASS_SUSPECTED", {q[1], q[2]}) : q \in
     {p \in fw \X win :
        /\ Denied(p[1]) /\ p[1].row.src # NoAddress
        /\ p[2].row.event.id = "4624" /\ p[2].row.src = p[1].row.src
        /\ p[2].ts > p[1].ts /\ inWindow(p[1], p[2])}}

Rules(win, fw) ==
  ruleC2BeaconConfirmed(win, fw) \cup ruleBruteForceWithFirewall(win, fw)
    \cup ruleCredDumpToExfil(win, fw) \cup ruleLateralMovementConfirmed(win, fw)
    \cup ruleFirewallDenyThenSuccess(win, fw)

----------------------------------------------------------------------------
(* The engine *)

CorrelatorInit ==
  /\ useLLMPass \in BOOLEAN
  /\ coming \in Scenarios
  /\ table = {}
  /\ now = 0 /\ step = "due"
  /\ winEvents = {} /\ unsaved = {}
  /\ incidents = [i \in {} |-> 0]
  /\ errors = 0 /\ badPasses = {} /\ notSaved = {}

since == now - Window

\* A row is inserted, up to MaxLate after the time it carries; that of a Windows event is
\* by its computer's clock, which may be ahead, and received_at is by the server's.
InsertRow(r, late) ==
  /\ r \in coming
  /\ late <= now /\ (r.source = "firewall" => late >= 0)
  /\ coming' = coming \ {r}
  /\ table' = table \cup {[row |-> r, ts |-> now - late, at |-> now]}
  /\ UNCHANGED <<useLLMPass, now, step, winEvents, unsaved, incidents, errors, badPasses, notSaved>>

QueryWindows ==
  /\ step = "due"
  /\ step' = "firewall"
  /\ winEvents' \in Oldest(Stored(table, "windows", since))
  /\ UNCHANGED <<useLLMPass, coming, table, now, unsaved, incidents, errors, badPasses, notSaved>>

\* The rows of the second query may be younger than those of the first.
QueryFirewall ==
  /\ step = "firewall"
  /\ step' = "save"
  /\ \E fwEvents \in Oldest(Stored(table, "firewall", since)) : unsaved' = Rules(winEvents, fwEvents)
  /\ winEvents' = {}
  /\ UNCHANGED <<useLLMPass, coming, table, now, incidents, errors, badPasses, notSaved>>

\* "query error": the pass ends.
QueryFails ==
  /\ step \in {"due", "firewall"} /\ errors < MaxErrors
  /\ errors' = errors + 1
  /\ step' = "waiting"
  /\ winEvents' = {}
  /\ badPasses' = badPasses \cup {now}
  /\ UNCHANGED <<useLLMPass, coming, table, now, unsaved, incidents, notSaved>>

\* INSERT ... ON CONFLICT DO NOTHING: without a unique key nothing conflicts, and
\* an incident of an earlier pass becomes one more row.
saveIncident(i) ==
  /\ step = "save" /\ i \in unsaved
  /\ unsaved' = unsaved \ {i}
  /\ incidents' = [j \in DOMAIN incidents \cup {i} |->
                     (IF j \in DOMAIN incidents THEN incidents[j] ELSE 0) + (IF j = i THEN 1 ELSE 0)]
  /\ UNCHANGED <<useLLMPass, coming, table, now, step, winEvents, errors, badPasses, notSaved>>

\* Mutant of SaveFails: the pass ends.
SaveFailsReturns(i) ==
  /\ step = "save" /\ i \in unsaved /\ errors < MaxErrors
  /\ errors' = errors + 1
  /\ unsaved' = {}
  /\ notSaved' = notSaved \cup {<<i, now>>}
  /\ UNCHANGED <<useLLMPass, coming, table, now, step, winEvents, incidents, badPasses>>

\* "Save incident error": on to the next one.
SaveFails(i) ==
  /\ step = "save" /\ i \in unsaved /\ errors < MaxErrors
  /\ errors' = errors + 1
  /\ unsaved' = unsaved \ {i}
  /\ notSaved' = notSaved \cup {<<i, now>>}
  /\ UNCHANGED <<useLLMPass, coming, table, now, step, winEvents, incidents, badPasses>>

PassEnds ==
  /\ step = "save" /\ unsaved = {}
  /\ step' = "waiting"
  /\ UNCHANGED <<useLLMPass, coming, table, now, winEvents, unsaved, incidents, errors, badPasses, notSaved>>

\* The ticker starts the next pass.
TickerFires ==
  /\ step = "waiting" /\ now + 1 < MaxPasses
  /\ now' = now + 1
  /\ step' = "due"
  /\ UNCHANGED <<useLLMPass, coming, table, winEvents, unsaved, incidents, errors, badPasses, notSaved>>

CorrelatorNext ==
  \/ \E r \in coming, late \in (-MaxAhead)..MaxLate : InsertRow(r, late)
  \/ QueryWindows \/ QueryFirewall \/ QueryFails
  \/ \E i \in unsaved : saveIncident(i) \/ SaveFails(i)
  \/ PassEnds
  \/ TickerFires

----------------------------------------------------------------------------
(* Properties *)

Of(i, source) == {t \in i.evidence : t.row.source = source}

\* What an incident claims holds of its evidence (the comments above each rule): rows
\* of both sources, all alerted and read in one window, each Windows row from the source
\* address of each firewall row - for a beacon the name of its computer may be that
\* address instead - and at most Window from it.  A brute force is at least FailThreshold
\* failures, and only the first of them is within Window of every block: the later ones
\* may be ahead of the server's clock.  A suspected bypass or an exfiltration never
\* puts the effect before its cause.
IncidentsAreCoincidences ==
  \A i \in DOMAIN incidents :
    /\ Of(i, "windows") # {} /\ Of(i, "firewall") # {}
    /\ \A t, u \in i.evidence : Alerted(t.row) /\ Distance(t, u) <= Window + MaxAhead
    /\ \A we \in Of(i, "windows"), fe \in Of(i, "firewall") :
         /\ we.row.src = fe.row.src \/ (i.type = "C2_BEACON_CONFIRMED" /\ we.row.host = fe.row.src)
         /\ i.type # "BRUTE_FORCE_CONFIRMED" => Distance(we, fe) <= Window
         /\ i.type = "FIREWALL_BYPASS_SUSPECTED" => we.ts > fe.ts
         /\ i.type = "CRED_DUMP_THEN_EXFIL" => fe.ts >= we.ts
    /\ i.type = "BRUTE_FORCE_CONFIRMED" =>
         /\ Cardinality(Of(i, "windows")) >= FailThreshold
         /\ \E first \in Of(i, "windows") :
              /\ \A we \in Of(i, "windows") : first.ts <= we.ts
              /\ \A fe \in Of(i, "firewall") : Distance(first, fe) <= Window

\* A coincidence that was in the tables before a pass and inside its window is in
\* correlation_incidents after it, perhaps with more evidence, unless a query of that
\* pass failed, the INSERT of this incident failed, or the window holds more alerts
\* than the queries read.  Rows that come late or lie almost Window apart may
\* never be inside one pass's window together.
Read(n, source) == Stored({t \in table : t.at < n}, source, n - Window)
Over(n, source) == Cardinality(Stored({t \in table : t.at <= n}, source, n - Window)) > RowLimit
CoincidencesReported ==
  \A n \in 0..now :
    \/ n = now /\ step # "waiting"
    \/ n \in badPasses \/ Over(n, "windows") \/ Over(n, "firewall")
    \/ \A i \in Rules(Read(n, "windows"), Read(n, "firewall")) :
         \/ \E j \in DOMAIN incidents : j.type = i.type /\ i.evidence \subseteq j.evidence
         \/ \E f \in notSaved : f[2] = n /\ f[1].type = i.type /\ i.evidence \subseteq f[1].evidence
=============================================================================
