---------------------------- MODULE WindowsDetector ----------------------------
(***************************************************************************)
(* internal/detector/detector.go: the rules that give a Windows event its  *)
(* severity and technique.  A rule tests strings of the event; what those  *)
(* tests come to is a set of signs, one per pattern of the code, and a     *)
(* rule names the signs it needs.  The first rule that applies wins.       *)
(* DetectionModule and the text of a finding are left out; a finding with  *)
(* two techniques joins them with a + where the code has a comma.          *)
(***************************************************************************)
EXTENDS Naturals, Sequences, FiniteSetsExt

VARIABLES
  event,     \* [source, id, signs]: a row as the agent sends it
  target,    \* the rule whose signs the event shows
  verdict    \* what Detect returned, Unknown before

detectorVars == <<event, target, verdict>>

Rule(severity, technique, needs) == [severity |-> severity, technique |-> technique, needs |-> needs]
NoTechnique == "none"   \* MitreTechnique is ""
Nothing == Rule("INFO", NoTechnique, {})
Unknown == Rule("none", NoTechnique, {})

\* Patterns with a capital letter, which matchesPattern compares with a text
\* it has put in lower case.
CapitalPattern == {"removable_media", "staged_file", "physical_media"}

Applies(r, e) == r.needs \subseteq (e.signs \ CapitalPattern) \cup {e.id}

FirstRule(rules, e) ==
  LET hits == {n \in DOMAIN rules : Applies(rules[n], e)}
  IN  IF hits = {} THEN Nothing ELSE rules[Min(hits)]

----------------------------------------------------------------------------
(* The rules, one list per function *)

PowerShellRules == <<
  Rule("HIGH", "T1059.001", {"powershell", "powershell_encoded"}),
  Rule("HIGH", "T1059.001+T1105", {"powershell", "powershell_download"}),
  Rule("HIGH", "T1059.001+T1564.003", {"powershell", "powershell_bypass", "powershell_hidden"}),
  Rule("CRITICAL", "T1562.001", {"powershell", "amsi_bypass"}) >>

ProcessRules == <<
  Rule("MEDIUM", "T1059.003", {"cmd", "cmd_suspicious"}),
  Rule("MEDIUM", "T1059.005", {"wscript"}),
  Rule("HIGH", "T1218.005", {"mshta"}),
  Rule("HIGH", "T1218.011", {"rundll32", "script_url"}),
  Rule("HIGH", "T1218.010", {"regsvr32", "silent_install"}),
  Rule("HIGH", "T1140+T1105", {"certutil", "decode_or_urlcache"}),
  Rule("MEDIUM", "T1197+T1105", {"bitsadmin", "transfer"}),
  Rule("CRITICAL", "T1003.001", {"mimikatz"}),
  Rule("HIGH", "T1569.002+T1021.002", {"psexec"}),
  Rule("CRITICAL", "T1490", {"shadow_delete"}),
  Rule("CRITICAL", "T1490", {"bcdedit"}),
  Rule("HIGH", "T1070.001", {"clear_logs"}),
  Rule("HIGH", "T1566.001", {"office_parent", "script_child"}) >>

detectProcessCreation == PowerShellRules \o ProcessRules

detectNetworkConnection == <<
  Rule("HIGH", "T1571", {"suspicious_port"}),
  Rule("MEDIUM", "T1059.001+T1071", {"powershell", "port"}),
  Rule("HIGH", "T1071.001", {"web_port", "proxy_image"}) >>

detectProcessAccess == << Rule("CRITICAL", "T1003.001", {"lsass", "suspicious_access"}) >>

detectFileCreate == <<
  Rule("MEDIUM", "T1105", {"suspicious_location", "exec_extension"}),
  Rule("HIGH", "T1547.001", {"startup_folder"}),
  Rule("CRITICAL", "T1505.003", {"web_root", "web_extension"}) >>

detectRegistryEvent == <<
  Rule("HIGH", "T1547.001", {"registry_run"}),
  Rule("MEDIUM", "T1543.003", {"services_key"}),
  Rule("CRITICAL", "T1562.001", {"defender_disabled"}),
  Rule("HIGH", "T1548.002", {"uac_key"}) >>

detectPipeEvent == <<
  Rule("HIGH", "T1570", {"malicious_pipe"}),
  Rule("CRITICAL", "T1071.001", {"cobalt_strike_pipe"}) >>

detectDNSQuery == <<
  Rule("MEDIUM", "T1071.004", {"bad_domain"}),
  Rule("HIGH", "T1071.004", {"long_label"}) >>

detectFileDelete == << Rule("CRITICAL", "T1562.001", {"security_tool_file"}) >>

detectImageLoad == <<
  Rule("MEDIUM", "T1574.001", {"unsigned", "dll_in_temp"}),
  Rule("HIGH", "T1003", {"credential_dll", "foreign_image"}) >>

detectRemoteThread == << Rule("HIGH", "T1055", {"other_process", "injection_target"}) >>

detectLogonSuccess == <<
  Rule("LOW", "T1021.001", {"logon_type_10"}),
  Rule("INFO", "T1021.002", {"logon_type_3"}) >>

detectLogonFailure == << Rule("LOW", "T1110", {}) >>
detectExplicitCredentials == << Rule("MEDIUM", "T1078", {}) >>
detectPrivilegeAssignment == << Rule("LOW", "T1078", {}) >>
detectSecurityProcessCreation == << Rule("LOW", "T1059.001", {"powershell"}) >>

detectServiceInstall == <<
  Rule("HIGH", "T1543.003", {"suspicious_service_file"}),
  Rule("LOW", "T1543.003", {}) >>

detectScheduledTaskCreation == << Rule("MEDIUM", "T1053.005", {}) >>
detectUserCreation == << Rule("MEDIUM", "T1136.001", {}) >>
detectGroupMembership == << Rule("MEDIUM", "T1098", {}) >>
detectKerberosTGT == << Rule("MEDIUM", "T1558.004", {"rc4"}) >>
detectKerberosServiceTicket == << Rule("MEDIUM", "T1558.003", {"rc4"}) >>
detectNTLMAuth == << Rule("INFO", "T1550.002", {}) >>
detectRDPSession == << Rule("LOW", "T1021.001", {}) >>
detectShareAccess == << Rule("INFO", "T1021.002", {}) >>
detectSystemServiceInstall == <<
  Rule("HIGH", "T1543.003", {"new_service_file"}),
  Rule("LOW", "T1543.003", {}) >>
detectServiceStateChange == << Rule("HIGH", "T1562.001", {"defender_service"}) >>
detectLogCleared == << Rule("HIGH", "T1070.001", {}) >>

CollectionFromProcess == <<
  Rule("MEDIUM", "T1005", {"recursive_copy"}),
  Rule("MEDIUM", "T1039", {"network_copy"}),
  Rule("MEDIUM", "T1025", {"removable_media"}),
  Rule("MEDIUM", "T1113", {"screen_capture"}),
  Rule("MEDIUM", "T1125", {"video_capture"}),
  Rule("MEDIUM", "T1123", {"audio_capture"}),
  Rule("MEDIUM", "T1115", {"clipboard"}),
  Rule("CRITICAL", "T1056.004", {"keylogging"}),
  Rule("MEDIUM", "T1560", {"archive"}),
  Rule("MEDIUM", "T1074", {"staging_copy"}),
  Rule("MEDIUM", "T1119", {"copy_loop"}) >>

CollectionFromImage == <<
  Rule("MEDIUM", "T1113", {"graphics_dll", "shell_image"}),
  Rule("MEDIUM", "T1056.004", {"user32", "hooking_image"}) >>

CollectionFromFile == <<
  Rule("LOW", "T1113", {"image_file"}),
  Rule("LOW", "T1125", {"video_file"}),
  Rule("LOW", "T1123", {"audio_file"}),
  Rule("LOW", "T1560", {"archive_file"}),
  Rule("LOW", "T1074", {"staged_file"}) >>

detectDiscovery == <<
  Rule("LOW", "T1087", {"account_discovery"}),
  Rule("LOW", "T1082", {"system_information"}),
  Rule("LOW", "T1057", {"process_discovery"}),
  Rule("MEDIUM", "T1046", {"service_scanning"}),
  Rule("LOW", "T1016", {"network_configuration"}),
  Rule("LOW", "T1083", {"file_discovery"}),
  Rule("LOW", "T1135", {"share_discovery"}),
  Rule("LOW", "T1018", {"remote_system_discovery"}),
  Rule("LOW", "T1217", {"bookmarks"}),
  Rule("LOW", "T1012", {"query_registry"}) >>

detectCredentialAccessAdditional == <<
  Rule("CRITICAL", "T1558.001", {"4624", "krbtgt"}),
  Rule("HIGH", "T1040", {"sniffing"}),
  Rule("HIGH", "T1555", {"password_store"}),
  Rule("HIGH", "T1552", {"credential_files"}),
  Rule("MEDIUM", "T1606", {"forged_credentials"}) >>

detectLateralMovementAdditional == <<
  Rule("MEDIUM", "T1021.006", {"winrm"}),
  Rule("HIGH", "T1210", {"remote_exploit"}),
  Rule("MEDIUM", "T1021.004", {"ssh"}),
  Rule("MEDIUM", "T1080", {"shared_content"}),
  Rule("MEDIUM", "T1091", {"removable_copy"}),
  Rule("HIGH", "T1563.002", {"rdp_hijack"}),
  Rule("MEDIUM", "T1072", {"deployment_tool"}) >>

detectCommandAndControlAdditional == <<
  Rule("HIGH", "T1572", {"tunnel"}),
  Rule("HIGH", "T1090.003", {"anonymizer"}),
  Rule("LOW", "T1573.001", {"encryption_tool"}),
  Rule("MEDIUM", "T1105", {"tool_transfer"}),
  Rule("HIGH", "T1219", {"remote_access"}),
  Rule("HIGH", "T1095", {"raw_protocol"}),
  Rule("HIGH", "T1568.002", {"22", "generated_name"}),
  Rule("MEDIUM", "T1568.001", {"22", "suspicious_tld"}),
  Rule("MEDIUM", "T1102", {"web_service"}),
  Rule("MEDIUM", "T1092", {"removable_c2"}),
  Rule("MEDIUM", "T1205", {"port_knocking"}) >>

detectExfiltrationAdditional == <<
  Rule("HIGH", "T1020", {"automated_transfer"}),
  Rule("CRITICAL", "T1041", {"c2_upload"}),
  Rule("HIGH", "T1048", {"file_transfer"}),
  Rule("HIGH", "T1567", {"cloud_upload"}),
  Rule("MEDIUM", "T1052", {"physical_media"}),
  Rule("MEDIUM", "T1029", {"scheduled_transfer"}) >>

detectImpactAdditional == <<
  Rule("CRITICAL", "T1486", {"ransom_extension"}),
  Rule("CRITICAL", "T1486", {"backup_delete"}),
  Rule("HIGH", "T1489", {"service_stop"}),
  Rule("HIGH", "T1529", {"shutdown"}),
  Rule("CRITICAL", "T1485", {"destruction"}),
  Rule("CRITICAL", "T1561", {"disk_wipe"}),
  Rule("HIGH", "T1531", {"account_removal"}),
  Rule("MEDIUM", "T1499", {"endpoint_dos"}),
  Rule("MEDIUM", "T1491", {"defacement"}),
  Rule("LOW", "T1499.004", {"4740"}) >>

detectPrivilegeEscalationAdditional == <<
  Rule("CRITICAL", "T1134", {"token_privilege"}),
  Rule("CRITICAL", "T1068", {"privilege_exploit"}) >>

detectExecutionAdditional == <<
  Rule("HIGH", "T1203", {"client_exploit"}),
  Rule("MEDIUM", "T1204", {"user_execution"}),
  Rule("MEDIUM", "T1218.001", {"wmic", "process_call"}),
  Rule("HIGH", "T1218.009", {"msbuild"}),
  Rule("HIGH", "T1218.004", {"installutil"}) >>

detectInitialAccessAdditional == <<
  Rule("HIGH", "T1189", {"drive_by"}),
  Rule("HIGH", "T1190", {"public_application"}),
  Rule("MEDIUM", "T1133", {"external_access"}) >>

----------------------------------------------------------------------------
(* Detect *)

\* The functions Detect calls for a Sysmon event, in order.
SysmonChain(id) ==
  CASE id = "1" ->
         << detectProcessCreation, CollectionFromProcess, detectDiscovery,
            detectCredentialAccessAdditional, detectLateralMovementAdditional,
            detectCommandAndControlAdditional, detectExfiltrationAdditional,
            detectImpactAdditional, detectPrivilegeEscalationAdditional,
            detectExecutionAdditional, detectInitialAccessAdditional >>
    [] id = "3" -> << detectNetworkConnection >>
    [] id = "7" -> << detectImageLoad, CollectionFromImage >>
    [] id = "8" -> << detectRemoteThread >>
    [] id = "10" -> << detectProcessAccess >>
    [] id = "11" -> << detectFileCreate, CollectionFromFile >>
    [] id \in {"12", "13", "14"} -> << detectRegistryEvent >>
    [] id \in {"17", "18"} -> << detectPipeEvent >>
    [] id = "22" -> << detectDNSQuery, detectCommandAndControlAdditional >>
    [] id = "23" -> << detectFileDelete, detectImpactAdditional >>
    [] OTHER -> << >>

SecurityChain(id) ==
  CASE id = "4624" -> << detectLogonSuccess >>
    [] id = "4625" -> << detectLogonFailure >>
    [] id = "4648" -> << detectExplicitCredentials >>
    [] id = "4672" -> << detectPrivilegeAssignment >>
    [] id = "4688" -> << detectSecurityProcessCreation >>
    [] id = "4697" -> << detectServiceInstall >>
    [] id \in {"4698", "4702"} -> << detectScheduledTaskCreation >>
    [] id = "4720" -> << detectUserCreation >>
    [] id = "4732" -> << detectGroupMembership >>
    [] id = "4768" -> << detectKerberosTGT >>
    [] id = "4769" -> << detectKerberosServiceTicket >>
    [] id = "4776" -> << detectNTLMAuth >>
    [] id \in {"4778", "4779"} -> << detectRDPSession >>
    [] id = "5140" -> << detectShareAccess >>
    [] OTHER -> << >>

SystemChain(id) ==
  CASE id = "7045" -> << detectSystemServiceInstall >>
    [] id = "7036" -> << detectServiceStateChange >>
    [] id = "104" -> << detectLogCleared >>
    [] OTHER -> << >>

Chain(e) ==
  CASE e.source = "sysmon" -> SysmonChain(e.id)
    [] e.source = "security" -> SecurityChain(e.id)
    [] e.source = "system" -> SystemChain(e.id)
    [] OTHER -> << >>

\* Mutant of Deciding: no early return, the last function's result stays.
DecidingLast(chain, e) == {Len(chain)} \cap DOMAIN chain

\* "if result.MitreTechnique != "" { return result }" before the next function: where
\* one of the functions returns.
Deciding(chain, e) == {i \in DOMAIN chain : FirstRule(chain[i], e).technique # NoTechnique}

\* A function with no technique leaves what the next one returns; the last one leaves
\* Nothing, as no rule is without a technique.
DetectEvent(e) ==
  LET chain == Chain(e)
      deciding == Deciding(chain, e)
  IN  IF deciding = {} THEN Nothing ELSE FirstRule(chain[Min(deciding)], e)

----------------------------------------------------------------------------
(* Events *)

SysmonID == {"1", "3", "7", "8", "10", "11", "12", "13", "14", "17", "18", "22", "23"}
SecurityID == {"4624", "4625", "4648", "4672", "4688", "4697", "4698", "4702", "4720", "4732", "4740",
               "4768", "4769", "4776", "4778", "4779", "5140"}
SystemID == {"7045", "7036", "104"}
EventID == SysmonID \cup SecurityID \cup SystemID

LogSource(id) ==
  IF id \in SysmonID THEN "sysmon" ELSE IF id \in SecurityID THEN "security" ELSE "system"

\* Signs read from QueryName, a field of event 22 only (web_service also from the
\* command line), and from TargetFilename, a field of events 11 and 23; the other
\* signs of those functions come from the command line, a field of event 1.
QueryNameSign == {"bad_domain", "long_label", "generated_name", "suspicious_tld", "web_service"}
FileNameSign == {"security_tool_file", "ransom_extension", "physical_media"}

\* Signs of System events read from ServiceName and ServiceFileName. The agent fills them from the data of
\* those names only (source_side/ULS_Agent.ps1:695-698): an event 4697 has both, 7045 has
\* its file in ImagePath, and 7036 calls its service param1.
ServiceSign == {"new_service_file", "defender_service"}

CanShow(id, signs) ==
  /\ id = "22" => signs \subseteq QueryNameSign
  /\ id = "23" => signs \subseteq FileNameSign
  /\ id = "1" => signs \cap (FileNameSign \cup (QueryNameSign \ {"web_service"})) = {}
  /\ id \in SystemID => signs \cap ServiceSign = {}

\* Patterns whose every match is a match of other patterns too: for each way of
\* matching, the signs that come with it.
Entailed(sign) ==
  CASE sign = "cobalt_strike_pipe" -> {{"malicious_pipe"}}
    [] sign = "remote_system_discovery" -> {{"share_discovery"}, {"account_discovery"}, {"service_scanning"}}
    [] sign = "removable_c2" -> {{"removable_copy"}}
    [] sign \in {"suspicious_port", "web_port"} -> {{"port"}}
    [] sign = "user32" -> {{"graphics_dll"}}
    [] sign = "shell_image" -> {{"hooking_image"}}
    [] OTHER -> {{}}

\* The signs of an event that shows what rule r needs and nothing else.
Shows(r) ==
  LET signs == r.needs \ EventID
      Ways == {way \in [signs -> UNION {Entailed(s) : s \in signs}] : \A s \in signs : way[s] \in Entailed(s)}
  IN  {signs \cup UNION {way[s] : s \in signs} : way \in Ways}

RulesFor(id) ==
  LET chain == Chain([source |-> LogSource(id), id |-> id])
  IN  UNION {{chain[i][j] : j \in DOMAIN chain[i]} : i \in DOMAIN chain}

DetectorInit ==
  /\ \E id \in EventID : \E r \in RulesFor(id) : \E signs \in Shows(r) :
       /\ CanShow(id, r.needs \ EventID)
       /\ target = r
       /\ event = [source |-> LogSource(id), id |-> id, signs |-> signs]
  /\ verdict = Unknown

Detect ==
  /\ verdict = Unknown
  /\ verdict' = DetectEvent(event)
  /\ UNCHANGED <<event, target>>

----------------------------------------------------------------------------
(* Properties *)

\* Rules that can decide no event: two ask for a Security event but belong to
\* functions only called for Sysmon ones, three are patterns with a capital letter,
\* three only match what an earlier rule matches too, and two read a field that the
\* agent leaves empty in their events.
Unreachable == {{"4624", "krbtgt"}, {"4740"},
                {"removable_media"}, {"staged_file"}, {"physical_media"},
                {"cobalt_strike_pipe"}, {"remote_system_discovery"}, {"removable_c2"},
                {"new_service_file"}, {"defender_service"}}

\* An event that shows the signs of one rule of the functions Detect calls for it
\* is reported as that rule says, with its severity and its technique: no rule is
\* dead behind another one or behind a later function's result, but for those above.
RulesAreReachable ==
  verdict # Unknown /\ target.needs \notin Unreachable => verdict = target
=============================================================================
