---------------------------- MODULE SyslogParser ----------------------------
(***************************************************************************)
(* internal/syslogreceiver/parser.go: which lines Normalize turns into a   *)
(* firewall event, and what it finds in them.  A line is what the parser   *)
(* tells apart; the values of its fields are left out.                     *)
(***************************************************************************)

\* header: what precedes the body - nothing, "<PRI>" and two words, an RFC 3164 or an
\* RFC 5424 header; cef: the body is a CEF line, with its seven header fields or cut
\* short; equals: there is a "=" in it; pairs: there is a key=value with a value.
Line ==
  {l \in [header : {"none", "words", "rfc3164", "rfc5424"}, blank : BOOLEAN,
          cef : {"no", "full", "short"}, equals : BOOLEAN, pairs : BOOLEAN] :
     /\ l.pairs => l.equals
     /\ l.blank => l.header = "none" /\ l.cef = "no" /\ ~l.equals}

\* Two words are cut off behind "<PRI>", or six behind a version number: the body
\* comes first only when the header is no longer than that.
stripSyslogHeader(l) == l.header \in {"none", "words"}

parseKV(l) == IF l.pairs THEN {"pairs"} ELSE {}

parseCEF(l) == IF l.cef = "full" THEN {"cef"} \cup parseKV(l) ELSE {}

\* The fields of a line that is not blank.
Fields(l) ==
  CASE l.cef # "no" /\ stripSyslogHeader(l) -> parseCEF(l)
    [] (l.cef = "no" \/ ~stripSyslogHeader(l)) /\ l.equals -> parseKV(l)
    [] OTHER -> {"message"}

\* Normalize's second result.
Normalize(l) == ~l.blank /\ Fields(l) # {}
=============================================================================
