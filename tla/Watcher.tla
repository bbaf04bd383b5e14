-------------------------------- MODULE Watcher --------------------------------
(***************************************************************************)
(* internal/llmwatcher: the poll goroutine reads the rows of (lastPoll,    *)
(* tick] from security_events and firewall_events, has the LLM judge them  *)
(* (or passes the rules' severity through), and hands the result over a    *)
(* bounded channel to the writer goroutine, which inserts it in            *)
(* llm_pass_1.                                                             *)
(*                                                                         *)
(* Time is counted in poll periods: a row with timestamp k happened in     *)
(* (k-1, k], and the tick sent at time k asks for rows up to k.  A row     *)
(* becomes visible when detection has inserted it, which is later.         *)
(***************************************************************************)
EXTENDS CircuitBreaker, Sequences, FiniteSets

CONSTANTS
  Event,          \* rows of the two tables that pass the severity filter
  SourceOf,       \* "windows" or "firewall"
  Fingerprints,   \* per row, the fingerprints it may turn out to have
  RuleSeverity,   \* 1 LOW, 2 MEDIUM, 3 HIGH, 4 CRITICAL
  Verdicts,       \* what the LLM may answer: 0 INFO, 2 MEDIUM (warning), 4 CRITICAL
  LLM,            \* TRUE: OLLAMA_URL is set
  MaxBatchSize,
  OutChanBuffer,
  MaxTime,        \* bound: poll periods
  MaxLag,         \* bound: periods between a row's timestamp and its insertion
  MaxDbFaults     \* bound: failing statements

Source == {"windows", "firewall"}
NoTick == 0

ASSUME WatcherAssumption ==
  /\ Caller = Source
  /\ SourceOf \in [Event -> Source]
  /\ DOMAIN Fingerprints = Event /\ \A e \in Event : Fingerprints[e] # {}
  /\ RuleSeverity \in [Event -> 1..4]
  /\ Verdicts \subseteq {0, 2, 4}
  /\ LLM \in BOOLEAN
  /\ MaxBatchSize \in Nat \ {0}
  /\ OutChanBuffer \in Nat \ {0}
  /\ MaxTime \in Nat /\ MaxLag \in Nat /\ MaxDbFaults \in Nat

VARIABLES
  now,
  visible,     \* rows detection has inserted
  stamp,       \* their timestamps
  looks,       \* their fingerprints: what dedupByFingerprint compares
  tick,        \* the ticker's channel, one place
  poller,      \* where the poll goroutine is
  lastPoll,    \* w.lastPoll
  from,        \* windowStart of the window being processed
  inputs,      \* its rows, by source
  llmEnabled,
  verdict,     \* the severity that stands for each source's rows
  passthrough, \* whether that came from mergePassthrough
  out,         \* w.out
  writer,      \* where the writer goroutine is
  hand,        \* the batch it is inserting
  table,       \* llm_pass_1
  cancelled,   \* Stop() was called
  dbFaults,
  \* History
  onTime,      \* rows inserted before lastPoll reached their timestamp
  read,        \* rows fetched, by source
  missed,      \* rows left out by a failing fetch or by LIMIT
  capped,      \* rows beyond the cap
  dropped,     \* rows of windows dropped on a full channel or a failed INSERT
  sentLate     \* rows put into out after Stop() was called

clockVars == <<now, visible, stamp, looks, tick, onTime>>
pollVars == <<poller, lastPoll, from, inputs, llmEnabled, verdict, passthrough, read,
              missed, capped>>
writeVars == <<out, writer, hand, table, dropped, sentLate>>
vars == <<clockVars, pollVars, writeVars, breakerVars, cancelled, dbFaults>>

Severity == 0..4
Row == [event : Event, ts : Nat, llm : BOOLEAN, sev : Severity, pass : BOOLEAN]

TypeOK ==
  /\ BreakerTypeOK
  /\ now \in 0..MaxTime
  /\ visible \subseteq Event
  /\ stamp \in [Event -> 0..MaxTime + 1]
  /\ \A e \in Event : looks[e] \in Fingerprints[e]
  /\ tick \in 0..MaxTime
  /\ poller \in {"wait", "fetchWindows", "fetchFirewall", "available", "infer", "send", "exit"}
  /\ lastPoll \in 0..MaxTime
  /\ from \in 0..MaxTime
  /\ inputs \in [Source -> SUBSET Event]
  /\ llmEnabled \in BOOLEAN
  /\ verdict \in [Source -> Severity]
  /\ passthrough \in [Source -> BOOLEAN]
  /\ out \in Seq(SUBSET Row) /\ Len(out) <= OutChanBuffer
  /\ writer \in {"run", "insert", "drain", "drainInsert", "exit"}
  /\ hand \subseteq Row
  /\ table \subseteq Row
  /\ cancelled \in BOOLEAN
  /\ dbFaults \in 0..MaxDbFaults
  /\ onTime \subseteq Event /\ read \subseteq Event /\ missed \subseteq Event
  /\ capped \subseteq Event /\ dropped \subseteq Event /\ sentLate \subseteq Event

Init ==
  /\ BreakerInit
  /\ now = 0 /\ visible = {} /\ stamp = [e \in Event |-> 0] /\ tick = NoTick
  /\ looks = [e \in Event |-> CHOOSE k \in Fingerprints[e] : TRUE]
  /\ poller = "wait" /\ lastPoll = 0 /\ from = 0
  /\ inputs = [s \in Source |-> {}]
  /\ llmEnabled = FALSE
  /\ verdict = [s \in Source |-> 0]
  /\ passthrough = [s \in Source |-> FALSE]
  /\ out = <<>> /\ writer = "run" /\ hand = {} /\ table = {}
  /\ cancelled = FALSE /\ dbFaults = 0
  /\ onTime = {} /\ read = {} /\ missed = {} /\ capped = {} /\ dropped = {} /\ sentLate = {}

----------------------------------------------------------------------------
(* Time, detection, Stop() *)

\* The ticker drops a tick when the last one was not taken.
Advance ==
  /\ now < MaxTime
  /\ now' = now + 1
  /\ tick' = IF tick = NoTick THEN now' ELSE tick
  /\ UNCHANGED <<visible, stamp, looks, onTime, pollVars, writeVars, breakerVars, cancelled, dbFaults>>

\* security_events.timestamp is the agent's time: the INSERT comes later.
Insert(e) ==
  /\ e \notin visible
  /\ visible' = visible \cup {e}
  /\ \E k \in Fingerprints[e] : looks' = [looks EXCEPT ![e] = k]
  /\ \E t \in 1..now + 1 :
       /\ t + MaxLag >= now + 1
       /\ stamp' = [stamp EXCEPT ![e] = t]
       /\ onTime' = IF t > lastPoll THEN onTime \cup {e} ELSE onTime
  /\ UNCHANGED <<now, tick, pollVars, writeVars, breakerVars, cancelled, dbFaults>>

Stop ==
  /\ ~cancelled
  /\ cancelled' = TRUE
  /\ UNCHANGED <<clockVars, pollVars, writeVars, breakerVars, dbFaults>>

----------------------------------------------------------------------------
(* The poll goroutine *)

PollExit ==
  /\ poller = "wait" /\ cancelled
  /\ poller' = "exit"
  /\ UNCHANGED <<clockVars, lastPoll, from, inputs, llmEnabled, verdict, passthrough, read,
                 missed, capped, writeVars, breakerVars, cancelled, dbFaults>>

\* processWindow begins: the watermark moves before anything is read.
Poll ==
  /\ poller = "wait" /\ tick # NoTick
  /\ tick' = NoTick
  /\ from' = lastPoll
  /\ lastPoll' = tick
  /\ poller' = "fetchWindows"
  /\ UNCHANGED <<now, visible, stamp, looks, onTime, inputs, llmEnabled, verdict, passthrough,
                 read, missed, capped, writeVars, breakerVars, cancelled, dbFaults>>

\* Mutant of InWindow: timestamp >= $1.
InClosedWindow(e) == from <= stamp[e] /\ stamp[e] <= lastPoll

\* Mutant of InWindow: timestamp < $2.
InOpenWindow(e) == from < stamp[e] /\ stamp[e] < lastPoll

\* timestamp > $1 AND timestamp <= $2
InWindow(e) == from < stamp[e] /\ stamp[e] <= lastPoll

\* The n oldest members of S (all of them when there are fewer).
Oldest(S, n) ==
  {T \in SUBSET S :
     /\ Cardinality(T) = IF Cardinality(S) < n THEN Cardinality(S) ELSE n
     /\ \A e \in T, f \in S \ T : stamp[e] <= stamp[f]}

\* dedupByFingerprint: of the members of S that look alike, the oldest.
Firsts(S) ==
  {T \in SUBSET S :
     \A e \in S : \E f \in T :
       /\ looks[f] = looks[e] /\ stamp[f] <= stamp[e]
       /\ \A g \in T : looks[g] = looks[e] => g = f}

\* A fetch of source s that returns R: deduplicated and capped (which the code
\* does after both fetches; nothing comes in between).
Take(s, R) ==
  /\ read' = read \cup R
  /\ missed' = missed \cup ({e \in visible : SourceOf[e] = s /\ InWindow(e)} \ R)
  /\ \E D \in Firsts(R) : \E K \in Oldest(D, MaxBatchSize) :
       /\ inputs' = [inputs EXCEPT ![s] = K]
       /\ capped' = capped \cup (D \ K)

\* The SELECT of source s.  It may fail, at once, half way, or because of
\* Stop(): what was read so far is used, the rest is never asked for again.
Fetch(s) ==
  LET matching == {e \in visible : SourceOf[e] = s /\ InWindow(e)} IN
  \/ /\ ~cancelled
     /\ \E R \in Oldest(matching, 4 * MaxBatchSize) : Take(s, R)
     /\ UNCHANGED dbFaults
  \/ /\ IF cancelled THEN UNCHANGED dbFaults
        ELSE dbFaults < MaxDbFaults /\ dbFaults' = dbFaults + 1
     /\ \E R \in SUBSET matching : Take(s, R)

FetchWindows ==
  /\ poller = "fetchWindows"
  /\ Fetch("windows")
  /\ poller' = "fetchFirewall"
  /\ UNCHANGED <<clockVars, lastPoll, from, llmEnabled, verdict, passthrough, writeVars,
                 breakerVars, cancelled>>

\* processWindow returns: its locals are gone.
Return ==
  /\ poller' = "wait"
  /\ from' = 0
  /\ llmEnabled' = FALSE
  /\ verdict' = [s \in Source |-> 0]
  /\ passthrough' = [s \in Source |-> FALSE]

\* Mutant of FetchFirewall: processWindow returns when the second fetch fails.
FetchFirewallFailReturns ==
  /\ poller = "fetchFirewall"
  /\ Fetch("firewall")
  /\ IF inputs' = [s \in Source |-> {}] \/ dbFaults' # dbFaults
       THEN Return
       ELSE poller' = "available" /\ UNCHANGED <<from, llmEnabled, verdict, passthrough>>
  /\ UNCHANGED <<clockVars, lastPoll, writeVars, breakerVars, cancelled>>

\* With nothing read in either table processWindow returns.
FetchFirewall ==
  /\ poller = "fetchFirewall"
  /\ Fetch("firewall")
  /\ IF inputs' = [s \in Source |-> {}]
       THEN Return
       ELSE poller' = "available" /\ UNCHANGED <<from, llmEnabled, verdict, passthrough>>
  /\ UNCHANGED <<clockVars, lastPoll, writeVars, breakerVars, cancelled>>

\* mergePassthrough: HIGH and CRITICAL become "Critical", LOW and MEDIUM
\* "Warning"; the worst one stands for all, as CRITICAL or MEDIUM.
MergePassthrough(S) ==
  IF \E e \in S : RuleSeverity[e] >= 3 THEN 4 ELSE IF S # {} THEN 2 ELSE 0

\* IsAvailable decides between the LLM and passthrough.
Available ==
  /\ poller = "available"
  /\ \E available \in BOOLEAN :
       /\ IF LLM THEN IsAvailable(now, available)
                 ELSE ~available /\ UNCHANGED <<failures, openUntil>>
       /\ llmEnabled' = available
       /\ IF available
            THEN /\ call' = [s \in Source |-> IF inputs[s] = {} THEN "none" ELSE "check"]
                 /\ UNCHANGED <<verdict, passthrough>>
                 /\ poller' = "infer"
            ELSE /\ verdict' = [s \in Source |-> MergePassthrough(inputs[s])]
                 /\ passthrough' = [s \in Source |-> TRUE]
                 /\ poller' = "send"
                 /\ UNCHANGED call
  /\ UNCHANGED <<clockVars, lastPoll, from, inputs, read, missed, capped, writeVars,
                 cancelled, dbFaults>>

\* A step of one of the two goroutines inside Analyze.
Infer(s) ==
  /\ poller = "infer"
  /\ Analyze(s, now)
  /\ UNCHANGED <<clockVars, pollVars, writeVars, cancelled, dbFaults>>

\* wg.Wait(): each source has an answer, or passthrough after any error.
Join ==
  /\ poller = "infer"
  /\ \A s \in Source : call[s] \in Returned
  /\ \E answer \in [Source -> Verdicts] :
       verdict' = [s \in Source |->
                     CASE At(s, "answer") -> answer[s]
                       [] At(s, "error") -> MergePassthrough(inputs[s])
                       [] OTHER -> 0]
  /\ passthrough' = [s \in Source |-> At(s, "error")]
  /\ call' = [s \in Source |-> "none"]
  /\ poller' = "send"
  /\ UNCHANGED <<clockVars, lastPoll, from, inputs, llmEnabled, read, missed, capped,
                 writeVars, failures, openUntil, cancelled, dbFaults>>

\* buildPassRows for both sources: every row of a source gets its verdict.
PassRows ==
  {[event |-> e, ts |-> from, llm |-> llmEnabled, sev |-> verdict[SourceOf[e]],
    pass |-> passthrough[SourceOf[e]]] : e \in inputs["windows"] \cup inputs["firewall"]}

\* Mutant of Send: the send blocks while the channel is full.
SendBlocks ==
  /\ poller = "send"
  /\ Len(out) < OutChanBuffer
  /\ out' = Append(out, PassRows)
  /\ UNCHANGED <<dropped, sentLate>>
  /\ Return
  /\ inputs' = [s \in Source |-> {}]
  /\ UNCHANGED <<clockVars, lastPoll, read, missed, capped, writer, hand, table,
                 breakerVars, cancelled, dbFaults>>

\* A full channel drops the window: the poll goroutine never blocks.
Send ==
  /\ poller = "send"
  /\ IF Len(out) < OutChanBuffer
       THEN /\ out' = Append(out, PassRows)
            /\ sentLate' = sentLate \cup {r.event : r \in IF cancelled THEN PassRows ELSE {}}
            /\ UNCHANGED dropped
       ELSE UNCHANGED <<out, sentLate>> /\ dropped' = dropped \cup {r.event : r \in PassRows}
  /\ Return
  /\ inputs' = [s \in Source |-> {}]
  /\ UNCHANGED <<clockVars, lastPoll, read, missed, capped, writer, hand, table,
                 breakerVars, cancelled, dbFaults>>

----------------------------------------------------------------------------
(* The writer goroutine *)

\* <-w.out, in the loop or while draining.
TakeBatch ==
  /\ writer \in {"run", "drain"}
  /\ out # <<>>
  /\ hand' = Head(out)
  /\ out' = Tail(out)
  /\ writer' = IF writer = "run" THEN "insert" ELSE "drainInsert"
  /\ UNCHANGED <<clockVars, pollVars, breakerVars, table, dropped, sentLate, cancelled, dbFaults>>

\* The loop sees ctx.Done(): drain what is there.
BeginDrain ==
  /\ writer = "run" /\ cancelled
  /\ writer' = "drain"
  /\ UNCHANGED <<clockVars, pollVars, breakerVars, out, hand, table, dropped, sentLate, cancelled, dbFaults>>

DrainDone ==
  /\ writer = "drain" /\ out = <<>>
  /\ writer' = "exit"
  /\ UNCHANGED <<clockVars, pollVars, breakerVars, out, hand, table, dropped, sentLate, cancelled, dbFaults>>

\* flushRows.  The loop's context dies with Stop(), the drain's does not.
FlushRows ==
  /\ writer \in {"insert", "drainInsert"}
  /\ \/ /\ writer = "insert" => ~cancelled
        /\ table' = table \cup hand
        /\ UNCHANGED <<dropped, dbFaults>>
     \/ /\ IF writer = "insert" /\ cancelled THEN UNCHANGED dbFaults
           ELSE dbFaults < MaxDbFaults /\ dbFaults' = dbFaults + 1
        /\ dropped' = dropped \cup {r.event : r \in hand}
        /\ UNCHANGED table
  /\ hand' = {}
  /\ UNCHANGED sentLate
  /\ writer' = IF writer = "insert" THEN "run" ELSE "drain"
  /\ UNCHANGED <<clockVars, pollVars, breakerVars, out, cancelled>>

----------------------------------------------------------------------------

Next ==
  \/ Advance \/ Stop
  \/ \E e \in Event : Insert(e)
  \/ PollExit \/ Poll \/ FetchWindows \/ FetchFirewall \/ Available
  \/ \E s \in Source : Infer(s)
  \/ Join \/ Send
  \/ TakeBatch \/ BeginDrain \/ DrainDone \/ FlushRows

Spec == Init /\ [][Next]_vars

(***************************************************************************)
(* Fairness: both goroutines are scheduled, statements and requests return *)
(* (the LLM call has a timeout), and select picks at random among its      *)
(* ready cases, so ctx.Done() is taken in the end (SF).                    *)
(***************************************************************************)
Fairness ==
  /\ SF_vars(PollExit) /\ WF_vars(FetchWindows) /\ WF_vars(FetchFirewall)
  /\ WF_vars(Available) /\ WF_vars(Join) /\ WF_vars(Send)
  /\ \A s \in Source : WF_vars(Infer(s))
  /\ SF_vars(BeginDrain) /\ WF_vars(TakeBatch) /\ WF_vars(DrainDone) /\ WF_vars(FlushRows)

FairSpec == Spec /\ Fairness

----------------------------------------------------------------------------
(* Properties *)

\* The windows are disjoint: a row of the event tables is enriched at most
\* once, whatever ticks are dropped or served late.
PassedOnce ==
  \A e \in Event :
    /\ Cardinality({r \in table : r.event = e}) <= 1
    /\ (\E r \in table : r.event = e) => \A i \in 1..Len(out) : \A r \in out[i] : r.event # e

\* The windows leave no gap: a row that was inserted before the watermark
\* passed its timestamp is read, or its SELECT failed or hit its LIMIT.
OnTimeIsRead ==
  \A e \in onTime :
    stamp[e] <= lastPoll /\ poller \notin {"fetchWindows", "fetchFirewall"}
      => e \in read \cup missed

Processing(e) ==
  \/ poller \notin {"wait", "exit"} /\ e \in inputs[SourceOf[e]]
  \/ \E r \in hand : r.event = e
  \/ \E i \in 1..Len(out) : \E r \in out[i] : r.event = e

\* A row that was read reaches llm_pass_1, itself or through a look-alike of
\* its source, unless it was capped or its window was dropped; what the writer
\* leaves in the channel when it exits was sent there after Stop(); and passthrough
\* never plays a row down: final_severity is at least what the rules gave.
ReadIsAccounted ==
  /\ \A e \in read : \E f \in read :
       /\ SourceOf[f] = SourceOf[e] /\ looks[f] = looks[e]
       /\ \/ \E r \in table : r.event = f
          \/ Processing(f)
          \/ f \in capped \cup dropped
  /\ writer = "exit" => \A i \in 1..Len(out) : \A r \in out[i] : r.event \in sentLate
  /\ \A r \in table : r.pass => r.sev >= RuleSeverity[r.event]

\* Once every call of a window has returned, a breaker that counted enough
\* failures is open: the two goroutines' unlocked updates cannot leave it
\* counted out and closed.
CountedOutIsOpen ==
  (\A s \in Source : call[s] \in Returned) /\ failures >= Threshold => openUntil # 0

\* Stop() returns: both goroutines come to an end.
StopEnds == cancelled ~> (poller = "exit" /\ writer = "exit")

\* "Pulls new rows from security_events (Windows), firewall_events" (README.md
\* section 4.5): no inserted row is left behind the watermark unread.
NoRowLeftBehind ==
  \A e \in visible :
    stamp[e] <= lastPoll /\ poller \notin {"fetchWindows", "fetchFirewall"}
      => e \in read \cup missed
=============================================================================
