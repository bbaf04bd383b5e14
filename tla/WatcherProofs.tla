---------------------------- MODULE WatcherProofs ----------------------------
(***************************************************************************)
(* Proofs about the LLM watcher: its windows, its two goroutines and the   *)
(* breaker they share.  None of the invariants the runs check is           *)
(* inductive.  What carries them: the ticks only move forward (Clock),     *)
(* so the rows of the window being processed (InputsOfWindow) are none of  *)
(* those of an earlier one, wherever these are now (RowsApart).            *)
(***************************************************************************)
EXTENDS Watcher, FiniteSetTheorems, TLAPS

Busy == poller \notin {"wait", "exit"}

ClockOK ==
  /\ now \in 0..MaxTime
  /\ visible \subseteq Event
  /\ stamp \in [Event -> 0..MaxTime + 1]
  /\ tick \in 0..MaxTime
  /\ onTime \subseteq Event

LooksOK ==
  /\ looks \in [Event -> UNION {Fingerprints[e] : e \in Event}]
  /\ \A e \in Event : looks[e] \in Fingerprints[e]

PollOK ==
  /\ poller \in {"wait", "fetchWindows", "fetchFirewall", "available", "infer", "send", "exit"}
  /\ lastPoll \in 0..MaxTime
  /\ from \in 0..MaxTime
  /\ inputs \in [Source -> SUBSET Event]
  /\ read \subseteq Event /\ missed \subseteq Event /\ capped \subseteq Event

AnswerOK ==
  /\ llmEnabled \in BOOLEAN
  /\ verdict \in [Source -> Severity]
  /\ passthrough \in [Source -> BOOLEAN]

WriteOK ==
  /\ out \in Seq(SUBSET Row) /\ Len(out) <= OutChanBuffer
  /\ writer \in {"run", "insert", "drain", "drainInsert", "exit"}
  /\ hand \subseteq Row
  /\ table \subseteq Row
  /\ dropped \subseteq Event /\ sentLate \subseteq Event

StopOK == cancelled \in BOOLEAN /\ dbFaults \in 0..MaxDbFaults

Types == ClockOK /\ LooksOK /\ PollOK /\ AnswerOK /\ WriteOK /\ StopOK /\ BreakerTypeOK

\* A tick asks for later rows than the one before it.
Clock ==
  /\ tick # NoTick => lastPoll < tick /\ tick <= now
  /\ lastPoll <= now
  /\ Busy => from < lastPoll

\* Up to where the rows of a source have been asked for.
Horizon(s) ==
  IF poller = "fetchWindows" \/ (poller = "fetchFirewall" /\ s = "firewall") THEN from ELSE lastPoll

SeenInTime ==
  /\ onTime \subseteq visible
  /\ \A e \in onTime : stamp[e] <= Horizon(SourceOf[e]) => e \in read \cup missed

InputsOfWindow ==
  /\ \A s \in Source : \A e \in inputs[s] : e \in visible /\ e \in read /\ SourceOf[e] = s /\ InWindow(e)
  /\ ~Busy \/ poller = "fetchWindows" => \A s \in Source : inputs[s] = {}
  /\ poller = "fetchFirewall" => inputs["firewall"] = {}
  /\ read \subseteq visible

\* What is in a row's place was fetched in an earlier window than the current one,
\* no two rows of a place are about the same event, nor are those of two places.
Before == IF Busy THEN from ELSE lastPoll
Old(S) == \A r \in S : r.event \in visible /\ stamp[r.event] <= Before
OneRow(S) == \A r, q \in S : r.event = q.event => r = q
Apart(S, T) == \A r \in S, q \in T : r.event # q.event

RowsApart ==
  /\ Old(table) /\ Old(hand) /\ OneRow(table) /\ OneRow(hand) /\ Apart(table, hand)
  /\ \A i \in DOMAIN out : Old(out[i]) /\ OneRow(out[i]) /\ Apart(table, out[i]) /\ Apart(hand, out[i])
  /\ \A i, j \in DOMAIN out : i # j => Apart(out[i], out[j])

Accounted(f) == (\E r \in table : r.event = f) \/ Processing(f) \/ f \in capped \cup dropped

ReadLeads ==
  \A e \in read : \E f \in read : SourceOf[f] = SourceOf[e] /\ looks[f] = looks[e] /\ Accounted(f)

LateIsLate ==
  /\ writer \in {"drain", "drainInsert", "exit"} => cancelled
  /\ writer = "exit" => \A i \in DOMAIN out : \A r \in out[i] : r.event \in sentLate

NotDown(S) == \A r \in S : r.pass => r.sev >= RuleSeverity[r.event]

NeverDown ==
  /\ NotDown(table) /\ NotDown(hand) /\ \A i \in DOMAIN out : NotDown(out[i])
  /\ poller = "send" => \A s \in Source : passthrough[s] => \A e \in inputs[s] : verdict[s] >= RuleSeverity[e]

HandHeld == writer \notin {"insert", "drainInsert"} => hand = {}

CallsIdle == poller # "infer" => \A s \in Source : call[s] = "none"

\* A breaker that is counted out and closed is about to be opened, or to be reset.
CountedOut ==
  failures >= Threshold /\ openUntil = 0 => \E c \in Caller : call[c] \in {"open", "resetCount", "succeeded"}

\* Between the two stores of RecordSuccess only the other caller's one failure is counted.
Closing ==
  \A c \in Caller : call[c] = "close" =>
    /\ failures <= 1
    /\ \A d \in Caller : call[d] \in {"check", "reset", "resetCount", "request", "failed"} => failures = 0

WatcherInv ==
  /\ Types /\ Clock /\ SeenInTime /\ InputsOfWindow /\ RowsApart /\ ReadLeads /\ LateIsLate
  /\ NeverDown /\ HandHeld /\ CallsIdle /\ CountedOut /\ Closing

LEMMA SplitTypes == WatcherInv => TypeOK
BY Zenon DEF WatcherInv, Types, ClockOK, LooksOK, PollOK, AnswerOK, WriteOK, StopOK, TypeOK

LEMMA WatcherMade == Init => WatcherInv
<1> SUFFICES ASSUME Init PROVE WatcherInv
  OBVIOUS
<1> USE WatcherAssumption DEF WatcherAssumption, Init, BreakerInit
<1>1. ClockOK /\ PollOK
  BY DEF ClockOK, PollOK, NoTick
<1>a. StopOK
  <2>1. dbFaults \in 0..MaxDbFaults
    OBVIOUS
  <2>2. QED
    BY <2>1, Zenon DEF StopOK
<1>2. LooksOK
  BY DEF LooksOK
<1>b. AnswerOK
  <2>1. verdict \in [Source -> Severity]
    BY DEF Severity
  <2>2. passthrough \in [Source -> BOOLEAN]
    BY Zenon
  <2>3. QED
    BY <2>1, <2>2, Zenon DEF AnswerOK
<1>3. WriteOK
  BY DEF WriteOK
<1>4. BreakerTypeOK
  BY DEF BreakerTypeOK, CallPlaces
<1>5. Clock /\ SeenInTime /\ InputsOfWindow /\ RowsApart
  BY DEF Clock, Busy, NoTick, SeenInTime, InputsOfWindow, RowsApart, Old, OneRow, Apart
<1>6. ReadLeads /\ LateIsLate /\ NeverDown /\ HandHeld
  BY DEF ReadLeads, LateIsLate, NeverDown, NotDown, HandHeld
<1>7. CallsIdle /\ CountedOut /\ Closing
  BY BreakerAssumption DEF BreakerAssumption, CallsIdle, CountedOut, Closing
<1>8. QED
  BY <1>1, <1>a, <1>b, <1>2, <1>3, <1>4, <1>5, <1>6, <1>7 DEF Types, WatcherInv

----------------------------------------------------------------------------
(* Steps of the environment *)

\* Time passes or Stop() is called: no row moves.
LEMMA ClockStep ==
  ASSUME WatcherInv, Advance \/ Stop
  PROVE  WatcherInv'
<1> USE DEF WatcherInv, Types
<1>1. /\ UNCHANGED <<visible, stamp, looks, onTime>> /\ UNCHANGED pollVars /\ UNCHANGED writeVars
      /\ UNCHANGED breakerVars /\ dbFaults' = dbFaults
  BY DEF Advance, Stop, clockVars
<1>2. UNCHANGED <<poller, lastPoll, from, inputs, llmEnabled, verdict, passthrough, read, missed, capped>>
  BY <1>1 DEF pollVars
<1>3. UNCHANGED <<out, writer, hand, table, dropped, sentLate>>
  BY <1>1 DEF writeVars
<1>4. UNCHANGED <<failures, openUntil, call>>
  BY <1>1 DEF breakerVars
<1>5. ClockOK' /\ Clock'
  <2>1. MaxTime \in Nat
    BY WatcherAssumption DEF WatcherAssumption
  <2>2. \/ now' = now /\ tick' = tick
        \/ now < MaxTime /\ now' = now + 1 /\ (tick' = tick \/ (tick = NoTick /\ tick' = now'))
    BY DEF Advance, Stop, clockVars
  <2>3. lastPoll \in 0..MaxTime /\ from \in 0..MaxTime
    BY DEF PollOK
  <2>4. QED
    BY <1>1, <1>2, <2>1, <2>2, <2>3 DEF ClockOK, Clock, Busy, NoTick
<1>6. StopOK' /\ (cancelled => cancelled')
  <2>1. cancelled' = cancelled \/ cancelled' = TRUE
    BY DEF Advance, Stop
  <2>2. QED
    BY <1>1, <2>1, Zenon DEF StopOK
<1>7. LooksOK' /\ PollOK' /\ WriteOK'
  BY <1>1, <1>2, <1>3 DEF LooksOK, PollOK, WriteOK
<1>8. AnswerOK' /\ BreakerTypeOK'
  BY <1>2, <1>4 DEF AnswerOK, BreakerTypeOK
<1>9. SeenInTime' /\ InputsOfWindow' /\ RowsApart'
  BY <1>1, <1>2, <1>3
     DEF SeenInTime, Horizon, InputsOfWindow, Busy, InWindow, RowsApart, Old, Before, OneRow, Apart
<1>10. ReadLeads' /\ NeverDown' /\ HandHeld'
  BY <1>1, <1>2, <1>3 DEF ReadLeads, Accounted, Processing, NeverDown, NotDown, HandHeld
<1>11. LateIsLate'
  BY <1>3, <1>6 DEF LateIsLate
<1>12. CallsIdle' /\ CountedOut' /\ Closing'
  BY <1>2, <1>4 DEF CallsIdle, CountedOut, Closing
<1>13. QED
  BY <1>5, <1>6, <1>7, <1>8, <1>9, <1>10, <1>11, <1>12

\* A row becomes visible: what is already visible keeps its place and its time.
LEMMA InsertStep ==
  ASSUME WatcherInv, NEW x \in Event, Insert(x)
  PROVE  WatcherInv'
<1> USE DEF WatcherInv, Types
<1>1. PICK k \in Fingerprints[x], t \in 1..now + 1 :
        /\ x \notin visible /\ visible' = visible \cup {x}
        /\ looks' = [looks EXCEPT ![x] = k]
        /\ stamp' = [stamp EXCEPT ![x] = t]
        /\ onTime' = IF t > lastPoll THEN onTime \cup {x} ELSE onTime
  BY DEF Insert
<1>2. UNCHANGED <<now, tick, poller, lastPoll, from, inputs, llmEnabled, verdict, passthrough, read,
                  missed, capped>>
  BY DEF Insert, pollVars
<1>3. UNCHANGED <<out, writer, hand, table, dropped, sentLate>>
  BY DEF Insert, writeVars
<1>4. UNCHANGED <<failures, openUntil, call, cancelled, dbFaults>>
  BY DEF Insert, breakerVars
<1>5. now \in 0..MaxTime /\ MaxTime \in Nat /\ lastPoll \in 0..MaxTime /\ from \in 0..MaxTime /\ x \in Event
  BY WatcherAssumption DEF WatcherAssumption, ClockOK, PollOK
<1>6. ClockOK'
  BY <1>1, <1>2, <1>5 DEF ClockOK
<1>7. LooksOK'
  BY <1>1 DEF LooksOK
<1>8. PollOK' /\ WriteOK'
  BY <1>2, <1>3 DEF PollOK, WriteOK
<1>9. StopOK' /\ AnswerOK' /\ BreakerTypeOK'
  BY <1>2, <1>4 DEF StopOK, AnswerOK, BreakerTypeOK
<1>10. \A e \in visible : e \in Event /\ e # x /\ stamp'[e] = stamp[e] /\ looks'[e] = looks[e]
  BY <1>1 DEF ClockOK, LooksOK
<1>11. stamp'[x] = t /\ t > 0
  BY <1>1, <1>5 DEF ClockOK
<1>12. Clock'
  BY <1>2 DEF Clock, Busy
<1>13. SeenInTime'
  <2>1. \A e \in onTime : e \in visible
    BY DEF SeenInTime
  <2>2. t > lastPoll => t > Horizon(SourceOf[x])
    BY <1>5, <1>1 DEF Horizon, Clock, Busy
  <2>3. \A e \in Event : Horizon(SourceOf[e])' = Horizon(SourceOf[e])
    BY <1>2 DEF Horizon
  <2>4. x \in onTime' => stamp'[x] > Horizon(SourceOf[x])
    BY <1>1, <1>11, <2>1, <2>2
  <2>5. Horizon(SourceOf[x]) \in Nat /\ stamp'[x] \in Nat
    BY <1>5, <1>11, <1>1 DEF Horizon
  <2>6. onTime' \subseteq visible' /\ onTime' \subseteq onTime \cup {x}
    BY <1>1, <2>1
  <2>7. ASSUME NEW e \in onTime', stamp'[e] <= Horizon(SourceOf[e])'
        PROVE  e \in read \cup missed
    <3>1. e # x
      BY <1>5, <2>3, <2>4, <2>5, <2>7
    <3>2. e \in onTime /\ e \in visible
      BY <2>1, <2>6, <3>1
    <3>3. stamp[e] <= Horizon(SourceOf[e])
      BY <1>10, <2>3, <2>7, <3>2
    <3>4. QED
      BY <3>2, <3>3 DEF SeenInTime
  <2>8. QED
    BY <1>2, <2>6, <2>7 DEF SeenInTime
<1>14. InputsOfWindow'
  BY <1>1, <1>2, <1>10 DEF InputsOfWindow, Busy, InWindow
<1>15. RowsApart'
  <2>1. Old(table)' /\ Old(hand)' /\ \A i \in DOMAIN out' : Old(out[i])'
    BY <1>1, <1>2, <1>3, <1>10 DEF RowsApart, Old, Before, Busy
  <2>2. QED
    BY <1>3, <2>1 DEF RowsApart, OneRow, Apart
<1>16. ReadLeads'
  <2>1. read \subseteq visible
    BY DEF InputsOfWindow
  <2>2. QED
    BY <1>2, <1>3, <1>10, <2>1 DEF ReadLeads, Accounted, Processing
<1>17. NeverDown' /\ HandHeld' /\ LateIsLate'
  BY <1>2, <1>3, <1>4 DEF NeverDown, NotDown, HandHeld, LateIsLate
<1>18. CallsIdle' /\ CountedOut' /\ Closing'
  BY <1>2, <1>4 DEF CallsIdle, CountedOut, Closing
<1>19. QED
  BY <1>6, <1>7, <1>8, <1>9, <1>12, <1>13, <1>14, <1>15, <1>16, <1>17, <1>18

----------------------------------------------------------------------------
(* The poll goroutine *)

\* The watermark moves before anything is read: the next window begins where the last ended.
LEMMA PollStep ==
  ASSUME WatcherInv, PollExit \/ Poll
  PROVE  WatcherInv'
<1> USE DEF WatcherInv, Types
<1>1. /\ UNCHANGED <<now, visible, stamp, looks, onTime, inputs, llmEnabled, verdict, passthrough, read,
                     missed, capped, cancelled, dbFaults>>
      /\ poller = "wait"
  BY DEF PollExit, Poll, clockVars
<1>2. UNCHANGED <<out, writer, hand, table, dropped, sentLate>>
  BY DEF PollExit, Poll, writeVars
<1>3. UNCHANGED <<failures, openUntil, call>>
  BY DEF PollExit, Poll, breakerVars
<1>4. \/ poller' = "exit" /\ UNCHANGED <<tick, lastPoll, from>>
      \/ /\ poller' = "fetchWindows" /\ tick # NoTick /\ tick' = NoTick
         /\ from' = lastPoll /\ lastPoll' = tick
  BY DEF PollExit, Poll, clockVars
<1>5. tick \in 0..MaxTime /\ lastPoll \in 0..MaxTime /\ MaxTime \in Nat /\ now \in 0..MaxTime
  BY WatcherAssumption DEF WatcherAssumption, ClockOK, PollOK
<1>6. ClockOK' /\ LooksOK'
  BY <1>1, <1>4, <1>5 DEF ClockOK, LooksOK, NoTick
<1>7. PollOK'
  BY <1>1, <1>4, <1>5 DEF PollOK
<1>8. WriteOK' /\ AnswerOK'
  BY <1>1, <1>2 DEF WriteOK, AnswerOK
<1>9. StopOK' /\ BreakerTypeOK'
  BY <1>1, <1>3 DEF StopOK, BreakerTypeOK
<1>10. Clock'
  BY <1>1, <1>4, <1>5 DEF Clock, Busy, NoTick
<1>11. SeenInTime'
  BY <1>1, <1>4 DEF SeenInTime, Horizon
<1>12. InputsOfWindow'
  <2>1. \A s \in Source : inputs[s] = {}
    BY <1>1 DEF InputsOfWindow, Busy
  <2>2. "firewall" \in Source
    BY DEF Source
  <2>3. QED
    BY <1>1, <1>4, <2>1, <2>2 DEF InputsOfWindow, Busy
<1>13. RowsApart'
  <2>1. Before' = Before
    BY <1>1, <1>4 DEF Before, Busy
  <2>2. QED
    BY <1>1, <1>2, <2>1 DEF RowsApart, Old, OneRow, Apart
<1>14. ReadLeads'
  <2>1. \A f \in read : Accounted(f) => Accounted(f)'
    BY <1>1, <1>2 DEF Accounted, Processing
  <2>2. QED
    BY <1>1, <2>1 DEF ReadLeads
<1>15. NeverDown' /\ HandHeld' /\ LateIsLate'
  BY <1>1, <1>2, <1>4 DEF NeverDown, NotDown, HandHeld, LateIsLate
<1>16. CallsIdle' /\ CountedOut' /\ Closing'
  BY <1>1, <1>3, <1>4 DEF CallsIdle, CountedOut, Closing
<1>17. QED
  BY <1>6, <1>7, <1>8, <1>9, <1>10, <1>11, <1>12, <1>13, <1>14, <1>15, <1>16

\* What a SELECT of source s brings: some of the rows that match, of these one per
\* fingerprint, of these as many as the batch takes.
Matching(s) == {e \in visible : SourceOf[e] = s /\ InWindow(e)}

Brings(s, R, D, K) ==
  /\ \A e \in R : \E f \in D : looks[f] = looks[e]
  /\ inputs' = [inputs EXCEPT ![s] = K]
  /\ read' = read \cup R
  /\ missed' = missed \cup (Matching(s) \ R)
  /\ capped' = capped \cup (D \ K)

LEMMA FetchBrings ==
  ASSUME NEW s \in Source, Fetch(s)
  PROVE  \E R \in SUBSET Matching(s) : \E D \in SUBSET R : \E K \in SUBSET D : Brings(s, R, D, K)
<1>1. \E R \in SUBSET Matching(s) : Take(s, R)
  BY DEF Fetch, Oldest, Matching
<1>2. PICK R \in SUBSET Matching(s) : Take(s, R)
  BY <1>1
<1>3. PICK D \in Firsts(R) : \E K \in Oldest(D, MaxBatchSize) :
        inputs' = [inputs EXCEPT ![s] = K] /\ capped' = capped \cup (D \ K)
  BY <1>2 DEF Take
<1>7. PICK K \in Oldest(D, MaxBatchSize) :
        inputs' = [inputs EXCEPT ![s] = K] /\ capped' = capped \cup (D \ K)
  BY <1>3
<1>4. D \in SUBSET R /\ \A e \in R : \E f \in D : looks[f] = looks[e]
  BY <1>3 DEF Firsts
<1>5. K \in SUBSET D
  BY <1>7 DEF Oldest
<1>6. read' = read \cup R /\ missed' = missed \cup (Matching(s) \ R)
  BY <1>2 DEF Take, Matching
<1>8. QED
  BY <1>7, <1>4, <1>5, <1>6 DEF Brings

\* A row fetched is in the window, so not before it; the source fetched had no rows yet.
LEMMA FetchStep ==
  ASSUME WatcherInv, FetchWindows \/ FetchFirewall
  PROVE  WatcherInv'
<1> USE DEF WatcherInv, Types
<1>a. PICK s \in Source :
        /\ Fetch(s)
        /\ \/ s = "windows" /\ FetchWindows
           \/ s = "firewall" /\ FetchFirewall
  BY DEF FetchWindows, FetchFirewall, Source
<1>c. PICK R \in SUBSET Matching(s) : \E D \in SUBSET R : \E K \in SUBSET D : Brings(s, R, D, K)
  BY <1>a, FetchBrings
<1>d. PICK D \in SUBSET R : \E K \in SUBSET D : Brings(s, R, D, K)
  BY <1>c
<1>b. PICK K \in SUBSET D :
        /\ \A e \in R : \E f \in D : looks[f] = looks[e]
        /\ inputs' = [inputs EXCEPT ![s] = K]
        /\ read' = read \cup R
        /\ missed' = missed \cup (Matching(s) \ R)
        /\ capped' = capped \cup (D \ K)
  BY <1>d DEF Brings
<1>1. UNCHANGED <<now, visible, stamp, looks, tick, onTime, lastPoll, cancelled>>
  BY DEF FetchWindows, FetchFirewall, clockVars
<1>2. UNCHANGED <<out, writer, hand, table, dropped, sentLate>>
  BY DEF FetchWindows, FetchFirewall, writeVars
<1>3. UNCHANGED <<failures, openUntil, call>>
  BY DEF FetchWindows, FetchFirewall, breakerVars
<1>4. \/ /\ s = "windows" /\ poller = "fetchWindows" /\ poller' = "fetchFirewall"
         /\ UNCHANGED <<from, llmEnabled, verdict, passthrough>>
      \/ /\ s = "firewall" /\ poller = "fetchFirewall" /\ poller' = "available"
         /\ UNCHANGED <<from, llmEnabled, verdict, passthrough>>
      \/ /\ s = "firewall" /\ poller = "fetchFirewall" /\ Return
         /\ inputs' = [u \in Source |-> {}]
  BY <1>a DEF FetchWindows, FetchFirewall
<1>5. lastPoll \in 0..MaxTime /\ from \in 0..MaxTime /\ MaxTime \in Nat /\ inputs \in [Source -> SUBSET Event]
  BY WatcherAssumption DEF WatcherAssumption, PollOK
<1>6. /\ R \subseteq visible /\ D \subseteq R /\ K \subseteq D /\ visible \subseteq Event
      /\ \A e \in R : SourceOf[e] = s /\ from < stamp[e] /\ stamp[e] <= lastPoll
  BY <1>b DEF Matching, InWindow, ClockOK
<1>7. inputs'[s] = K /\ inputs[s] = {} /\ \A u \in Source : u # s => inputs'[u] = inputs[u]
  BY <1>b, <1>4, <1>5 DEF InputsOfWindow
<1>8. Busy /\ from < lastPoll
  BY <1>4 DEF Busy, Clock
<1>9. ClockOK' /\ LooksOK'
  BY <1>1 DEF ClockOK, LooksOK
<1>10. PollOK'
  <2>1. from' \in 0..MaxTime
    BY <1>4, <1>5 DEF Return
  <2>2. poller' \in {"wait", "fetchFirewall", "available"}
    BY <1>4 DEF Return
  <2>3. inputs' \in [Source -> SUBSET Event]
    BY <1>b, <1>5, <1>6
  <2>4. read' \subseteq Event /\ missed' \subseteq Event /\ capped' \subseteq Event
    BY <1>b, <1>6 DEF PollOK, Matching
  <2>5. QED
    BY <1>1, <2>1, <2>2, <2>3, <2>4 DEF PollOK
<1>11. AnswerOK'
  <2>1. CASE UNCHANGED <<llmEnabled, verdict, passthrough>>
    BY <2>1 DEF AnswerOK
  <2>2. CASE Return
    <3>1. verdict' \in [Source -> Severity]
      BY <2>2 DEF Return, Severity
    <3>2. llmEnabled' \in BOOLEAN /\ passthrough' \in [Source -> BOOLEAN]
      BY <2>2, Zenon DEF Return
    <3>3. QED
      BY <3>1, <3>2, Zenon DEF AnswerOK
  <2>3. QED
    BY <1>4, <2>1, <2>2
<1>12. WriteOK' /\ BreakerTypeOK'
  BY <1>2, <1>3 DEF WriteOK, BreakerTypeOK
<1>13. StopOK'
  <2>1. dbFaults' = dbFaults \/ (dbFaults < MaxDbFaults /\ dbFaults' = dbFaults + 1)
    BY <1>a DEF Fetch
  <2>2. dbFaults' \in 0..MaxDbFaults
    BY <2>1, WatcherAssumption DEF WatcherAssumption, StopOK
  <2>3. QED
    BY <1>1, <2>2, Zenon DEF StopOK
<1>14. Clock'
  BY <1>1, <1>4, <1>5, <1>8 DEF Clock, Busy, Return
<1>15. SeenInTime'
  <2>1. \A u \in Source : u # s => Horizon(u)' = Horizon(u)
    BY <1>1, <1>4 DEF Horizon, Return, Source
  <2>2. Horizon(s) = from /\ Horizon(s)' = lastPoll
    BY <1>1, <1>4 DEF Horizon, Return
  <2>3. ASSUME NEW e \in onTime, stamp[e] <= Horizon(SourceOf[e])'
        PROVE  e \in read' \cup missed'
    <3>1. e \in visible /\ SourceOf[e] \in Source /\ stamp[e] \in Nat
      BY WatcherAssumption, <1>5 DEF WatcherAssumption, SeenInTime, ClockOK
    <3>2. CASE stamp[e] <= Horizon(SourceOf[e])
      BY <3>2, <1>b DEF SeenInTime
    <3>3. CASE ~ (stamp[e] <= Horizon(SourceOf[e]))
      <4>1. SourceOf[e] = s
        BY <2>1, <2>3, <3>1, <3>3
      <4>2. from < stamp[e] /\ stamp[e] <= lastPoll
        BY <2>2, <2>3, <3>1, <3>3, <4>1, <1>5
      <4>3. e \in Matching(s)
        BY <3>1, <4>1, <4>2 DEF Matching, InWindow
      <4>4. QED
        BY <1>b, <4>3
    <3>4. QED
      BY <3>2, <3>3
  <2>4. QED
    BY <1>1, <2>3 DEF SeenInTime
<1>16. InputsOfWindow'
  <2>1. CASE from' = from
    <3>1. \A u \in Source : \A e \in inputs'[u] : e \in visible /\ e \in read' /\ SourceOf[e] = u /\ InWindow(e)
      BY <1>6, <1>7, <1>b DEF InputsOfWindow, InWindow
    <3>2. poller' # "fetchWindows" /\ (poller' = "fetchFirewall" => s = "windows")
      BY <1>4 DEF Return
    <3>3. ~ Busy' => \A u \in Source : inputs'[u] = {}
      BY <1>4 DEF Busy, Return
    <3>4. poller' = "fetchFirewall" => inputs'["firewall"] = {}
      BY <1>4, <1>7, <3>2 DEF InputsOfWindow, Source, Return
    <3>5. read' \subseteq visible
      BY <1>b, <1>6 DEF InputsOfWindow
    <3>6. QED
      BY <1>1, <2>1, <3>1, <3>2, <3>3, <3>4, <3>5 DEF InputsOfWindow, InWindow
  <2>2. CASE Return /\ inputs' = [u \in Source |-> {}]
    <3>1. read' \subseteq visible
      BY <1>b, <1>6 DEF InputsOfWindow
    <3>2. \A u \in Source : inputs'[u] = {}
      BY <2>2
    <3>3. QED
      BY <1>1, <2>2, <3>1, <3>2 DEF InputsOfWindow, Return
  <2>3. QED
    BY <1>4, <2>1, <2>2
<1>17. RowsApart'
  <2>1. Before = from /\ Before' \in {from, lastPoll}
    BY <1>1, <1>4, <1>8 DEF Before, Busy, Return
  <2>2. \A e \in visible : stamp[e] <= Before => stamp[e] <= Before'
    BY <2>1, <1>5, <1>8 DEF ClockOK
  <2>3. QED
    BY <1>1, <1>2, <2>2 DEF RowsApart, Old, OneRow, Apart
<1>18. ReadLeads'
  <2>1. ASSUME NEW f \in read, Accounted(f) PROVE Accounted(f)'
    <3>1. CASE f \in inputs[SourceOf[f]]
      <4>1. SourceOf[f] \in Source
        BY WatcherAssumption DEF WatcherAssumption, PollOK
      <4>2. SourceOf[f] # s /\ f \in inputs'[SourceOf[f]]
        BY <1>7, <3>1, <4>1
      <4>3. poller' \notin {"wait", "exit"}
        BY <1>4, <4>1, <4>2 DEF Return
      <4>4. QED
        BY <4>2, <4>3 DEF Accounted, Processing
    <3>2. CASE f \notin inputs[SourceOf[f]]
      BY <1>2, <1>b, <2>1, <3>2 DEF Accounted, Processing
    <3>3. QED
      BY <3>1, <3>2
  <2>2. ASSUME NEW e \in R
        PROVE  \E f \in read' : SourceOf[f] = SourceOf[e] /\ looks[f] = looks[e] /\ Accounted(f)'
    <3>1. PICK f \in D : looks[f] = looks[e]
      BY <1>b
    <3>2. f \in read' /\ SourceOf[f] = s /\ SourceOf[e] = s
      BY <1>b, <1>6
    <3>3. CASE f \in K
      <4>1. poller' \notin {"wait", "exit"}
        BY <1>4, <1>7, <3>3 DEF Return
      <4>2. f \in inputs'[SourceOf[f]]
        BY <1>7, <3>2, <3>3
      <4>3. Accounted(f)'
        BY <4>1, <4>2 DEF Accounted, Processing
      <4>4. QED
        BY <3>1, <3>2, <4>3
    <3>4. CASE f \notin K
      <4>1. Accounted(f)'
        BY <1>b, <3>4 DEF Accounted
      <4>2. QED
        BY <3>1, <3>2, <4>1
    <3>5. QED
      BY <3>3, <3>4
  <2>3. ASSUME NEW e \in read
        PROVE  \E f \in read' : SourceOf[f] = SourceOf[e] /\ looks[f] = looks[e] /\ Accounted(f)'
    <3>1. PICK f \in read : SourceOf[f] = SourceOf[e] /\ looks[f] = looks[e] /\ Accounted(f)
      BY DEF ReadLeads
    <3>2. QED
      BY <2>1, <3>1, <1>b
  <2>4. QED
    BY <1>1, <1>b, <2>2, <2>3 DEF ReadLeads
<1>19. NeverDown' /\ HandHeld' /\ LateIsLate'
  BY <1>1, <1>2, <1>4 DEF NeverDown, NotDown, HandHeld, LateIsLate, Return
<1>20. CallsIdle' /\ CountedOut' /\ Closing'
  BY <1>3, <1>4 DEF CallsIdle, CountedOut, Closing
<1>21. QED
  BY <1>9, <1>10, <1>11, <1>12, <1>13, <1>14, <1>15, <1>16, <1>17, <1>18, <1>19, <1>20

\* mergePassthrough never plays down a row it merges.
LEMMA MergeCovers ==
  ASSUME NEW S \in SUBSET Event
  PROVE  MergePassthrough(S) \in Severity /\ \A e \in S : MergePassthrough(S) >= RuleSeverity[e]
<1>1. \A e \in S : RuleSeverity[e] \in 1..4
  BY WatcherAssumption DEF WatcherAssumption
<1>2. QED
  BY <1>1 DEF MergePassthrough, Severity

\* Nobody is in Analyze: the breaker is looked at, and the calls begin.
LEMMA AvailableStep ==
  ASSUME WatcherInv, Available
  PROVE  WatcherInv'
<1> USE DEF WatcherInv, Types
<1>1. UNCHANGED <<now, visible, stamp, looks, tick, onTime, lastPoll, from, inputs, read, missed, capped,
                  cancelled, dbFaults>>
  BY DEF Available, clockVars
<1>2. UNCHANGED <<out, writer, hand, table, dropped, sentLate>>
  BY DEF Available, writeVars
<1>3. PICK available \in BOOLEAN :
        /\ IF LLM THEN IsAvailable(now, available)
                  ELSE ~available /\ UNCHANGED <<failures, openUntil>>
        /\ llmEnabled' = available
        /\ IF available
             THEN /\ call' = [s \in Source |-> IF inputs[s] = {} THEN "none" ELSE "check"]
                  /\ UNCHANGED <<verdict, passthrough>>
                  /\ poller' = "infer"
             ELSE /\ verdict' = [s \in Source |-> MergePassthrough(inputs[s])]
                  /\ passthrough' = [s \in Source |-> TRUE]
                  /\ poller' = "send"
                  /\ UNCHANGED call
  BY DEF Available
<1>4. poller = "available" /\ poller' \in {"infer", "send"}
  BY <1>3 DEF Available
<1>5. Busy /\ Busy'
  BY <1>4 DEF Busy
<1>6. ClockOK' /\ LooksOK' /\ StopOK'
  BY <1>1 DEF ClockOK, LooksOK, StopOK
<1>7. PollOK' /\ WriteOK'
  BY <1>1, <1>2, <1>4 DEF PollOK, WriteOK
<1>8. \A s \in Source : /\ MergePassthrough(inputs[s]) \in Severity
                        /\ \A e \in inputs[s] : MergePassthrough(inputs[s]) >= RuleSeverity[e]
  BY MergeCovers DEF PollOK
<1>9. AnswerOK'
  <2>1. verdict' \in [Source -> Severity]
    BY <1>3, <1>8 DEF AnswerOK
  <2>2. CASE available
    BY <1>3, <2>1, <2>2, Zenon DEF AnswerOK
  <2>3. CASE ~available
    <3>1. passthrough' = [s \in Source |-> TRUE]
      BY <1>3, <2>3
    <3>2. passthrough' \in [Source -> BOOLEAN]
      BY <3>1, Zenon
    <3>3. QED
      BY <1>3, <2>1, <3>2, Zenon DEF AnswerOK
  <2>4. QED
    BY <2>2, <2>3
<1>10. Caller = Source /\ Threshold \in Nat \ {0, 1}
  BY WatcherAssumption, BreakerAssumption DEF WatcherAssumption, BreakerAssumption
<1>11. failures' \in {failures, 0} /\ openUntil' \in {openUntil, 0}
  BY <1>3 DEF IsAvailable
<1>12. call' \in [Caller -> {"none", "check"}]
  <2>1. call \in [Caller -> CallPlaces] /\ \A s \in Source : call[s] = "none"
    BY <1>4 DEF BreakerTypeOK, CallsIdle
  <2>2. QED
    BY <1>3, <1>10, <2>1
<1>13. BreakerTypeOK'
  BY <1>11, <1>12 DEF BreakerTypeOK, CallPlaces
<1>14. Clock' /\ SeenInTime'
  BY <1>1, <1>4, <1>5 DEF Clock, SeenInTime, Horizon
<1>15. InputsOfWindow'
  BY <1>1, <1>4, <1>5 DEF InputsOfWindow, InWindow
<1>16. RowsApart'
  BY <1>1, <1>2, <1>5 DEF RowsApart, Old, Before, OneRow, Apart
<1>17. ReadLeads'
  BY <1>1, <1>2, <1>4 DEF ReadLeads, Accounted, Processing
<1>18. HandHeld' /\ LateIsLate'
  BY <1>1, <1>2 DEF HandHeld, LateIsLate
<1>19. NeverDown'
  <2>1. poller' = "send" => \A s \in Source : \A e \in inputs[s] : verdict'[s] >= RuleSeverity[e]
    BY <1>3, <1>8
  <2>2. QED
    BY <1>1, <1>2, <2>1 DEF NeverDown, NotDown
<1>20. CallsIdle'
  <2>1. CASE available
    BY <1>3, <2>1 DEF CallsIdle
  <2>2. CASE ~available
    BY <1>3, <1>4, <2>2 DEF CallsIdle
  <2>3. QED
    BY <2>1, <2>2
<1>21. Closing'
  BY <1>10, <1>12 DEF Closing
<1>22. CountedOut'
  <2>1. \A c \in Caller : call[c] \notin {"open", "resetCount", "succeeded"}
    BY <1>4, <1>10 DEF CallsIdle
  <2>2. failures \in Nat /\ openUntil \in Nat
    BY DEF BreakerTypeOK
  <2>3. ~ (failures >= Threshold /\ openUntil = 0)
    BY <2>1 DEF CountedOut
  <2>4. openUntil' = openUntil \/ failures' = 0
    BY <1>3 DEF IsAvailable
  <2>5. CASE failures' = 0
    BY <1>10, <2>5 DEF CountedOut
  <2>6. CASE failures' = failures /\ openUntil' = openUntil
    BY <2>3, <2>6 DEF CountedOut
  <2>7. QED
    BY <1>11, <2>4, <2>5, <2>6
<1>23. QED
  BY <1>6, <1>7, <1>9, <1>13, <1>14, <1>15, <1>16, <1>17, <1>18, <1>19, <1>20, <1>21, <1>22

\* Every call of the window has returned: the writer's batch is made up.
LEMMA JoinStep ==
  ASSUME WatcherInv, Join
  PROVE  WatcherInv'
<1> USE DEF WatcherInv, Types
<1>1. UNCHANGED <<now, visible, stamp, looks, tick, onTime, lastPoll, from, inputs, read, missed, capped,
                  llmEnabled, cancelled, dbFaults, failures, openUntil>>
  BY DEF Join, clockVars
<1>2. UNCHANGED <<out, writer, hand, table, dropped, sentLate>>
  BY DEF Join, writeVars
<1>3. /\ poller = "infer" /\ poller' = "send"
      /\ call' = [s \in Source |-> "none"]
      /\ passthrough' = [s \in Source |-> At(s, "error")]
      /\ \A s \in Source : call[s] \in Returned
  BY DEF Join
<1>4. PICK answer \in [Source -> Verdicts] :
        verdict' = [s \in Source |->
                      CASE At(s, "answer") -> answer[s]
                        [] At(s, "error") -> MergePassthrough(inputs[s])
                        [] OTHER -> 0]
  BY DEF Join
<1>5. Busy /\ Busy'
  BY <1>3 DEF Busy
<1>6. ClockOK' /\ LooksOK' /\ StopOK'
  BY <1>1 DEF ClockOK, LooksOK, StopOK
<1>7. PollOK' /\ WriteOK'
  BY <1>1, <1>2, <1>3 DEF PollOK, WriteOK
<1>8. \A s \in Source : /\ MergePassthrough(inputs[s]) \in Severity
                        /\ \A e \in inputs[s] : MergePassthrough(inputs[s]) >= RuleSeverity[e]
  BY MergeCovers DEF PollOK
<1>9. AnswerOK'
  <2>1. \A s \in Source : answer[s] \in Severity /\ 0 \in Severity
    BY <1>4, WatcherAssumption DEF WatcherAssumption, Severity
  <2>2. verdict' \in [Source -> Severity]
    BY <1>4, <1>8, <2>1
  <2>3. \A s \in Source : At(s, "error") \in BOOLEAN
    BY Zenon DEF At
  <2>4. passthrough' \in [Source -> BOOLEAN]
    BY <1>3, <2>3, Zenon
  <2>5. QED
    BY <1>1, <2>2, <2>4, Zenon DEF AnswerOK
<1>10. Caller = Source
  BY WatcherAssumption DEF WatcherAssumption
<1>11. BreakerTypeOK'
  BY <1>1, <1>3, <1>10 DEF BreakerTypeOK, CallPlaces
<1>12. Clock' /\ SeenInTime'
  BY <1>1, <1>3, <1>5 DEF Clock, SeenInTime, Horizon
<1>13. InputsOfWindow'
  BY <1>1, <1>3, <1>5 DEF InputsOfWindow, InWindow
<1>14. RowsApart'
  BY <1>1, <1>2, <1>5 DEF RowsApart, Old, Before, OneRow, Apart
<1>15. ReadLeads'
  <2>1. \A f \in read : Accounted(f) => Accounted(f)'
    BY <1>1, <1>2, <1>3 DEF Accounted, Processing
  <2>2. QED
    BY <1>1, <2>1 DEF ReadLeads
<1>16. HandHeld' /\ LateIsLate'
  BY <1>1, <1>2 DEF HandHeld, LateIsLate
<1>17. NeverDown'
  <2>1. ASSUME NEW s \in Source, passthrough'[s], NEW e \in inputs[s]
        PROVE  verdict'[s] >= RuleSeverity[e]
    <3>1. At(s, "error") /\ ~ At(s, "answer")
      BY <1>3, <2>1 DEF At
    <3>2. verdict'[s] = MergePassthrough(inputs[s])
      BY <1>4, <3>1
    <3>3. QED
      BY <1>8, <3>2
  <2>2. QED
    BY <1>1, <1>2, <2>1 DEF NeverDown, NotDown
<1>18. CallsIdle' /\ Closing'
  BY <1>3, <1>10 DEF CallsIdle, Closing
<1>19. CountedOut'
  BY <1>1, <1>3, <1>10 DEF CountedOut, Returned
<1>20. QED
  BY <1>6, <1>7, <1>9, <1>11, <1>12, <1>13, <1>14, <1>15, <1>16, <1>17, <1>18, <1>19

\* One caller's step inside Analyze.  The breaker is opened at a time that is not 0, and
\* a success closes it behind the other caller's failure only while that is the only one.
LEMMA InferStep ==
  ASSUME WatcherInv, NEW x \in Source, Infer(x)
  PROVE  WatcherInv'
<1> USE DEF WatcherInv, Types
<1>1. UNCHANGED <<now, visible, stamp, looks, tick, onTime, cancelled, dbFaults>>
  BY DEF Infer, clockVars
<1>2. UNCHANGED <<poller, lastPoll, from, inputs, llmEnabled, verdict, passthrough, read, missed, capped>>
  BY DEF Infer, pollVars
<1>3. UNCHANGED <<out, writer, hand, table, dropped, sentLate>>
  BY DEF Infer, writeVars
<1>4. poller = "infer" /\ Analyze(x, now)
  BY DEF Infer
<1>5. ClockOK' /\ LooksOK' /\ StopOK' /\ PollOK'
  BY <1>1, <1>2 DEF ClockOK, LooksOK, StopOK, PollOK
<1>6. WriteOK' /\ AnswerOK'
  BY <1>2, <1>3 DEF WriteOK, AnswerOK
<1>7. Clock' /\ SeenInTime' /\ InputsOfWindow'
  BY <1>1, <1>2 DEF Clock, Busy, SeenInTime, Horizon, InputsOfWindow, InWindow
<1>8. RowsApart'
  BY <1>1, <1>2, <1>3 DEF RowsApart, Old, Before, Busy, OneRow, Apart
<1>9. ReadLeads'
  <2>1. \A f \in read : Accounted(f) => Accounted(f)'
    BY <1>2, <1>3 DEF Accounted, Processing
  <2>2. QED
    BY <1>1, <1>2, <2>1 DEF ReadLeads
<1>10. NeverDown' /\ HandHeld' /\ LateIsLate'
  BY <1>1, <1>2, <1>3 DEF NeverDown, NotDown, HandHeld, LateIsLate
<1>11. CallsIdle'
  BY <1>2, <1>4 DEF CallsIdle
<1>12. x \in Caller /\ \A c, d \in Caller : c # x /\ d # x => c = d
  BY WatcherAssumption DEF WatcherAssumption, Source
<1>13. Threshold \in Nat /\ Threshold > 1 /\ OpenTicks \in Nat
  BY BreakerAssumption DEF BreakerAssumption
<1>14. now \in Nat /\ now > 0
  BY <1>4, WatcherAssumption DEF WatcherAssumption, ClockOK, PollOK, Clock, Busy
<1>15. failures \in Nat /\ openUntil \in Nat /\ call \in [Caller -> CallPlaces]
  BY DEF BreakerTypeOK
<1>16. \E place \in CallPlaces : To(x, place)
  BY <1>4 DEF Analyze, CheckClosed, CheckExpired, CheckOpen, Reset, ResetCount, RequestDone, RecordFailure,
              Open, RecordSuccess, Close, CallPlaces
<1>17. BreakerTypeOK'
  <2>1. call' \in [Caller -> CallPlaces]
    BY <1>15, <1>16 DEF To
  <2>2. failures' \in Nat /\ openUntil' \in Nat
    BY <1>4, <1>13, <1>14, <1>15
       DEF Analyze, CheckClosed, CheckExpired, CheckOpen, Reset, ResetCount, RequestDone, RecordFailure,
           Open, RecordSuccess, Close
  <2>3. QED
    BY <2>1, <2>2 DEF BreakerTypeOK
<1>18. \A d \in Caller : d # x => call'[d] = call[d]
  BY <1>15, <1>16 DEF To
<1>19. CountedOut' /\ Closing'
  <2> USE DEF CountedOut, Closing, At, To
  <2>1. CASE CheckClosed(x)
    <3>1. call[x] = "check" /\ call'[x] = "request" /\ failures' = failures /\ openUntil' = openUntil
      BY <2>1, <1>12, <1>15 DEF CheckClosed
    <3>2. QED
      BY <3>1, <1>12, <1>18
  <2>2. CASE CheckExpired(x, now) \/ CheckOpen(x, now)
    <3>1. /\ call[x] = "check" /\ call'[x] \in {"reset", "error"}
          /\ failures' = failures /\ openUntil' = openUntil /\ openUntil # 0
      BY <2>2, <1>12, <1>15 DEF CheckExpired, CheckOpen
    <3>2. QED
      BY <3>1, <1>12, <1>18
  <2>3. CASE Reset(x)
    <3>1. call[x] = "reset" /\ call'[x] = "resetCount" /\ failures' = failures
      BY <2>3, <1>12, <1>15 DEF Reset
    <3>2. QED
      BY <3>1, <1>12, <1>18
  <2>4. CASE ResetCount(x)
    <3>1. call[x] = "resetCount" /\ call'[x] = "request" /\ failures' = 0
      BY <2>4, <1>12, <1>15 DEF ResetCount
    <3>2. QED
      BY <3>1, <1>12, <1>13, <1>18
  <2>5. CASE RequestDone(x)
    <3>1. /\ call[x] = "request" /\ call'[x] \in {"succeeded", "failed"}
          /\ failures' = failures /\ openUntil' = openUntil
      BY <2>5, <1>12, <1>15 DEF RequestDone
    <3>2. QED
      BY <3>1, <1>12, <1>18
  <2>6. CASE RecordFailure(x)
    <3>1. /\ call[x] = "failed" /\ failures' = failures + 1 /\ openUntil' = openUntil
          /\ call'[x] = IF failures' >= Threshold THEN "open" ELSE "error"
      BY <2>6, <1>12, <1>15 DEF RecordFailure
    <3>2. CountedOut'
      BY <3>1, <1>12
    <3>3. Closing'
      BY <3>1, <1>12, <1>15, <1>18
    <3>4. QED
      BY <3>2, <3>3
  <2>7. CASE Open(x, now)
    <3>1. /\ call[x] = "open" /\ call'[x] = "error" /\ failures' = failures
          /\ openUntil' = now + OpenTicks
      BY <2>7, <1>12, <1>15 DEF Open
    <3>2. openUntil' # 0
      BY <3>1, <1>13, <1>14
    <3>3. QED
      BY <3>1, <3>2, <1>12, <1>18
  <2>8. CASE RecordSuccess(x)
    <3>1. failures' = 0
      BY <2>8 DEF RecordSuccess
    <3>2. QED
      BY <3>1, <1>13
  <2>9. CASE Close(x)
    <3>1. call[x] = "close" /\ call'[x] = "answer" /\ failures' = failures
      BY <2>9, <1>12, <1>15 DEF Close
    <3>2. failures <= 1
      BY <3>1, <1>12
    <3>3. QED
      BY <3>1, <3>2, <1>12, <1>13, <1>15, <1>18
  <2>10. QED
    BY <1>4, <2>1, <2>2, <2>3, <2>4, <2>5, <2>6, <2>7, <2>8, <2>9 DEF Analyze
<1>20. QED
  BY <1>5, <1>6, <1>7, <1>8, <1>9, <1>10, <1>11, <1>17, <1>19

\* The rows of the window, one for each of its inputs, which are of this window only.
PassRow(e) ==
  [event |-> e, ts |-> from, llm |-> llmEnabled, sev |-> verdict[SourceOf[e]], pass |-> passthrough[SourceOf[e]]]

LEMMA PassRowsOfWindow ==
  ASSUME Types, InputsOfWindow, NeverDown, poller = "send"
  PROVE  /\ PassRows \subseteq Row
         /\ OneRow(PassRows) /\ NotDown(PassRows)
         /\ \A r \in PassRows : r.event \in visible /\ from < stamp[r.event] /\ stamp[r.event] <= lastPoll
         /\ \A s \in Source : \A e \in inputs[s] : \E r \in PassRows : r.event = e
<1> USE DEF Types
<1>1. PassRows = {PassRow(e) : e \in inputs["windows"] \cup inputs["firewall"]}
  BY DEF PassRows, PassRow
<1>2. \A r \in PassRows : \E s \in Source : \E e \in inputs[s] : r = PassRow(e)
  BY <1>1 DEF Source
<1>3. \A s \in Source : \A e \in inputs[s] : PassRow(e) \in PassRows
  BY <1>1 DEF Source
<1>4. \A e : PassRow(e).event = e
  BY DEF PassRow
<1>5. ASSUME NEW s \in Source, NEW e \in inputs[s]
      PROVE  /\ e \in Event /\ e \in visible /\ from < stamp[e] /\ stamp[e] <= lastPoll
             /\ PassRow(e) \in Row
             /\ PassRow(e).pass => PassRow(e).sev >= RuleSeverity[e]
  <2>1. e \in visible /\ SourceOf[e] = s /\ from < stamp[e] /\ stamp[e] <= lastPoll
    BY <1>5 DEF InputsOfWindow, InWindow
  <2>2. e \in Event /\ from \in Nat
    BY <2>1, WatcherAssumption DEF WatcherAssumption, ClockOK, PollOK
  <2>3. verdict[s] \in Severity
    BY DEF AnswerOK
  <2>4. passthrough[s] \in BOOLEAN /\ llmEnabled \in BOOLEAN
    BY Zenon DEF AnswerOK
  <2>5. PassRow(e) \in Row
    BY <2>1, <2>2, <2>3, <2>4, Zenon DEF PassRow, Row
  <2>6. passthrough[s] => verdict[s] >= RuleSeverity[e]
    BY <1>5 DEF NeverDown
  <2>7. PassRow(e).pass = passthrough[s] /\ PassRow(e).sev = verdict[s]
    BY <2>1 DEF PassRow
  <2>8. QED
    BY <2>1, <2>2, <2>5, <2>6, <2>7
<1>6. PassRows \subseteq Row
  BY <1>2, <1>5
<1>7. OneRow(PassRows)
  BY <1>2, <1>4 DEF OneRow
<1>8. NotDown(PassRows)
  <2>1. ASSUME NEW r \in PassRows, r.pass PROVE r.sev >= RuleSeverity[r.event]
    BY <1>2, <1>4, <1>5, <2>1
  <2>2. QED
    BY <2>1 DEF NotDown
<1>9. \A r \in PassRows : r.event \in visible /\ from < stamp[r.event] /\ stamp[r.event] <= lastPoll
  BY <1>2, <1>4, <1>5
<1>10. \A s \in Source : \A e \in inputs[s] : \E r \in PassRows : r.event = e
  BY <1>3, <1>4
<1>11. QED
  BY <1>6, <1>7, <1>8, <1>9, <1>10

\* What a batch added to the channel leaves in its places.
LEMMA Sent ==
  ASSUME NEW S \in SUBSET Row, out \in Seq(SUBSET Row), out' = Append(out, S)
  PROVE  /\ out' \in Seq(SUBSET Row) /\ Len(out') = Len(out) + 1
         /\ DOMAIN out' = 1..(Len(out) + 1) /\ DOMAIN out = 1..Len(out) /\ Len(out) \in Nat
         /\ \A i \in DOMAIN out : i \in DOMAIN out' /\ out'[i] = out[i]
         /\ out'[Len(out) + 1] = S
         /\ \A i \in DOMAIN out' : i \in DOMAIN out \/ i = Len(out) + 1
<1>1. Len(out) \in Nat /\ DOMAIN out = 1..Len(out)
  OBVIOUS
<1>2. Len(out') = Len(out) + 1 /\ out' \in Seq(SUBSET Row)
  OBVIOUS
<1>3. DOMAIN out' = 1..(Len(out) + 1)
  BY <1>2
<1>4. \A i \in 1..Len(out) : out'[i] = out[i]
  OBVIOUS
<1>5. out'[Len(out) + 1] = S
  OBVIOUS
<1>6. QED
  BY <1>1, <1>2, <1>3, <1>4, <1>5

\* The window's rows go into the channel, or are dropped, and its locals are gone.
LEMMA SendStep ==
  ASSUME WatcherInv, Send
  PROVE  WatcherInv'
<1> USE DEF WatcherInv, Types
<1>1. UNCHANGED <<now, visible, stamp, looks, tick, onTime, lastPoll, read, missed, capped, writer, hand,
                  table, cancelled, dbFaults>>
  BY DEF Send, clockVars
<1>2. UNCHANGED <<failures, openUntil, call>>
  BY DEF Send, breakerVars
<1>3. poller = "send" /\ Return /\ inputs' = [s \in Source |-> {}]
  BY DEF Send
<1>4. poller' = "wait" /\ from' = 0 /\ Busy /\ ~Busy'
  BY <1>3 DEF Return, Busy
<1>5. lastPoll \in 0..MaxTime /\ from \in 0..MaxTime /\ MaxTime \in Nat /\ from < lastPoll
  BY <1>4, WatcherAssumption DEF WatcherAssumption, PollOK, Clock
<1>6. /\ PassRows \subseteq Row
      /\ OneRow(PassRows) /\ NotDown(PassRows)
      /\ \A r \in PassRows : r.event \in visible /\ from < stamp[r.event] /\ stamp[r.event] <= lastPoll
      /\ \A s \in Source : \A e \in inputs[s] : \E r \in PassRows : r.event = e
  BY <1>3, PassRowsOfWindow
<1>7. \/ /\ Len(out) < OutChanBuffer
         /\ out' = Append(out, PassRows)
         /\ sentLate' = sentLate \cup {r.event : r \in IF cancelled THEN PassRows ELSE {}}
         /\ dropped' = dropped
      \/ out' = out /\ sentLate' = sentLate /\ dropped' = dropped \cup {r.event : r \in PassRows}
  BY DEF Send
<1>8. \A r \in PassRows : r.event \in Event
  BY <1>6 DEF ClockOK
<1>9. ClockOK' /\ LooksOK' /\ StopOK'
  BY <1>1 DEF ClockOK, LooksOK, StopOK
<1>10. PollOK'
  BY <1>1, <1>3, <1>4, <1>5 DEF PollOK
<1>11. AnswerOK'
  <2>1. verdict' \in [Source -> Severity]
    BY <1>3 DEF Return, Severity
  <2>2. llmEnabled' \in BOOLEAN /\ passthrough' \in [Source -> BOOLEAN]
    BY <1>3, Zenon DEF Return
  <2>3. QED
    BY <2>1, <2>2, Zenon DEF AnswerOK
<1>12. WriteOK'
  <2>1. out' \in Seq(SUBSET Row) /\ Len(out') <= OutChanBuffer
    <3>1. OutChanBuffer \in Nat /\ Len(out) \in Nat
      BY WatcherAssumption DEF WatcherAssumption, WriteOK
    <3>2. CASE out' = out
      BY <3>2 DEF WriteOK
    <3>3. CASE Len(out) < OutChanBuffer /\ out' = Append(out, PassRows)
      <4>1. out' \in Seq(SUBSET Row) /\ Len(out') = Len(out) + 1
        BY <1>6, <3>3, Sent DEF WriteOK
      <4>2. QED
        BY <3>1, <3>3, <4>1
    <3>4. QED
      BY <1>7, <3>2, <3>3
  <2>2. dropped' \subseteq Event /\ sentLate' \subseteq Event
    BY <1>7, <1>8 DEF WriteOK
  <2>3. QED
    BY <1>1, <2>1, <2>2 DEF WriteOK
<1>13. BreakerTypeOK'
  BY <1>2 DEF BreakerTypeOK
<1>14. Clock' /\ SeenInTime'
  BY <1>1, <1>3, <1>4 DEF Clock, SeenInTime, Horizon
<1>15. InputsOfWindow'
  BY <1>1, <1>3, <1>4 DEF InputsOfWindow
<1>16. Before = from /\ Before' = lastPoll
  BY <1>1, <1>4 DEF Before
<1>17. \A S : Old(S) => Apart(S, PassRows) /\ \A r \in S : r.event \in visible /\ stamp[r.event] <= lastPoll
  BY <1>5, <1>6, <1>16 DEF Old, Apart, ClockOK
<1>18. Old(table)' /\ Old(hand)' /\ OneRow(table)' /\ OneRow(hand)' /\ Apart(table, hand)'
  BY <1>1, <1>16, <1>17 DEF RowsApart, Old, OneRow, Apart
<1>19. RowsApart'
  <2>1. CASE out' = out
    BY <1>1, <1>16, <1>17, <1>18, <2>1 DEF RowsApart, Old, OneRow, Apart
  <2>2. CASE out' = Append(out, PassRows)
    <3>1. /\ \A i \in DOMAIN out : i \in DOMAIN out' /\ out'[i] = out[i]
          /\ out'[Len(out) + 1] = PassRows
          /\ \A i \in DOMAIN out' : i \in DOMAIN out \/ i = Len(out) + 1
      BY <1>6, <2>2, Sent DEF WriteOK
    <3>2. ASSUME NEW i \in DOMAIN out'
          PROVE  Old(out[i])' /\ OneRow(out'[i]) /\ Apart(table, out'[i]) /\ Apart(hand, out'[i])
      <4>1. CASE i \in DOMAIN out
        BY <1>1, <1>16, <1>17, <3>1, <4>1 DEF RowsApart, Old
      <4>2. CASE i = Len(out) + 1
        BY <1>1, <1>6, <1>16, <1>17, <3>1, <4>2 DEF RowsApart, Old
      <4>3. QED
        BY <3>1, <4>1, <4>2
    <3>3. ASSUME NEW i \in DOMAIN out', NEW j \in DOMAIN out', i # j
          PROVE  Apart(out'[i], out'[j])
      <4>1. CASE i \in DOMAIN out /\ j \in DOMAIN out
        BY <3>1, <3>3, <4>1 DEF RowsApart
      <4>2. CASE i \in DOMAIN out /\ j = Len(out) + 1
        BY <1>17, <3>1, <4>2 DEF RowsApart
      <4>3. CASE i = Len(out) + 1 /\ j \in DOMAIN out
        <5>1. Apart(out[j], PassRows)
          BY <1>17, <4>3 DEF RowsApart
        <5>2. QED
          BY <3>1, <4>3, <5>1 DEF Apart
      <4>4. QED
        BY <3>1, <3>3, <4>1, <4>2, <4>3
    <3>4. QED
      BY <1>1, <1>18, <3>2, <3>3 DEF RowsApart, OneRow, Apart
  <2>3. QED
    BY <1>7, <2>1, <2>2
<1>20. ReadLeads'
  <2>1. ASSUME NEW f \in read, Accounted(f) PROVE Accounted(f)'
    <3>1. CASE f \in inputs[SourceOf[f]]
      <4>1. SourceOf[f] \in Source
        BY WatcherAssumption DEF WatcherAssumption, PollOK
      <4>2. PICK r \in PassRows : r.event = f
        BY <1>6, <3>1, <4>1
      <4>3. CASE out' = Append(out, PassRows)
        <5>1. Len(out) + 1 \in 1..Len(out') /\ out'[Len(out) + 1] = PassRows
          BY <1>6, <4>3, Sent DEF WriteOK
        <5>2. QED
          BY <4>2, <5>1 DEF Accounted, Processing
      <4>4. CASE dropped' = dropped \cup {q.event : q \in PassRows}
        BY <4>2, <4>4 DEF Accounted
      <4>5. QED
        BY <1>7, <4>3, <4>4
    <3>2. CASE \E i \in 1..Len(out) : \E r \in out[i] : r.event = f
      <4>1. CASE out' = out
        BY <3>2, <4>1 DEF Accounted, Processing
      <4>2. CASE out' = Append(out, PassRows)
        <5>1. PICK i \in 1..Len(out) : \E r \in out[i] : r.event = f
          BY <3>2
        <5>2. i \in 1..Len(out') /\ out'[i] = out[i]
          BY <1>6, <4>2, Sent DEF WriteOK
        <5>3. QED
          BY <5>1, <5>2 DEF Accounted, Processing
      <4>3. QED
        BY <1>7, <4>1, <4>2
    <3>3. CASE f \notin inputs[SourceOf[f]] /\ ~ \E i \in 1..Len(out) : \E r \in out[i] : r.event = f
      BY <1>1, <1>7, <2>1, <3>3 DEF Accounted, Processing
    <3>4. QED
      BY <3>1, <3>2, <3>3
  <2>2. QED
    BY <1>1, <2>1 DEF ReadLeads
<1>21. LateIsLate'
  <2>1. CASE out' = out
    BY <1>1, <1>7, <2>1 DEF LateIsLate
  <2>2. CASE out' = Append(out, PassRows) /\ sentLate' = sentLate \cup {r.event : r \in IF cancelled THEN PassRows ELSE {}}
    <3>1. /\ \A i \in DOMAIN out : out'[i] = out[i]
          /\ out'[Len(out) + 1] = PassRows
          /\ \A i \in DOMAIN out' : i \in DOMAIN out \/ i = Len(out) + 1
      BY <1>6, <2>2, Sent DEF WriteOK
    <3>2. writer = "exit" => \A r \in PassRows : r.event \in sentLate'
      BY <2>2 DEF LateIsLate
    <3>3. ASSUME writer = "exit", NEW i \in DOMAIN out', NEW r \in out'[i] PROVE r.event \in sentLate'
      <4>1. CASE i \in DOMAIN out
        BY <2>2, <3>1, <3>3, <4>1 DEF LateIsLate
      <4>2. CASE i = Len(out) + 1
        BY <3>1, <3>2, <3>3, <4>2
      <4>3. QED
        BY <3>1, <4>1, <4>2
    <3>4. QED
      BY <1>1, <3>3 DEF LateIsLate
  <2>3. QED
    BY <1>7, <2>1, <2>2
<1>22. NeverDown'
  <2>1. \A i \in DOMAIN out' : NotDown(out'[i])
    <3>1. CASE out' = out
      BY <3>1 DEF NeverDown
    <3>2. CASE out' = Append(out, PassRows)
      <4>1. /\ \A i \in DOMAIN out : out'[i] = out[i]
            /\ out'[Len(out) + 1] = PassRows
            /\ \A i \in DOMAIN out' : i \in DOMAIN out \/ i = Len(out) + 1
        BY <1>6, <3>2, Sent DEF WriteOK
      <4>2. QED
        BY <1>6, <4>1 DEF NeverDown
    <3>3. QED
      BY <1>7, <3>1, <3>2
  <2>2. QED
    BY <1>1, <1>4, <2>1 DEF NeverDown, NotDown
<1>23. HandHeld' /\ CallsIdle' /\ CountedOut' /\ Closing'
  BY <1>1, <1>2, <1>3, <1>4 DEF HandHeld, CallsIdle, CountedOut, Closing
<1>24. QED
  BY <1>9, <1>10, <1>11, <1>12, <1>13, <1>14, <1>15, <1>19, <1>20, <1>21, <1>22, <1>23

----------------------------------------------------------------------------
(* The writer goroutine *)

\* What taking the first batch leaves of the channel.
LEMMA Taken ==
  ASSUME out \in Seq(SUBSET Row), out # <<>>
  PROVE  /\ 1 \in DOMAIN out /\ Head(out) = out[1] /\ Head(out) \subseteq Row
         /\ Tail(out) \in Seq(SUBSET Row) /\ Len(Tail(out)) = Len(out) - 1 /\ Len(out) \in Nat
         /\ \A i \in DOMAIN Tail(out) : i + 1 \in DOMAIN out /\ i + 1 # 1 /\ Tail(out)[i] = out[i + 1]
         /\ \A i, j \in DOMAIN Tail(out) : i # j => i + 1 # j + 1
         /\ \A i \in DOMAIN out : i # 1 => i - 1 \in DOMAIN Tail(out) /\ Tail(out)[i - 1] = out[i]
<1>1. Len(out) \in Nat /\ Len(out) > 0 /\ DOMAIN out = 1..Len(out)
  OBVIOUS
<1>2. Head(out) = out[1] /\ out[1] \in SUBSET Row
  BY <1>1
<1>3. Tail(out) \in Seq(SUBSET Row) /\ Len(Tail(out)) = Len(out) - 1 /\ DOMAIN Tail(out) = 1..(Len(out) - 1)
  BY <1>1
<1>4. \A i \in 1..(Len(out) - 1) : Tail(out)[i] = out[i + 1]
  BY <1>1
<1>5. QED
  BY <1>1, <1>2, <1>3, <1>4

\* Whatever the writer does, the poll goroutine's state stays.
LEMMA TakeStep ==
  ASSUME WatcherInv, TakeBatch
  PROVE  WatcherInv'
<1> USE DEF WatcherInv, Types
<1>1. UNCHANGED <<now, visible, stamp, looks, tick, onTime, cancelled, dbFaults, table, dropped, sentLate>>
  BY DEF TakeBatch, clockVars
<1>2. UNCHANGED <<poller, lastPoll, from, inputs, llmEnabled, verdict, passthrough, read, missed, capped>>
  BY DEF TakeBatch, pollVars
<1>3. UNCHANGED <<failures, openUntil, call>>
  BY DEF TakeBatch, breakerVars
<1>4. /\ out # <<>> /\ hand' = Head(out) /\ out' = Tail(out)
      /\ \/ writer = "run" /\ writer' = "insert"
         \/ writer = "drain" /\ writer' = "drainInsert"
  BY DEF TakeBatch
<1>5. /\ 1 \in DOMAIN out /\ hand' = out[1] /\ hand' \subseteq Row
      /\ out' \in Seq(SUBSET Row) /\ Len(out') = Len(out) - 1 /\ Len(out) \in Nat
      /\ \A i \in DOMAIN out' : i + 1 \in DOMAIN out /\ i + 1 # 1 /\ out'[i] = out[i + 1]
      /\ \A i, j \in DOMAIN out' : i # j => i + 1 # j + 1
      /\ \A i \in DOMAIN out : i # 1 => i - 1 \in DOMAIN out' /\ out'[i - 1] = out[i]
  BY <1>4, Taken DEF WriteOK
<1>6. hand = {}
  BY <1>4 DEF HandHeld
<1>7. ClockOK' /\ LooksOK' /\ PollOK' /\ StopOK'
  BY <1>1, <1>2 DEF ClockOK, LooksOK, PollOK, StopOK
<1>8. AnswerOK' /\ BreakerTypeOK'
  BY <1>2, <1>3 DEF AnswerOK, BreakerTypeOK
<1>9. WriteOK'
  <2>1. Len(out') <= OutChanBuffer
    BY <1>5, WatcherAssumption DEF WatcherAssumption, WriteOK
  <2>2. QED
    BY <1>1, <1>4, <1>5, <2>1 DEF WriteOK
<1>10. Clock' /\ SeenInTime' /\ InputsOfWindow'
  BY <1>1, <1>2 DEF Clock, Busy, SeenInTime, Horizon, InputsOfWindow, InWindow
<1>11. RowsApart'
  <2>1. Old(table)' /\ Old(hand)' /\ OneRow(table)' /\ OneRow(hand)' /\ Apart(table, hand)'
    BY <1>1, <1>2, <1>5 DEF RowsApart, Old, Before, Busy, OneRow, Apart
  <2>2. \A i \in DOMAIN out' : Old(out[i])' /\ OneRow(out'[i]) /\ Apart(table, out'[i])
    BY <1>1, <1>2, <1>5 DEF RowsApart, Old, Before, Busy
  <2>3. \A i \in DOMAIN out' : Apart(hand', out'[i])
    BY <1>5 DEF RowsApart
  <2>4. \A i, j \in DOMAIN out' : i # j => Apart(out'[i], out'[j])
    BY <1>5 DEF RowsApart
  <2>5. QED
    BY <1>1, <2>1, <2>2, <2>3, <2>4 DEF RowsApart, OneRow, Apart
<1>12. ReadLeads'
  <2>1. ASSUME NEW f \in read, Accounted(f) PROVE Accounted(f)'
    <3>1. CASE \E i \in 1..Len(out) : \E r \in out[i] : r.event = f
      <4>1. PICK i \in 1..Len(out) : \E r \in out[i] : r.event = f
        BY <3>1
      <4>2. CASE i = 1
        BY <1>5, <4>1, <4>2 DEF Accounted, Processing
      <4>3. CASE i # 1
        <5>1. DOMAIN out = 1..Len(out) /\ DOMAIN out' = 1..Len(out')
          BY <1>5 DEF WriteOK
        <5>2. i - 1 \in 1..Len(out') /\ out'[i - 1] = out[i]
          BY <1>5, <4>3, <5>1
        <5>3. \E k \in 1..Len(out') : \E r \in out'[k] : r.event = f
          BY <4>1, <5>2
        <5>4. QED
          BY <5>3 DEF Accounted, Processing
      <4>4. QED
        BY <4>2, <4>3
    <3>2. CASE ~ \E i \in 1..Len(out) : \E r \in out[i] : r.event = f
      BY <1>1, <1>2, <1>6, <2>1, <3>2 DEF Accounted, Processing
    <3>3. QED
      BY <3>1, <3>2
  <2>2. QED
    BY <1>1, <1>2, <2>1 DEF ReadLeads
<1>13. LateIsLate' /\ HandHeld'
  BY <1>1, <1>4 DEF LateIsLate, HandHeld
<1>14. NeverDown'
  BY <1>1, <1>2, <1>5 DEF NeverDown, NotDown
<1>15. CallsIdle' /\ CountedOut' /\ Closing'
  BY <1>2, <1>3 DEF CallsIdle, CountedOut, Closing
<1>16. QED
  BY <1>7, <1>8, <1>9, <1>10, <1>11, <1>12, <1>13, <1>14, <1>15

\* The writer goes over to draining, and ends when the channel is empty.
LEMMA DrainStep ==
  ASSUME WatcherInv, BeginDrain \/ DrainDone
  PROVE  WatcherInv'
<1> USE DEF WatcherInv, Types
<1>1. UNCHANGED <<now, visible, stamp, looks, tick, onTime, cancelled, dbFaults, table, out, hand, dropped, sentLate>>
  BY DEF BeginDrain, DrainDone, clockVars
<1>2. UNCHANGED <<poller, lastPoll, from, inputs, llmEnabled, verdict, passthrough, read, missed, capped>>
  BY DEF BeginDrain, DrainDone, pollVars
<1>3. UNCHANGED <<failures, openUntil, call>>
  BY DEF BeginDrain, DrainDone, breakerVars
<1>4. \/ writer = "run" /\ cancelled /\ writer' = "drain"
      \/ writer = "drain" /\ out = <<>> /\ writer' = "exit"
  BY DEF BeginDrain, DrainDone
<1>5. ClockOK' /\ LooksOK' /\ PollOK' /\ StopOK'
  BY <1>1, <1>2 DEF ClockOK, LooksOK, PollOK, StopOK
<1>6. AnswerOK' /\ BreakerTypeOK' /\ WriteOK'
  BY <1>1, <1>2, <1>3, <1>4 DEF AnswerOK, BreakerTypeOK, WriteOK
<1>7. Clock' /\ SeenInTime' /\ InputsOfWindow'
  BY <1>1, <1>2 DEF Clock, Busy, SeenInTime, Horizon, InputsOfWindow, InWindow
<1>8. RowsApart'
  BY <1>1, <1>2 DEF RowsApart, Old, Before, Busy, OneRow, Apart
<1>9. ReadLeads'
  <2>1. \A f \in read : Accounted(f) => Accounted(f)'
    BY <1>1, <1>2 DEF Accounted, Processing
  <2>2. QED
    BY <1>1, <1>2, <2>1 DEF ReadLeads
<1>10. LateIsLate' /\ HandHeld' /\ NeverDown'
  BY <1>1, <1>2, <1>4 DEF LateIsLate, HandHeld, NeverDown, NotDown
<1>11. CallsIdle' /\ CountedOut' /\ Closing'
  BY <1>2, <1>3 DEF CallsIdle, CountedOut, Closing
<1>12. QED
  BY <1>5, <1>6, <1>7, <1>8, <1>9, <1>10, <1>11

\* The batch in hand is inserted, whole, or given up.
LEMMA FlushStep ==
  ASSUME WatcherInv, FlushRows
  PROVE  WatcherInv'
<1> USE DEF WatcherInv, Types
<1>1. UNCHANGED <<now, visible, stamp, looks, tick, onTime, cancelled, out, sentLate>>
  BY DEF FlushRows, clockVars
<1>2. UNCHANGED <<poller, lastPoll, from, inputs, llmEnabled, verdict, passthrough, read, missed, capped>>
  BY DEF FlushRows, pollVars
<1>3. UNCHANGED <<failures, openUntil, call>>
  BY DEF FlushRows, breakerVars
<1>4. /\ hand' = {}
      /\ \/ table' = table \cup hand /\ dropped' = dropped
         \/ table' = table /\ dropped' = dropped \cup {r.event : r \in hand}
  BY DEF FlushRows
<1>5. writer \in {"insert", "drainInsert"} /\ writer' = IF writer = "insert" THEN "run" ELSE "drain"
  BY DEF FlushRows
<1>6. ClockOK' /\ LooksOK' /\ PollOK'
  BY <1>1, <1>2 DEF ClockOK, LooksOK, PollOK
<1>7. StopOK'
  <2>1. dbFaults' = dbFaults \/ (dbFaults < MaxDbFaults /\ dbFaults' = dbFaults + 1)
    BY DEF FlushRows
  <2>2. dbFaults' \in 0..MaxDbFaults
    BY <2>1, WatcherAssumption DEF WatcherAssumption, StopOK
  <2>3. QED
    BY <1>1, <2>2, Zenon DEF StopOK
<1>8. AnswerOK' /\ BreakerTypeOK'
  BY <1>2, <1>3 DEF AnswerOK, BreakerTypeOK
<1>9. WriteOK'
  <2>1. \A r \in hand : r.event \in Event
    BY DEF RowsApart, Old, ClockOK
  <2>2. table' \subseteq Row /\ dropped' \subseteq Event
    BY <1>4, <2>1 DEF WriteOK
  <2>3. QED
    BY <1>1, <1>4, <1>5, <2>2 DEF WriteOK
<1>10. Clock' /\ SeenInTime' /\ InputsOfWindow'
  BY <1>1, <1>2 DEF Clock, Busy, SeenInTime, Horizon, InputsOfWindow, InWindow
<1>11. RowsApart'
  <2>1. table' \subseteq table \cup hand
    BY <1>4
  <2>2. Old(table)' /\ Old(hand)' /\ \A i \in DOMAIN out' : Old(out[i])'
    BY <1>1, <1>2, <1>4, <2>1 DEF RowsApart, Old, Before, Busy
  <2>3. OneRow(table)'
    BY <2>1 DEF RowsApart, OneRow, Apart
  <2>4. \A i \in DOMAIN out : Apart(table', out[i])
    BY <2>1 DEF RowsApart, Apart
  <2>5. QED
    BY <1>1, <1>4, <2>2, <2>3, <2>4 DEF RowsApart, OneRow, Apart
<1>12. ReadLeads'
  <2>1. \A f \in read : Accounted(f) => Accounted(f)'
    BY <1>1, <1>2, <1>4 DEF Accounted, Processing
  <2>2. QED
    BY <1>1, <1>2, <2>1 DEF ReadLeads
<1>13. LateIsLate' /\ HandHeld'
  BY <1>1, <1>4, <1>5 DEF LateIsLate, HandHeld
<1>14. NeverDown'
  <2>1. NotDown(table')
    BY <1>4 DEF NeverDown, NotDown
  <2>2. QED
    BY <1>1, <1>2, <1>4, <2>1 DEF NeverDown, NotDown
<1>15. CallsIdle' /\ CountedOut' /\ Closing'
  BY <1>2, <1>3 DEF CallsIdle, CountedOut, Closing
<1>16. QED
  BY <1>6, <1>7, <1>8, <1>9, <1>10, <1>11, <1>12, <1>13, <1>14, <1>15

----------------------------------------------------------------------------
(* What holds in every reachable state *)

LEMMA WatcherStep ==
  ASSUME WatcherInv, [Next]_vars
  PROVE  WatcherInv'
<1>1. CASE Next
  <2>1. CASE Advance \/ Stop
    BY <2>1, ClockStep
  <2>2. CASE \E e \in Event : Insert(e)
    BY <2>2, InsertStep
  <2>3. CASE PollExit \/ Poll
    BY <2>3, PollStep
  <2>4. CASE FetchWindows \/ FetchFirewall
    BY <2>4, FetchStep
  <2>5. CASE Available
    BY <2>5, AvailableStep
  <2>6. CASE \E s \in Source : Infer(s)
    BY <2>6, InferStep
  <2>7. CASE Join
    BY <2>7, JoinStep
  <2>8. CASE Send
    BY <2>8, SendStep
  <2>9. CASE TakeBatch
    BY <2>9, TakeStep
  <2>10. CASE BeginDrain \/ DrainDone
    BY <2>10, DrainStep
  <2>11. CASE FlushRows
    BY <2>11, FlushStep
  <2>12. QED
    BY <1>1, <2>1, <2>2, <2>3, <2>4, <2>5, <2>6, <2>7, <2>8, <2>9, <2>10, <2>11 DEF Next
<1>2. CASE UNCHANGED vars
  <2> USE DEF WatcherInv, Types
  <2>1. UNCHANGED <<now, visible, stamp, looks, tick, onTime, cancelled, dbFaults>>
    BY <1>2 DEF vars, clockVars
  <2>2. UNCHANGED <<poller, lastPoll, from, inputs, llmEnabled, verdict, passthrough, read, missed, capped>>
    BY <1>2 DEF vars, pollVars
  <2>3. UNCHANGED <<out, writer, hand, table, dropped, sentLate>>
    BY <1>2 DEF vars, writeVars
  <2>4. UNCHANGED <<failures, openUntil, call>>
    BY <1>2 DEF vars, breakerVars
  <2>5. ClockOK' /\ LooksOK' /\ PollOK' /\ StopOK'
    BY <2>1, <2>2 DEF ClockOK, LooksOK, PollOK, StopOK
  <2>6. AnswerOK' /\ BreakerTypeOK' /\ WriteOK'
    BY <2>2, <2>3, <2>4 DEF AnswerOK, BreakerTypeOK, WriteOK
  <2>7. Clock' /\ SeenInTime' /\ InputsOfWindow'
    BY <2>1, <2>2 DEF Clock, Busy, SeenInTime, Horizon, InputsOfWindow, InWindow
  <2>8. RowsApart'
    BY <2>1, <2>2, <2>3 DEF RowsApart, Old, Before, Busy, OneRow, Apart
  <2>9. ReadLeads'
    <3>1. \A f \in read : Accounted(f) => Accounted(f)'
      BY <2>2, <2>3 DEF Accounted, Processing
    <3>2. QED
      BY <2>1, <2>2, <3>1 DEF ReadLeads
  <2>10. LateIsLate' /\ HandHeld' /\ NeverDown'
    BY <2>1, <2>2, <2>3 DEF LateIsLate, HandHeld, NeverDown, NotDown
  <2>11. CallsIdle' /\ CountedOut' /\ Closing'
    BY <2>2, <2>4 DEF CallsIdle, CountedOut, Closing
  <2>12. QED
    BY <2>5, <2>6, <2>7, <2>8, <2>9, <2>10, <2>11
<1>3. QED
  BY <1>1, <1>2

LEMMA WatcherInvAlways == Spec => []WatcherInv
BY WatcherMade, WatcherStep, PTL DEF Spec

\* The variables of the two goroutines, the ticker and the breaker keep their types.
THEOREM WatcherTypeCorrect == Spec => []TypeOK
BY WatcherInvAlways, SplitTypes, PTL

\* A row of the event tables is enriched at most once (poller.go, processWindow: the windows
\* are disjoint), however many ticks were dropped and wherever earlier batches still are.
THEOREM OneVerdictPerRow == Spec => []PassedOnce
<1>1. ASSUME WatcherInv PROVE PassedOnce
  <2> USE <1>1 DEF WatcherInv, Types
  <2>1. ASSUME NEW e \in Event PROVE Cardinality({r \in table : r.event = e}) <= 1
    <3> DEFINE Of == {r \in table : r.event = e}
    <3>1. CASE Of = {}
      BY <3>1, FS_EmptySet
    <3>2. CASE Of # {}
      <4>1. PICK r \in table : r.event = e
        BY <3>2
      <4>2. Of = {r}
        BY <4>1 DEF RowsApart, OneRow
      <4>3. Cardinality(Of) = 1
        BY <4>2, FS_Singleton
      <4>4. QED
        BY <4>3
    <3>3. QED
      BY <3>1, <3>2
  <2>2. \A i \in 1..Len(out) : Apart(table, out[i])
    BY DEF RowsApart, WriteOK
  <2>3. QED
    BY <2>1, <2>2 DEF PassedOnce, Apart
<1>2. QED
  BY <1>1, WatcherInvAlways, PTL

\* The windows leave no gap: a row inserted before the watermark passed its timestamp is
\* read once its window's fetches are done, or its SELECT failed or hit its LIMIT.
THEOREM NoGapBetweenWindows == Spec => []OnTimeIsRead
<1>1. ASSUME WatcherInv PROVE OnTimeIsRead
  <2> USE <1>1 DEF WatcherInv
  <2>1. poller \notin {"fetchWindows", "fetchFirewall"} => \A s \in Source : Horizon(s) = lastPoll
    BY DEF Horizon
  <2>2. \A e \in onTime : SourceOf[e] \in Source
    BY WatcherAssumption DEF WatcherAssumption, Types, ClockOK
  <2>3. QED
    BY <2>1, <2>2 DEF OnTimeIsRead, SeenInTime
<1>2. QED
  BY <1>1, WatcherInvAlways, PTL

\* Nothing that was read is lost without a trace, the exit of the writer leaves only what
\* came after Stop(), and passthrough plays no row down.
THEOREM EveryRowReadIsAccounted == Spec => []ReadIsAccounted
<1>1. ASSUME WatcherInv PROVE ReadIsAccounted
  <2> USE <1>1 DEF WatcherInv, Types
  <2>1. \A e \in read : \E f \in read :
          /\ SourceOf[f] = SourceOf[e] /\ looks[f] = looks[e]
          /\ (\E r \in table : r.event = f) \/ Processing(f) \/ f \in capped \cup dropped
    BY DEF ReadLeads, Accounted
  <2>2. writer = "exit" => \A i \in 1..Len(out) : \A r \in out[i] : r.event \in sentLate
    BY DEF LateIsLate, WriteOK
  <2>3. \A r \in table : r.pass => r.sev >= RuleSeverity[r.event]
    BY DEF NeverDown, NotDown
  <2>4. QED
    BY <2>1, <2>2, <2>3 DEF ReadIsAccounted
<1>2. QED
  BY <1>1, WatcherInvAlways, PTL

\* The two calls of a window share a breaker without a lock: once both have returned, one
\* that has counted enough failures is open (ollama.go, RecordFailure and RecordSuccess).
THEOREM BreakerOpensWhenCountedOut == Spec => []CountedOutIsOpen
<1>1. ASSUME WatcherInv PROVE CountedOutIsOpen
  BY <1>1, WatcherAssumption DEF WatcherAssumption, WatcherInv, CountedOut, CountedOutIsOpen, Returned
<1>2. QED
  BY <1>1, WatcherInvAlways, PTL
=============================================================================
