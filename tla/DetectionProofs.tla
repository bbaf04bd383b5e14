---------------------------- MODULE DetectionProofs ----------------------------
(***************************************************************************)
(* Proofs about the way of a Windows event: the agent on the host, the     *)
(* detectors that judge a row, the correlator that reads the rows, and the *)
(* process trees of a window.                                              *)
(***************************************************************************)
EXTENDS CorrelatorV1, ProcessChain, Agent, FiniteSetTheorems, WellFoundedInduction, TLAPS

----------------------------------------------------------------------------
(* Sequences, their elements, and sequences of sequences *)

\* The elements of a sequence that is joined to another, or cut in two.
LEMMA JoinAndCut ==
  ASSUME NEW T, NEW s \in Seq(T)
  PROVE  /\ ToSet(s) \subseteq T /\ ToSet(<<>>) = {} /\ Len(s) \in Nat
         /\ \A r \in Seq(T) : s \o r \in Seq(T) /\ ToSet(s \o r) = ToSet(s) \cup ToSet(r)
         /\ \A n \in 0..Len(s) : /\ SubSeq(s, 1, n) \in Seq(T) /\ Len(SubSeq(s, 1, n)) = n
                                 /\ SubSeq(s, n + 1, Len(s)) \in Seq(T)
                                 /\ ToSet(s) = ToSet(SubSeq(s, 1, n)) \cup ToSet(SubSeq(s, n + 1, Len(s)))
<1>1. ToSet(s) \subseteq T /\ ToSet(<<>>) = {} /\ Len(s) \in Nat
  BY DEF ToSet
<1>2. ASSUME NEW r \in Seq(T) PROVE s \o r \in Seq(T) /\ ToSet(s \o r) = ToSet(s) \cup ToSet(r)
  <2>1. s \o r \in Seq(T) /\ Len(s \o r) = Len(s) + Len(r)
    OBVIOUS
  <2>2. ToSet(s) \subseteq ToSet(s \o r)
    BY DEF ToSet
  <2>3. ToSet(r) \subseteq ToSet(s \o r)
    <3>1. ASSUME NEW i \in DOMAIN r PROVE r[i] \in ToSet(s \o r)
      <4>1. Len(s) + i \in DOMAIN (s \o r) /\ (s \o r)[Len(s) + i] = r[i]
        OBVIOUS
      <4>2. QED
        BY <4>1 DEF ToSet
    <3>2. QED
      BY <3>1 DEF ToSet
  <2>4. ToSet(s \o r) \subseteq ToSet(s) \cup ToSet(r)
    <3>1. ASSUME NEW i \in DOMAIN (s \o r) PROVE (s \o r)[i] \in ToSet(s) \cup ToSet(r)
      <4>1. CASE i <= Len(s)
        <5>1. i \in DOMAIN s /\ (s \o r)[i] = s[i]
          BY <4>1
        <5>2. QED
          BY <5>1 DEF ToSet
      <4>2. CASE ~ (i <= Len(s))
        <5>1. i - Len(s) \in DOMAIN r /\ (s \o r)[i] = r[i - Len(s)]
          BY <4>2
        <5>2. QED
          BY <5>1 DEF ToSet
      <4>3. QED
        BY <4>1, <4>2
    <3>2. QED
      BY <3>1 DEF ToSet
  <2>5. QED
    BY <2>1, <2>2, <2>3, <2>4
<1>3. ASSUME NEW n \in 0..Len(s)
      PROVE  /\ SubSeq(s, 1, n) \in Seq(T) /\ Len(SubSeq(s, 1, n)) = n
             /\ SubSeq(s, n + 1, Len(s)) \in Seq(T)
             /\ ToSet(s) = ToSet(SubSeq(s, 1, n)) \cup ToSet(SubSeq(s, n + 1, Len(s)))
  <2> DEFINE a == SubSeq(s, 1, n)
             b == SubSeq(s, n + 1, Len(s))
  <2>1. a \in Seq(T) /\ Len(a) = n /\ \A i \in 1..n : a[i] = s[i]
    OBVIOUS
  <2>2. b \in Seq(T) /\ Len(b) = Len(s) - n /\ \A i \in 1..(Len(s) - n) : b[i] = s[n + i]
    OBVIOUS
  <2> HIDE DEF a, b
  <2>3. ToSet(a) \subseteq ToSet(s) /\ ToSet(b) \subseteq ToSet(s)
    <3>1. \A i \in DOMAIN a : i \in DOMAIN s /\ a[i] = s[i]
      BY <2>1
    <3>2. \A i \in DOMAIN b : n + i \in DOMAIN s /\ b[i] = s[n + i]
      BY <2>2
    <3>3. QED
      BY <3>1, <3>2 DEF ToSet
  <2>4. ToSet(s) \subseteq ToSet(a) \cup ToSet(b)
    <3>1. ASSUME NEW i \in DOMAIN s PROVE s[i] \in ToSet(a) \cup ToSet(b)
      <4>1. CASE i <= n
        <5>1. i \in DOMAIN a /\ a[i] = s[i]
          BY <2>1, <4>1
        <5>2. QED
          BY <5>1 DEF ToSet
      <4>2. CASE ~ (i <= n)
        <5>1. i - n \in DOMAIN b /\ b[i - n] = s[i]
          BY <2>2, <4>2
        <5>2. QED
          BY <5>1 DEF ToSet
      <4>3. QED
        BY <4>1, <4>2
    <3>2. QED
      BY <3>1 DEF ToSet
  <2>5. QED
    BY <2>1, <2>2, <2>3, <2>4 DEF a, b
<1>4. QED
  BY <1>1, <1>2, <1>3

\* SetToSeq lists a finite set.
LEMMA Listed ==
  ASSUME NEW S, IsFiniteSet(S)
  PROVE  SetToSeq(S) \in Seq(S) /\ ToSet(SetToSeq(S)) = S
<1> DEFINE n == Cardinality(S)
           g == SetToSeq(S)
<1>1. n \in Nat /\ ExistsBijection(1..n, S)
  BY FS_CardinalityType
<1>2. \E f \in [1..n -> S] : IsInjective(f)
  BY <1>1 DEF ExistsBijection, Bijection, Injection, IsInjective
<1>3. g \in [1..n -> S] /\ IsInjective(g)
  BY <1>2 DEF SetToSeq
<1> HIDE DEF g
<1>4. g \in Injection(1..n, S)
  BY <1>3 DEF Injection, IsInjective
<1>5. Cardinality(1..n) = n
  BY <1>1, FS_Interval
<1>6. g \in Surjection(1..n, S)
  BY <1>4, <1>5, FS_Injection
<1>7. g \in Seq(S) /\ DOMAIN g = 1..n
  BY <1>1, <1>3
<1>8. ToSet(g) = S
  BY <1>6, <1>7 DEF Surjection, ToSet
<1>9. QED
  BY <1>7, <1>8 DEF g

\* The elements of all the sequences of a sequence.
Spread(ps) == UNION {ToSet(ps[i]) : i \in DOMAIN ps}

\* Two elements in front of a sequence.
LEMMA TwoFirst ==
  ASSUME NEW S, NEW x \in S, NEW y \in S
  PROVE  /\ <<x, y>> \in Seq(S) /\ Len(<<x, y>>) = 2 /\ <<x, y>>[1] = x /\ <<x, y>>[2] = y
         /\ \A two \in Seq(S), q \in Seq(S) : Len(two) = 2 =>
              /\ two \o q \in Seq(S) /\ Len(two \o q) = Len(q) + 2 /\ Len(q) \in Nat
              /\ (two \o q)[1] = two[1] /\ (two \o q)[2] = two[2]
              /\ \A i \in DOMAIN q : (two \o q)[i + 2] = q[i]
<1>1. <<x, y>> \in Seq(S) /\ Len(<<x, y>>) = 2 /\ <<x, y>>[1] = x /\ <<x, y>>[2] = y
  OBVIOUS
<1>2. ASSUME NEW two \in Seq(S), NEW q \in Seq(S), Len(two) = 2
      PROVE  /\ two \o q \in Seq(S) /\ Len(two \o q) = Len(q) + 2 /\ Len(q) \in Nat
             /\ (two \o q)[1] = two[1] /\ (two \o q)[2] = two[2]
             /\ \A i \in DOMAIN q : (two \o q)[i + 2] = q[i]
  <2>1. /\ two \o q \in Seq(S) /\ Len(two \o q) = Len(two) + Len(q) /\ Len(q) \in Nat
        /\ \A i \in 1..Len(two) : (two \o q)[i] = two[i]
        /\ \A i \in 1..Len(q) : (two \o q)[i + Len(two)] = q[i]
    OBVIOUS
  <2>2. 1 \in 1..Len(two) /\ 2 \in 1..Len(two) /\ DOMAIN q = 1..Len(q)
    BY <1>2
  <2>3. QED
    BY <1>2, <2>1, <2>2
<1>3. QED
  BY <1>1, <1>2

LEMMA SpreadOver ==
  ASSUME NEW T, NEW ps \in Seq(Seq(T))
  PROVE  /\ Spread(<<>>) = {} /\ Spread(ps) \subseteq T
         /\ \A s \in Seq(T) : <<s>> \in Seq(Seq(T)) /\ Spread(<<s>>) = ToSet(s)
         /\ ps # <<>> => /\ Head(ps) \in Seq(T) /\ Tail(ps) \in Seq(Seq(T))
                         /\ Spread(ps) = ToSet(Head(ps)) \cup Spread(Tail(ps))
         /\ \A s, r \in Seq(T) : /\ <<s, r>> \o ps \in Seq(Seq(T))
                                 /\ Spread(<<s, r>> \o ps) = ToSet(s) \cup ToSet(r) \cup Spread(ps)
<1>1. Spread(<<>>) = {}
  BY DEF Spread
<1>2. Spread(ps) \subseteq T
  <2>1. \A i \in DOMAIN ps : ToSet(ps[i]) \subseteq T
    BY JoinAndCut
  <2>2. QED
    BY <2>1 DEF Spread
<1>3. ASSUME NEW s \in Seq(T) PROVE <<s>> \in Seq(Seq(T)) /\ Spread(<<s>>) = ToSet(s)
  BY DEF Spread
<1>4. ASSUME ps # <<>>
      PROVE  /\ Head(ps) \in Seq(T) /\ Tail(ps) \in Seq(Seq(T))
             /\ Spread(ps) = ToSet(Head(ps)) \cup Spread(Tail(ps))
  <2>1. Head(ps) \in Seq(T) /\ Tail(ps) \in Seq(Seq(T)) /\ 1 \in DOMAIN ps /\ Head(ps) = ps[1]
    BY <1>4
  <2>2. \A i \in DOMAIN Tail(ps) : i + 1 \in DOMAIN ps /\ Tail(ps)[i] = ps[i + 1]
    BY <1>4
  <2>3. \A i \in DOMAIN ps : i # 1 => i - 1 \in DOMAIN Tail(ps) /\ Tail(ps)[i - 1] = ps[i]
    BY <1>4
  <2>4. ToSet(Head(ps)) \cup Spread(Tail(ps)) \subseteq Spread(ps)
    BY <2>1, <2>2 DEF Spread
  <2>5. ASSUME NEW i \in DOMAIN ps PROVE ToSet(ps[i]) \subseteq ToSet(Head(ps)) \cup Spread(Tail(ps))
    <3>1. CASE i = 1
      BY <2>1, <3>1
    <3>2. CASE i # 1
      BY <2>3, <3>2 DEF Spread
    <3>3. QED
      BY <3>1, <3>2
  <2>6. Spread(ps) \subseteq ToSet(Head(ps)) \cup Spread(Tail(ps))
    BY <2>5 DEF Spread
  <2>7. QED
    BY <2>1, <2>4, <2>6
<1>5. ASSUME NEW s \in Seq(T), NEW r \in Seq(T)
      PROVE  /\ <<s, r>> \o ps \in Seq(Seq(T))
             /\ Spread(<<s, r>> \o ps) = ToSet(s) \cup ToSet(r) \cup Spread(ps)
  <2> DEFINE two == <<s, r>>
             all == two \o ps
  <2>1. two \in Seq(Seq(T)) /\ Len(two) = 2 /\ two[1] = s /\ two[2] = r
    BY TwoFirst
  <2> HIDE DEF two
  <2>2. /\ all \in Seq(Seq(T)) /\ Len(all) = Len(ps) + 2 /\ Len(ps) \in Nat
        /\ all[1] = s /\ all[2] = r /\ \A i \in DOMAIN ps : all[i + 2] = ps[i]
    <3>1. PICK S : S = Seq(T)
      OBVIOUS
    <3>2. s \in S /\ r \in S /\ two \in Seq(S) /\ ps \in Seq(S)
      BY <2>1, <3>1
    <3>3. /\ all \in Seq(S) /\ Len(all) = Len(ps) + 2 /\ Len(ps) \in Nat
          /\ all[1] = two[1] /\ all[2] = two[2] /\ \A i \in DOMAIN ps : all[i + 2] = ps[i]
      BY <2>1, <3>2, TwoFirst, SMTT(30)
    <3>4. QED
      BY <2>1, <3>1, <3>3
  <2> HIDE DEF all
  <2>3. DOMAIN all = 1..Len(ps) + 2 /\ DOMAIN ps = 1..Len(ps)
    BY <2>2
  <2>4. 1 \in DOMAIN all /\ 2 \in DOMAIN all /\ \A i \in DOMAIN ps : i + 2 \in DOMAIN all
    <3>1. PICK n \in Nat : n = Len(ps)
      BY <2>2
    <3>2. DOMAIN all = 1..n + 2 /\ DOMAIN ps = 1..n
      BY <2>3, <3>1
    <3>3. QED
      BY <3>2
  <2>5. ToSet(s) \cup ToSet(r) \cup Spread(ps) \subseteq Spread(all)
    BY <2>2, <2>4 DEF Spread
  <2>6. ASSUME NEW i \in DOMAIN all PROVE ToSet(all[i]) \subseteq ToSet(s) \cup ToSet(r) \cup Spread(ps)
    <3>1. CASE i \in {1, 2}
      BY <2>2, <3>1
    <3>2. CASE i \notin {1, 2}
      <4>1. i \in 1..(Len(ps) + 2) /\ DOMAIN ps = 1..Len(ps)
        BY <2>2
      <4> DEFINE n == Len(ps)
      <4>2. n \in Nat /\ i \in 1..(n + 2) /\ i # 1 /\ i # 2
        BY <2>2, <3>2, <4>1
      <4> HIDE DEF n
      <4>3. i - 2 \in 1..n /\ (i - 2) + 2 = i
        BY <4>2
      <4>4. i - 2 \in DOMAIN ps /\ (i - 2) + 2 = i
        BY <4>1, <4>3 DEF n
      <4>5. all[i] = ps[i - 2]
        BY <2>2, <4>4
      <4>6. QED
        BY <4>4, <4>5 DEF Spread
    <3>3. QED
      BY <3>1, <3>2
  <2>7. Spread(all) \subseteq ToSet(s) \cup ToSet(r) \cup Spread(ps)
    BY <2>6 DEF Spread
  <2>8. QED
    BY <2>2, <2>5, <2>7 DEF two, all
<1>6. QED
  BY <1>1, <1>2, <1>3, <1>4, <1>5

----------------------------------------------------------------------------
(* The agent: its invariant *)

AgentSpec == AgentInit /\ [][AgentNext]_agentVars

AgentTypes ==
  /\ clock \in 1..MaxSeconds
  /\ written \in [Record -> Nat] /\ IsFiniteSet({e \in Record : written[e] # 0})
  /\ lastTimestamp \in Nat /\ currentTime \in Nat
  /\ iteration \in {"asleep", "query", "send"}
  /\ unqueried \subseteq Logs /\ events \in Seq(Record) /\ pieces \in Seq(Seq(Record))
  /\ batchOk \in BOOLEAN /\ useHttpApi \in BOOLEAN
  /\ fallbackFile \in [1..MaxSeconds -> SUBSET Record]
  /\ queued \subseteq Record
  /\ unread \cup unconfirmed \cup overwritten \cup unwatched \subseteq Record

\* Both watermarks and the writings are of the past.
ClockLeads ==
  /\ lastTimestamp <= clock /\ currentTime <= clock
  /\ \A e \in Record : written[e] <= clock

\* What the agent has done its part for, or lost for a cause that is known.
Kept(e) ==
  \/ e \in queued
  \/ \E t \in DOMAIN fallbackFile : e \in fallbackFile[t]
  \/ e \in unread \cup unconfirmed \cup overwritten \cup unwatched

\* An event between the watermarks is still to be read or to be sent, or it is kept.
NothingSkipped ==
  iteration # "asleep" =>
    \A e \in Record :
      written[e] # 0 /\ lastTimestamp <= written[e] /\ written[e] < currentTime =>
        LogOf[e] \in unqueried \/ e \in ToSet(events) \/ Kept(e)

\* While a batch counts as sent, each of its events is in a slice to come or is kept.
BatchKept ==
  iteration = "send" /\ batchOk =>
    \A e \in ToSet(FirstBatch) : e \in Spread(pieces) \/ Kept(e)

AgentInv == AgentTypes /\ ClockLeads /\ NothingSkipped /\ BatchKept /\ AgentLossHasCause

\* The first batch and the rest are the events.
LEMMA BatchAndRest ==
  ASSUME events \in Seq(Record)
  PROVE  /\ FirstBatch \in Seq(Record) /\ RestOfEvents \in Seq(Record)
         /\ ToSet(events) = ToSet(FirstBatch) \cup ToSet(RestOfEvents)
         /\ ToSet(FirstBatch) \subseteq Record
<1> DEFINE n == IF Len(events) < AgentBatch THEN Len(events) ELSE AgentBatch
<1>1. n \in 0..Len(events)
  BY AgentAssumption
<1>2. FirstBatch = SubSeq(events, 1, n)
  BY DEF FirstBatch
<1> HIDE DEF n
<1>3. FirstBatch \in Seq(Record) /\ Len(FirstBatch) = n
  BY <1>1, <1>2, JoinAndCut
<1>4. RestOfEvents = SubSeq(events, n + 1, Len(events))
  BY <1>3 DEF RestOfEvents
<1>5. /\ SubSeq(events, n + 1, Len(events)) \in Seq(Record)
      /\ ToSet(events) = ToSet(SubSeq(events, 1, n)) \cup ToSet(SubSeq(events, n + 1, Len(events)))
  BY <1>1, JoinAndCut
<1>6. ToSet(FirstBatch) \subseteq Record
  BY <1>3, JoinAndCut
<1>7. QED
  BY <1>2, <1>3, <1>4, <1>5, <1>6

\* What Get-EventsInTimeRange finds in a log is a list of the events of the range.
LEMMA FoundInLog ==
  ASSUME AgentTypes, NEW log \in Logs
  PROVE  /\ InRange(log) \subseteq Record
         /\ SetToSeq(InRange(log)) \in Seq(Record)
         /\ ToSet(SetToSeq(InRange(log))) = InRange(log)
<1>1. InRange(log) \subseteq {e \in Record : written[e] # 0}
  BY DEF InRange
<1>2. IsFiniteSet(InRange(log))
  BY <1>1, FS_Subset DEF AgentTypes
<1> DEFINE found == InRange(log)
<1>3. found \subseteq Record /\ IsFiniteSet(found)
  BY <1>1, <1>2
<1> HIDE DEF found
<1>4. SetToSeq(found) \in Seq(found) /\ ToSet(SetToSeq(found)) = found
  BY <1>3, Listed
<1>5. SetToSeq(found) \in Seq(Record)
  BY <1>3, <1>4
<1>6. QED
  BY <1>3, <1>4, <1>5 DEF found

\* Halving the slice at the head keeps what is to be sent.
LEMMA HalvesSpread ==
  ASSUME AgentTypes, HttpSplits
  PROVE  pieces' \in Seq(Seq(Record)) /\ Spread(pieces') = Spread(pieces)
<1> DEFINE piece == Head(pieces)
           rest == Tail(pieces)
           mid == Len(piece) \div 2
           left == SubSeq(piece, 1, mid)
           right == SubSeq(piece, mid + 1, Len(piece))
<1>1. pieces # <<>> /\ pieces' = <<left, right>> \o rest
  BY DEF HttpSplits, Sending
<1>2. piece \in Seq(Record) /\ rest \in Seq(Seq(Record)) /\ Spread(pieces) = ToSet(piece) \cup Spread(rest)
  BY <1>1, SpreadOver DEF AgentTypes
<1> HIDE DEF piece, rest
<1>3. mid \in 0..Len(piece)
  <2>1. Len(piece) \in Nat
    BY <1>2, JoinAndCut
  <2>2. \A n \in Nat : n \div 2 \in 0..n
    OBVIOUS
  <2>3. QED
    BY <2>1, <2>2
<1> HIDE DEF mid
<1>4. left \in Seq(Record) /\ right \in Seq(Record) /\ ToSet(piece) = ToSet(left) \cup ToSet(right)
  BY <1>2, <1>3, JoinAndCut
<1> HIDE DEF left, right
<1>5. /\ <<left, right>> \o rest \in Seq(Seq(Record))
      /\ Spread(<<left, right>> \o rest) = ToSet(left) \cup ToSet(right) \cup Spread(rest)
  BY <1>2, <1>4, SpreadOver
<1>6. QED
  BY <1>1, <1>2, <1>4, <1>5

----------------------------------------------------------------------------
(* What is kept stays kept *)

\* No step undoes what was done for an event: a file that is written again in its
\* second leaves its old events among the overwritten ones.
LEMMA KeptStays ==
  ASSUME AgentTypes, AgentNext
  PROVE  \A e \in Record : Kept(e) => Kept(e)'
<1>1. CASE \/ Second \/ (\E e \in Record : Write(e)) \/ BeginIteration \/ NextBatch \/ EndIteration
           \/ AmqpThrows \/ HttpSplits
  BY <1>1 DEF Second, Write, BeginIteration, NextBatch, EndIteration, AmqpThrows, HttpSplits, causeVars, loopVars, Kept
<1>2. CASE \E log \in Logs : QueryLog(log)
  BY <1>2 DEF QueryLog, Kept
<1>3. CASE AmqpSend \/ HttpSend \/ HttpFails
  BY <1>3 DEF AmqpSend, HttpSend, HttpFails, causeVars, Kept
<1>4. CASE FinishBatch
  <2>1. CASE UNCHANGED <<fallbackFile, overwritten>>
    BY <1>4, <2>1 DEF FinishBatch, Kept
  <2>2. CASE SaveToFallback(TRUE)
    <3>1. /\ fallbackFile' = [fallbackFile EXCEPT ![clock] = ToSet(FirstBatch)]
          /\ overwritten' = overwritten \cup (fallbackFile[clock] \ ToSet(FirstBatch))
      BY <2>2 DEF SaveToFallback
    <3>2. /\ DOMAIN fallbackFile' = DOMAIN fallbackFile /\ clock \in DOMAIN fallbackFile
          /\ fallbackFile'[clock] = ToSet(FirstBatch)
          /\ \A t \in DOMAIN fallbackFile : t # clock => fallbackFile'[t] = fallbackFile[t]
      BY <3>1 DEF AgentTypes
    <3>3. /\ queued' = queued /\ unread' = unread /\ unconfirmed' = unconfirmed
          /\ unwatched' = unwatched
      BY <1>4 DEF FinishBatch
    <3>4. ASSUME NEW e \in Record, NEW t \in DOMAIN fallbackFile, e \in fallbackFile[t]
          PROVE  e \in overwritten' \/ \E u \in DOMAIN fallbackFile' : e \in fallbackFile'[u]
      <4>1. CASE t # clock
        BY <3>2, <3>4, <4>1
      <4>2. CASE t = clock
        BY <3>1, <3>2, <3>4, <4>2
      <4>3. QED
        BY <4>1, <4>2
    <3>5. overwritten \subseteq overwritten'
      BY <3>1
    <3>6. QED
      BY <3>3, <3>4, <3>5 DEF Kept
  <2>3. CASE SaveToFallback(FALSE)
    <3>1. fallbackFile' = fallbackFile /\ overwritten \subseteq overwritten'
      BY <2>3 DEF SaveToFallback
    <3>2. QED
      BY <1>4, <3>1 DEF FinishBatch, Kept
  <2>4. QED
    BY <1>4, <2>1, <2>2, <2>3 DEF FinishBatch
<1>5. CASE Restart
  BY <1>5 DEF Restart, Kept
<1>6. QED
  BY <1>1, <1>2, <1>3, <1>4, <1>5 DEF AgentNext

----------------------------------------------------------------------------
(* The agent: every step keeps the invariant *)

LEMMA AgentStart == AgentInit => AgentInv
<1> SUFFICES ASSUME AgentInit PROVE AgentInv
  OBVIOUS
<1>1. {e \in Record : written[e] # 0} = {}
  BY DEF AgentInit
<1>2. IsFiniteSet({e \in Record : written[e] # 0})
  BY <1>1, FS_EmptySet
<1>3. events \in Seq(Record) /\ pieces \in Seq(Seq(Record))
  BY DEF AgentInit
<1>4. Interval + 1 \in 1..MaxSeconds
  BY AgentAssumption
<1>5. AgentTypes
  BY <1>2, <1>3, <1>4 DEF AgentInit, AgentTypes
<1>6. ClockLeads /\ AgentLossHasCause
  BY AgentAssumption DEF AgentInit, ClockLeads, AgentLossHasCause
<1>7. NothingSkipped /\ BatchKept
  BY DEF AgentInit, NothingSkipped, BatchKept
<1>8. QED
  BY <1>5, <1>6, <1>7 DEF AgentInv

LEMMA AgentTypesKept ==
  ASSUME AgentTypes, AgentNext
  PROVE  AgentTypes'
<1>1. CASE Second
  BY <1>1, AgentAssumption DEF Second, AgentTypes, causeVars, loopVars
<1>2. ASSUME NEW e \in Record, Write(e) PROVE AgentTypes'
  <2>1. written' \in [Record -> Nat]
    BY <1>2 DEF Write, AgentTypes
  <2>2. {d \in Record : written'[d] # 0} \subseteq {d \in Record : written[d] # 0} \cup {e}
    BY <1>2 DEF Write, AgentTypes
  <2>3. IsFiniteSet({d \in Record : written[d] # 0} \cup {e})
    BY FS_AddElement DEF AgentTypes
  <2>4. IsFiniteSet({d \in Record : written'[d] # 0})
    BY <2>2, <2>3, FS_Subset
  <2>5. QED
    BY <1>2, <2>1, <2>4 DEF Write, AgentTypes, causeVars, loopVars
<1>3. CASE BeginIteration
  BY <1>3 DEF BeginIteration, AgentTypes, causeVars
<1>4. ASSUME NEW log \in Logs, QueryLog(log) PROVE AgentTypes'
  <2>1. events' \in Seq(Record)
    <3>1. events \o SetToSeq(InRange(log)) \in Seq(Record)
      BY FoundInLog, JoinAndCut DEF AgentTypes
    <3>2. QED
      BY <1>4, <3>1 DEF QueryLog, AgentTypes
  <2>2. unread' \subseteq Record /\ unqueried' \subseteq Logs
    BY <1>4, FoundInLog DEF QueryLog, AgentTypes
  <2>3. QED
    BY <1>4, <2>1, <2>2 DEF QueryLog, AgentTypes
<1>5. CASE NextBatch
  <2>1. pieces' \in Seq(Seq(Record))
    BY <1>5, BatchAndRest, SpreadOver DEF NextBatch, AgentTypes
  <2>2. QED
    BY <1>5, <2>1 DEF NextBatch, AgentTypes, causeVars
<1>6. CASE EndIteration
  BY <1>6 DEF EndIteration, AgentTypes, causeVars
<1>7. CASE AmqpThrows
  BY <1>7 DEF AmqpThrows, AgentTypes, causeVars, loopVars
<1>8. CASE AmqpSend \/ HttpSend \/ HttpFails
  <2>1. ToSet(Head(pieces)) \subseteq Record /\ pieces' \in Seq(Seq(Record))
    <3>1. pieces # <<>> /\ pieces' = Tail(pieces)
      BY <1>8 DEF AmqpSend, HttpSend, HttpFails, Sending
    <3>2. Head(pieces) \in Seq(Record) /\ Tail(pieces) \in Seq(Seq(Record))
      BY <3>1, SpreadOver DEF AgentTypes
    <3>3. QED
      BY <3>1, <3>2, JoinAndCut
  <2>2. queued' \subseteq Record /\ unconfirmed' \subseteq Record
    BY <1>8, <2>1 DEF AmqpSend, HttpSend, HttpFails, AgentTypes, causeVars
  <2>3. batchOk' \in BOOLEAN
    BY <1>8 DEF AmqpSend, HttpSend, HttpFails, AgentTypes
  <2>4. UNCHANGED <<clock, written, lastTimestamp, currentTime, iteration, unqueried, events,
                    useHttpApi, fallbackFile, unread, overwritten, unwatched>>
    BY <1>8 DEF AmqpSend, HttpSend, HttpFails, causeVars
  <2>5. QED
    BY <2>1, <2>2, <2>3, <2>4 DEF AgentTypes
<1>9. CASE HttpSplits
  <2>1. pieces' \in Seq(Seq(Record))
    BY <1>9, HalvesSpread DEF AgentTypes
  <2>2. QED
    BY <1>9, <2>1 DEF HttpSplits, AgentTypes, causeVars
<1>10. CASE FinishBatch
  <2>1. events' \in Seq(Record)
    BY <1>10, BatchAndRest DEF FinishBatch, AgentTypes
  <2>2. ToSet(FirstBatch) \subseteq Record
    BY BatchAndRest DEF AgentTypes
  <2>3. fallbackFile' \in [1..MaxSeconds -> SUBSET Record] /\ overwritten' \subseteq Record
    BY <1>10, <2>2 DEF FinishBatch, SaveToFallback, AgentTypes
  <2>4. QED
    BY <1>10, <2>1, <2>3 DEF FinishBatch, AgentTypes
<1>11. CASE Restart
  <2>1. events' \in Seq(Record) /\ pieces' \in Seq(Seq(Record)) /\ lastTimestamp' \in Nat
    BY <1>11, AgentAssumption DEF Restart, AgentTypes
  <2>2. QED
    BY <1>11, <2>1 DEF Restart, AgentTypes
<1>12. QED
  BY <1>1, <1>2, <1>3, <1>4, <1>5, <1>6, <1>7, <1>8, <1>9, <1>10, <1>11 DEF AgentNext

LEMMA ClockLeadsKept ==
  ASSUME AgentTypes, ClockLeads, AgentNext
  PROVE  ClockLeads'
<1>1. CASE Second
  BY <1>1 DEF Second, AgentTypes, ClockLeads, loopVars
<1>2. ASSUME NEW e \in Record, Write(e) PROVE ClockLeads'
  BY <1>2 DEF Write, AgentTypes, ClockLeads, loopVars
<1>3. CASE BeginIteration \/ EndIteration
  BY <1>3 DEF BeginIteration, EndIteration, AgentTypes, ClockLeads
<1>4. CASE Restart
  BY <1>4, AgentAssumption DEF Restart, AgentTypes, ClockLeads
<1>5. CASE \/ (\E log \in Logs : QueryLog(log)) \/ NextBatch \/ AmqpSend \/ AmqpThrows \/ HttpSend
           \/ HttpFails \/ HttpSplits \/ FinishBatch
  <2>1. UNCHANGED <<clock, written, lastTimestamp, currentTime>>
    BY <1>5 DEF QueryLog, NextBatch, AmqpSend, AmqpThrows, HttpSend, HttpFails, HttpSplits,
                FinishBatch, loopVars
  <2>2. QED
    BY <2>1 DEF ClockLeads
<1>6. QED
  BY <1>1, <1>2, <1>3, <1>4, <1>5 DEF AgentNext

\* Nothing falls between two reads: what the next watermark passes was read, or could
\* not be.
LEMMA NothingSkippedKept ==
  ASSUME AgentTypes, ClockLeads, NothingSkipped, BatchKept, AgentNext
  PROVE  NothingSkipped'
<1>1. \A e \in Record : Kept(e) => Kept(e)'
  BY KeptStays
<1>2. CASE \/ Second \/ NextBatch \/ AmqpSend \/ AmqpThrows \/ HttpSend \/ HttpFails \/ HttpSplits
  <2>1. UNCHANGED <<written, lastTimestamp, currentTime, unqueried, events>> /\ (iteration' # "asleep" => iteration # "asleep")
    BY <1>2 DEF Second, NextBatch, AmqpSend, AmqpThrows, HttpSend, HttpFails, HttpSplits, loopVars, Sending
  <2>2. QED
    BY <1>1, <2>1 DEF NothingSkipped
<1>3. ASSUME NEW w \in Record, Write(w) PROVE NothingSkipped'
  <2>1. UNCHANGED <<lastTimestamp, currentTime, iteration, unqueried, events>>
    BY <1>3 DEF Write, loopVars
  <2>2. \A e \in Record : e # w => written'[e] = written[e]
    BY <1>3 DEF Write, AgentTypes
  <2>3. written'[w] = clock /\ ~ (clock < currentTime)
    BY <1>3 DEF Write, AgentTypes, ClockLeads
  <2>4. QED
    BY <1>1, <2>1, <2>2, <2>3 DEF NothingSkipped
<1>4. CASE BeginIteration
  <2>1. unqueried' = Logs /\ \A e \in Record : LogOf[e] \in Logs
    BY <1>4 DEF BeginIteration, Logs
  <2>2. QED
    BY <2>1 DEF NothingSkipped
<1>5. ASSUME NEW log \in Logs, QueryLog(log) PROVE NothingSkipped'
  <2>1. UNCHANGED <<written, lastTimestamp, currentTime, iteration>> /\ unqueried' = unqueried \ {log}
    BY <1>5 DEF QueryLog
  <2>2. /\ ToSet(events) \subseteq ToSet(events')
        /\ \A e \in InRange(log) : e \in ToSet(events') \/ e \in unread'
    <3>1. CASE events' = events \o SetToSeq(InRange(log))
      <4>1. ToSet(events') = ToSet(events) \cup ToSet(SetToSeq(InRange(log)))
        BY <3>1, FoundInLog, JoinAndCut DEF AgentTypes
      <4>2. QED
        BY <4>1, FoundInLog
    <3>2. CASE unread' = unread \cup InRange(log) /\ events' = events
      BY <3>2
    <3>3. QED
      BY <1>5, <3>1, <3>2 DEF QueryLog
  <2>3. ASSUME NEW e \in Record, iteration' # "asleep",
               written[e] # 0, lastTimestamp <= written[e], written[e] < currentTime, LogOf[e] = log
        PROVE  e \in InRange(log)
    BY <2>3 DEF InRange, AgentTypes
  <2>4. UNCHANGED currentTime
    BY <2>1
  <2>5. ASSUME NEW e \in Record, iteration' # "asleep",
               written'[e] # 0, lastTimestamp' <= written'[e], written'[e] < currentTime'
        PROVE  LogOf[e] \in unqueried' \/ e \in ToSet(events') \/ Kept(e)'
    <3>1. LogOf[e] \in unqueried \/ e \in ToSet(events) \/ Kept(e)
      BY <2>1, <2>5 DEF NothingSkipped
    <3>2. CASE LogOf[e] = log
      <4>1. e \in ToSet(events') \/ e \in unread'
        BY <2>1, <2>2, <2>3, <2>5, <3>2
      <4>2. QED
        BY <4>1 DEF Kept
    <3>3. CASE LogOf[e] # log
      BY <1>1, <2>1, <2>2, <3>1, <3>3
    <3>4. QED
      BY <3>2, <3>3
  <2>6. QED
    BY <2>5 DEF NothingSkipped
<1>6. CASE FinishBatch
  <2>1. /\ UNCHANGED <<written, lastTimestamp, currentTime, unqueried, queued, unread, unconfirmed, unwatched>>
        /\ iteration = "send" /\ pieces = <<>> /\ events' = RestOfEvents
    BY <1>6 DEF FinishBatch
  <2>2. ToSet(events) = ToSet(FirstBatch) \cup ToSet(events') /\ ToSet(FirstBatch) \subseteq Record
    BY <2>1, BatchAndRest DEF AgentTypes
  <2>3. \A e \in ToSet(FirstBatch) : Kept(e)'
    <3>1. CASE batchOk
      <4>1. \A e \in ToSet(FirstBatch) : Kept(e)
        BY <2>1, <3>1, SpreadOver DEF BatchKept, AgentTypes
      <4>2. QED
        BY <1>1, <2>2, <4>1
    <3>2. CASE SaveToFallback(TRUE)
      <4>1. clock \in DOMAIN fallbackFile' /\ fallbackFile'[clock] = ToSet(FirstBatch)
        BY <3>2 DEF SaveToFallback, AgentTypes
      <4>2. QED
        BY <4>1 DEF Kept
    <3>3. CASE SaveToFallback(FALSE)
      <4>1. ToSet(FirstBatch) \subseteq overwritten'
        BY <3>3 DEF SaveToFallback
      <4>2. QED
        BY <4>1 DEF Kept
    <3>4. QED
      BY <1>6, <3>1, <3>2, <3>3 DEF FinishBatch
  <2>4. QED
    BY <1>1, <2>1, <2>2, <2>3 DEF NothingSkipped
<1>7. CASE EndIteration \/ Restart
  BY <1>7 DEF EndIteration, Restart, NothingSkipped
<1>8. QED
  BY <1>2, <1>3, <1>4, <1>5, <1>6, <1>7 DEF AgentNext

LEMMA BatchKeptKept ==
  ASSUME AgentTypes, BatchKept, AgentNext
  PROVE  BatchKept'
<1>1. \A e \in Record : Kept(e) => Kept(e)'
  BY KeptStays
<1>2. ToSet(FirstBatch) \subseteq Record
  BY BatchAndRest DEF AgentTypes
<1>3. CASE Second \/ (\E e \in Record : Write(e)) \/ AmqpThrows
  <2>1. UNCHANGED <<iteration, batchOk, events, pieces>>
    BY <1>3 DEF Second, Write, AmqpThrows, loopVars
  <2>2. FirstBatch' = FirstBatch
    BY <2>1 DEF FirstBatch
  <2>3. QED
    BY <1>1, <1>2, <2>1, <2>2 DEF BatchKept
<1>4. CASE BeginIteration \/ (\E log \in Logs : QueryLog(log)) \/ EndIteration \/ FinishBatch \/ Restart
  BY <1>4 DEF BeginIteration, QueryLog, EndIteration, FinishBatch, Restart, BatchKept
<1>5. CASE NextBatch
  <2>1. pieces' = <<FirstBatch>> /\ events' = events
    BY <1>5 DEF NextBatch
  <2>2. FirstBatch' = FirstBatch
    BY <2>1 DEF FirstBatch
  <2>3. Spread(pieces') = ToSet(FirstBatch)
    BY <2>1, BatchAndRest, SpreadOver DEF AgentTypes
  <2>4. QED
    BY <2>2, <2>3 DEF BatchKept
<1>6. CASE AmqpSend \/ HttpSend
  <2>1. /\ pieces # <<>> /\ pieces' = Tail(pieces) /\ UNCHANGED <<iteration, batchOk, events>>
        /\ ToSet(Head(pieces)) \subseteq queued' \cup unconfirmed'
    BY <1>6 DEF AmqpSend, HttpSend, Sending, causeVars
  <2>2. FirstBatch' = FirstBatch
    BY <2>1 DEF FirstBatch
  <2>3. Spread(pieces) = ToSet(Head(pieces)) \cup Spread(pieces')
    BY <2>1, SpreadOver DEF AgentTypes
  <2>4. \A e \in ToSet(Head(pieces)) : Kept(e)'
    BY <2>1 DEF Kept
  <2>5. QED
    BY <1>1, <1>2, <2>1, <2>2, <2>3, <2>4 DEF BatchKept
<1>7. CASE HttpFails
  BY <1>7 DEF HttpFails, BatchKept
<1>8. CASE HttpSplits
  <2>1. UNCHANGED <<iteration, batchOk, events>>
    BY <1>8 DEF HttpSplits
  <2>2. FirstBatch' = FirstBatch
    BY <2>1 DEF FirstBatch
  <2>3. Spread(pieces') = Spread(pieces)
    BY <1>8, HalvesSpread
  <2>4. QED
    BY <1>1, <1>2, <2>1, <2>2, <2>3 DEF BatchKept
<1>9. QED
  BY <1>3, <1>4, <1>5, <1>6, <1>7, <1>8 DEF AgentNext

LEMMA LossKept ==
  ASSUME AgentTypes, ClockLeads, NothingSkipped, AgentLossHasCause, AgentNext
  PROVE  AgentLossHasCause'
<1>1. \A e \in Record : Kept(e) => Kept(e)'
  BY KeptStays
<1>2. \A e \in Record : written[e] # 0 /\ written[e] < lastTimestamp => Kept(e)
  BY DEF AgentLossHasCause, Kept
<1>3. \A e \in Record : written'[e] # 0 /\ written'[e] < lastTimestamp' => Kept(e)'
  <2>1. CASE EndIteration
    <3>1. /\ lastTimestamp' = currentTime /\ written' = written
          /\ iteration # "asleep" /\ unqueried = {} /\ events = <<>>
      BY <2>1 DEF EndIteration
    <3>2. ToSet(events) = {}
      BY <3>1, JoinAndCut DEF AgentTypes
    <3>3. \A e \in Record : written[e] # 0 /\ lastTimestamp <= written[e] /\ written[e] < currentTime => Kept(e)
      BY <3>1, <3>2 DEF NothingSkipped
    <3>4. \A e \in Record : written[e] \in Nat /\ lastTimestamp \in Nat
      BY DEF AgentTypes
    <3>5. \A e \in Record : written[e] # 0 /\ written[e] < currentTime => Kept(e)
      BY <1>2, <3>3, <3>4
    <3>6. QED
      BY <1>1, <3>1, <3>5
  <2>2. CASE Restart
    <3>1. written' = written /\ lastTimestamp' = clock - Interval
          /\ {e \in Record : written[e] # 0 /\ written[e] < clock - Interval} \subseteq unwatched'
      BY <2>2 DEF Restart
    <3>2. QED
      BY <3>1 DEF Kept
  <2>3. ASSUME NEW w \in Record, Write(w)
        PROVE  \A e \in Record : written'[e] # 0 /\ written'[e] < lastTimestamp' => Kept(e)'
    <3>1. lastTimestamp' = lastTimestamp /\ \A e \in Record : e # w => written'[e] = written[e]
      BY <2>3 DEF Write, loopVars, AgentTypes
    <3>2. written'[w] = clock /\ ~ (clock < lastTimestamp)
      BY <2>3 DEF Write, AgentTypes, ClockLeads
    <3>3. QED
      BY <1>1, <1>2, <3>1, <3>2
  <2>4. CASE \/ Second \/ BeginIteration \/ (\E log \in Logs : QueryLog(log)) \/ NextBatch
             \/ AmqpSend \/ AmqpThrows \/ HttpSend \/ HttpFails \/ HttpSplits \/ FinishBatch
    <3>1. UNCHANGED <<written, lastTimestamp>>
      BY <2>4 DEF Second, BeginIteration, QueryLog, NextBatch, AmqpSend, AmqpThrows, HttpSend,
                  HttpFails, HttpSplits, FinishBatch, loopVars
    <3>2. QED
      BY <1>1, <1>2, <3>1
  <2>5. QED
    BY <2>1, <2>2, <2>3, <2>4 DEF AgentNext
<1>4. QED
  BY <1>3 DEF AgentLossHasCause, Kept

LEMMA AgentStep == AgentInv /\ [AgentNext]_agentVars => AgentInv'
<1>1. ASSUME AgentInv, AgentNext PROVE AgentInv'
  <2>1. AgentTypes' /\ ClockLeads'
    BY <1>1, AgentTypesKept, ClockLeadsKept DEF AgentInv
  <2>2. NothingSkipped' /\ BatchKept' /\ AgentLossHasCause'
    BY <1>1, NothingSkippedKept, BatchKeptKept, LossKept DEF AgentInv
  <2>3. QED
    BY <2>1, <2>2 DEF AgentInv
<1>2. ASSUME AgentInv, UNCHANGED agentVars PROVE AgentInv'
  <2>1. /\ UNCHANGED <<clock, written, lastTimestamp, currentTime, iteration, unqueried, events, pieces, batchOk>>
        /\ UNCHANGED <<useHttpApi, fallbackFile, queued, unread, unconfirmed, overwritten, unwatched>>
    BY <1>2 DEF agentVars, loopVars, causeVars
  <2>2. FirstBatch' = FirstBatch
    BY <2>1 DEF FirstBatch
  <2>3. \A e : Kept(e)' <=> Kept(e)
    BY <2>1 DEF Kept
  <2>4. AgentTypes' /\ ClockLeads' /\ AgentLossHasCause'
    BY <1>2, <2>1 DEF AgentInv, AgentTypes, ClockLeads, AgentLossHasCause
  <2>5. NothingSkipped' /\ BatchKept'
    BY <1>2, <2>1, <2>2, <2>3 DEF AgentInv, NothingSkipped, BatchKept
  <2>6. QED
    BY <2>4, <2>5 DEF AgentInv
<1>3. QED
  BY <1>1, <1>2

\* The agent of source_side/ULS_Agent.ps1 leaves no gap: an event that is older than the
\* watermark was delivered, lies in a fallback file, or has a cause in the history -
\* however iterations, failed batches, splits, the switch to HTTP and restarts interleave.
THEOREM AgentLosesForACause == AgentSpec => []AgentLossHasCause
<1>1. AgentInv => AgentLossHasCause
  BY DEF AgentInv
<1>2. QED
  BY <1>1, AgentStart, AgentStep, PTL DEF AgentSpec
----------------------------------------------------------------------------
(* The detectors: the first rule that applies *)

\* A set of indices has a least one.
LEMMA LeastIndex ==
  ASSUME NEW S, S \subseteq Nat, S # {}
  PROVE  Min(S) \in S /\ \A n \in S : Min(S) <= n
<1> DEFINE less == {p \in Nat \X Nat : p[1] < p[2]}
<1>1. IsWellFoundedOn(less, Nat)
  BY NatLessThanWellFounded DEF OpToRel
<1>2. \A x, y \in Nat : y < x => <<y, x>> \in less
  OBVIOUS
<1> HIDE DEF less
<1>3. PICK x \in S : \A y \in S : ~ (<<y, x>> \in less)
  <2>1. PICK indices : indices = S
    OBVIOUS
  <2>2. indices \subseteq Nat /\ indices # {}
    BY <2>1
  <2>3. \E x \in indices : \A y \in indices : ~ (<<y, x>> \in less)
    BY <1>1, <2>2, WFMin
  <2>4. QED
    BY <2>1, <2>3
<1>4. \A y \in S : x \in Nat /\ y \in Nat /\ ~ (y < x)
  BY <1>2, <1>3
<1>5. \A y \in S : x <= y
  BY <1>4
<1>6. QED
  BY <1>5 DEF Min

\* A rule function returns a rule that applies, at the first place where one does.
LEMMA FirstRuleApplies ==
  ASSUME NEW list, DOMAIN list \subseteq Nat, NEW e
  PROVE  \/ /\ FirstRule(list, e) = Nothing
            /\ \A n \in DOMAIN list : ~ Applies(list[n], e)
         \/ \E n \in DOMAIN list : /\ FirstRule(list, e) = list[n] /\ Applies(list[n], e)
                                   /\ \A m \in DOMAIN list : Applies(list[m], e) => n <= m
<1> DEFINE hits == {n \in DOMAIN list : Applies(list[n], e)}
<1>1. CASE hits = {}
  BY <1>1 DEF FirstRule
<1>2. CASE hits # {}
  <2>1. Min(hits) \in hits /\ \A n \in hits : Min(hits) <= n
    BY <1>2, LeastIndex
  <2>2. FirstRule(list, e) = list[Min(hits)]
    BY <1>2 DEF FirstRule
  <2>3. QED
    BY <2>1, <2>2
<1>3. QED
  BY <1>1, <1>2

\* Detect returns what the first function returns that names a technique.
LEMMA DetectEventDecides ==
  ASSUME NEW e, DOMAIN Chain(e) \subseteq Nat
  PROVE  \/ /\ DetectEvent(e) = Nothing
            /\ \A i \in DOMAIN Chain(e) : FirstRule(Chain(e)[i], e).technique = NoTechnique
         \/ \E i \in DOMAIN Chain(e) :
              /\ DetectEvent(e) = FirstRule(Chain(e)[i], e)
              /\ DetectEvent(e).technique # NoTechnique
              /\ \A k \in DOMAIN Chain(e) : FirstRule(Chain(e)[k], e).technique # NoTechnique => i <= k
<1>1. PICK chain : chain = Chain(e)
  OBVIOUS
<1> DEFINE deciding == Deciding(chain, e)
<1>2. deciding = {i \in DOMAIN chain : FirstRule(chain[i], e).technique # NoTechnique}
  BY DEF Deciding
<1>3. DetectEvent(e) = IF deciding = {} THEN Nothing ELSE FirstRule(chain[Min(deciding)], e)
  BY <1>1 DEF DetectEvent
<1> HIDE DEF deciding
<1>4. CASE deciding = {}
  BY <1>1, <1>2, <1>3, <1>4
<1>5. CASE deciding # {}
  <2>1. Min(deciding) \in deciding /\ \A n \in deciding : Min(deciding) <= n
    BY <1>1, <1>2, <1>5, LeastIndex
  <2>2. QED
    BY <1>1, <1>2, <1>3, <1>5, <2>1
<1>6. QED
  BY <1>4, <1>5

----------------------------------------------------------------------------
(* The Windows detector: the rules of one event number *)

\* Signs that only come with others, and signs whose rule an earlier one shadows.
Companion == {"port", "graphics_dll", "hooking_image"}
Shadowed == {"cobalt_strike_pipe", "remote_system_discovery", "removable_c2"}

\* Each rule has a technique; one that is not dead asks for no sign that never shows, and
\* for no other number than the event's.
Proper(list, id) ==
  /\ DOMAIN list \subseteq Nat
  /\ \A n \in DOMAIN list :
       /\ list[n].technique # NoTechnique
       /\ list[n].needs \cap (CapitalPattern \cup Shadowed) # {} => list[n].needs \in Unreachable
       /\ list[n].needs \notin Unreachable /\ CanShow(id, list[n].needs \ EventID) =>
            list[n].needs \cap EventID \subseteq {id}

\* An event that shows what s asks for makes r apply.
Covered(r, s, id) == r.needs \subseteq s.needs \cup Companion \cup {id}

Ordered(list, id) == \A m, n \in DOMAIN list : m < n => ~ Covered(list[m], list[n], id)
Apart(first, second, id) == \A m \in DOMAIN first, n \in DOMAIN second : ~ Covered(first[m], second[n], id)

\* No event that shows what one rule asks for makes an earlier one apply.
Separated(chain, id) ==
  /\ DOMAIN chain \subseteq Nat
  /\ \A i \in DOMAIN chain : /\ Proper(chain[i], id) /\ Ordered(chain[i], id)
                            /\ \A k \in DOMAIN chain : k < i => Apart(chain[k], chain[i], id)

\* The signs, and numbers, that each function called for a process creation looks at.
SignsOf1 == <<
   {"powershell", "powershell_encoded", "powershell_download", "powershell_bypass", "powershell_hidden",
      "amsi_bypass", "cmd", "cmd_suspicious", "wscript", "mshta", "rundll32", "script_url", "regsvr32",
      "silent_install", "certutil", "decode_or_urlcache", "bitsadmin", "transfer", "mimikatz", "psexec",
      "shadow_delete", "bcdedit", "clear_logs", "office_parent", "script_child"},
   {"recursive_copy", "network_copy", "removable_media", "screen_capture", "video_capture",
      "audio_capture", "clipboard", "keylogging", "archive", "staging_copy", "copy_loop"},
   {"account_discovery", "system_information", "process_discovery", "service_scanning",
      "network_configuration", "file_discovery", "share_discovery", "remote_system_discovery", "bookmarks",
      "query_registry"},
   {"4624", "krbtgt", "sniffing", "password_store", "credential_files", "forged_credentials"},
   {"winrm", "remote_exploit", "ssh", "shared_content", "removable_copy", "rdp_hijack", "deployment_tool"},
   {"tunnel", "anonymizer", "encryption_tool", "tool_transfer", "remote_access", "raw_protocol", "22",
      "generated_name", "suspicious_tld", "web_service", "removable_c2", "port_knocking"},
   {"automated_transfer", "c2_upload", "file_transfer", "cloud_upload", "physical_media",
      "scheduled_transfer"},
   {"ransom_extension", "backup_delete", "service_stop", "shutdown", "destruction", "disk_wipe",
      "account_removal", "endpoint_dos", "defacement", "4740"},
   {"token_privilege", "privilege_exploit"},
   {"client_exploit", "user_execution", "wmic", "process_call", "msbuild", "installutil"},
   {"drive_by", "public_application", "external_access"} >>

Within(list, signs) == \A n \in DOMAIN list : list[n].needs # {} /\ list[n].needs \subseteq signs

\* The eleven functions of a process creation, each by itself.
LEMMA ProperRulesOf1 == \A i \in 1..11 : Proper(SysmonChain("1")[i], "1")
<1> USE DEF Proper, NoTechnique, CapitalPattern, Shadowed, Unreachable, EventID, SysmonID, SecurityID, SystemID,
            CanShow, FileNameSign, QueryNameSign, ServiceSign, Rule
<1>1. Proper(detectProcessCreation, "1")
  BY SMTT(30) DEF detectProcessCreation, PowerShellRules, ProcessRules
<1>2. Proper(CollectionFromProcess, "1")
  BY DEF CollectionFromProcess
<1>3. Proper(detectDiscovery, "1")
  BY DEF detectDiscovery
<1>4. Proper(detectCredentialAccessAdditional, "1")
  BY DEF detectCredentialAccessAdditional
<1>5. Proper(detectLateralMovementAdditional, "1")
  BY DEF detectLateralMovementAdditional
<1>6. Proper(detectCommandAndControlAdditional, "1")
  BY SMTT(30) DEF detectCommandAndControlAdditional
<1>7. Proper(detectExfiltrationAdditional, "1")
  BY DEF detectExfiltrationAdditional
<1>8. Proper(detectImpactAdditional, "1")
  BY DEF detectImpactAdditional
<1>9. Proper(detectPrivilegeEscalationAdditional, "1")
  BY DEF detectPrivilegeEscalationAdditional
<1>10. Proper(detectExecutionAdditional, "1")
  BY DEF detectExecutionAdditional
<1>11. Proper(detectInitialAccessAdditional, "1")
  BY DEF detectInitialAccessAdditional
<1> HIDE DEF Proper
<1>12. QED
  BY <1>1, <1>2, <1>3, <1>4, <1>5, <1>6, <1>7, <1>8, <1>9, <1>10, <1>11 DEF SysmonChain

\* One sign of each rule of detectProcessCreation that no other rule of it looks at, and the
\* signs these rules look at besides.
OwnSigns == <<
  "powershell_encoded", "powershell_download", "powershell_bypass", "amsi_bypass", "cmd", "wscript",
  "mshta", "rundll32", "regsvr32", "certutil", "bitsadmin", "mimikatz", "psexec", "shadow_delete",
  "bcdedit", "clear_logs", "office_parent" >>
OtherSigns ==
  {"powershell", "powershell_hidden", "cmd_suspicious", "script_url", "silent_install",
   "decode_or_urlcache", "transfer", "script_child"}

\* own[n] is a sign that the n-th rule alone looks at.
Owned(list, own, others, id) ==
  /\ \A n \in DOMAIN list : own[n] \in list[n].needs
  /\ \A n \in DOMAIN list : list[n].needs \subseteq others \cup {own[n]}
  /\ \A n \in DOMAIN list : own[n] \notin others \cup Companion \cup {id}
  /\ \A m, n \in DOMAIN list : m < n => own[m] # own[n]

\* Rules that each have a sign of their own are ordered.
LEMMA OwnSignsOrder ==
  ASSUME NEW list, NEW own, NEW others, NEW id, Owned(list, own, others, id)
  PROVE  Ordered(list, id)
<1>1. ASSUME NEW m \in DOMAIN list, NEW n \in DOMAIN list, m < n
      PROVE  ~ Covered(list[m], list[n], id)
  <2>1. own[m] \in list[m].needs /\ own[m] # own[n]
    BY <1>1 DEF Owned
  <2>2. own[m] \notin list[n].needs \cup Companion \cup {id}
    BY <2>1 DEF Owned
  <2>3. QED
    BY <2>1, <2>2 DEF Covered
<1>2. QED
  BY <1>1 DEF Ordered

LEMMA OrderedRulesOf1 == \A i \in 1..11 : Ordered(SysmonChain("1")[i], "1")
<1> USE DEF Ordered, Covered, Companion, Rule
<1>1. Ordered(detectProcessCreation, "1")
  <2> HIDE DEF Ordered, Covered, Companion
  <2> DEFINE list == detectProcessCreation
  <2>1. DOMAIN list = 1..17
    BY DEF detectProcessCreation, PowerShellRules, ProcessRules
  <2>2. \A n \in 1..17 : OwnSigns[n] \in list[n].needs
    BY SMTT(30) DEF detectProcessCreation, PowerShellRules, ProcessRules, OwnSigns
  <2>3. \A n \in 1..17 : list[n].needs \subseteq OtherSigns \cup {OwnSigns[n]}
    BY SMTT(30) DEF detectProcessCreation, PowerShellRules, ProcessRules, OwnSigns, OtherSigns
  <2>4. \A n \in 1..17 : OwnSigns[n] \notin OtherSigns \cup Companion \cup {"1"}
    BY SMTT(30) DEF OwnSigns, OtherSigns, Companion
  <2>5. \A m, n \in 1..17 : m < n => OwnSigns[m] # OwnSigns[n]
    BY SMTT(30) DEF OwnSigns
  <2> HIDE DEF list
  <2>6. Owned(list, OwnSigns, OtherSigns, "1")
    BY <2>1, <2>2, <2>3, <2>4, <2>5 DEF Owned
  <2>7. Ordered(list, "1")
    BY <2>6, OwnSignsOrder
  <2>8. QED
    BY <2>7 DEF list
<1>2. Ordered(CollectionFromProcess, "1")
  BY DEF CollectionFromProcess
<1>3. Ordered(detectDiscovery, "1")
  BY DEF detectDiscovery
<1>4. Ordered(detectCredentialAccessAdditional, "1")
  BY DEF detectCredentialAccessAdditional
<1>5. Ordered(detectLateralMovementAdditional, "1")
  BY DEF detectLateralMovementAdditional
<1>6. Ordered(detectCommandAndControlAdditional, "1")
  BY DEF detectCommandAndControlAdditional
<1>7. Ordered(detectExfiltrationAdditional, "1")
  BY DEF detectExfiltrationAdditional
<1>8. Ordered(detectImpactAdditional, "1")
  BY DEF detectImpactAdditional
<1>9. Ordered(detectPrivilegeEscalationAdditional, "1")
  BY DEF detectPrivilegeEscalationAdditional
<1>10. Ordered(detectExecutionAdditional, "1")
  BY DEF detectExecutionAdditional
<1>11. Ordered(detectInitialAccessAdditional, "1")
  BY DEF detectInitialAccessAdditional
<1> HIDE DEF Ordered
<1>12. QED
  BY <1>1, <1>2, <1>3, <1>4, <1>5, <1>6, <1>7, <1>8, <1>9, <1>10, <1>11 DEF SysmonChain

LEMMA SignsOfTheFunctions == \A i \in 1..11 : Within(SysmonChain("1")[i], SignsOf1[i])
<1> USE DEF Within, SignsOf1, Rule
<1>1. Within(detectProcessCreation, SignsOf1[1])
  BY SMTT(30) DEF detectProcessCreation, PowerShellRules, ProcessRules
<1>2. Within(CollectionFromProcess, SignsOf1[2])
  BY DEF CollectionFromProcess
<1>3. Within(detectDiscovery, SignsOf1[3])
  BY DEF detectDiscovery
<1>4. Within(detectCredentialAccessAdditional, SignsOf1[4])
  BY DEF detectCredentialAccessAdditional
<1>5. Within(detectLateralMovementAdditional, SignsOf1[5])
  BY DEF detectLateralMovementAdditional
<1>6. Within(detectCommandAndControlAdditional, SignsOf1[6])
  BY DEF detectCommandAndControlAdditional
<1>7. Within(detectExfiltrationAdditional, SignsOf1[7])
  BY DEF detectExfiltrationAdditional
<1>8. Within(detectImpactAdditional, SignsOf1[8])
  BY DEF detectImpactAdditional
<1>9. Within(detectPrivilegeEscalationAdditional, SignsOf1[9])
  BY DEF detectPrivilegeEscalationAdditional
<1>10. Within(detectExecutionAdditional, SignsOf1[10])
  BY DEF detectExecutionAdditional
<1>11. Within(detectInitialAccessAdditional, SignsOf1[11])
  BY DEF detectInitialAccessAdditional
<1> HIDE DEF Within, SignsOf1
<1>12. QED
  BY <1>1, <1>2, <1>3, <1>4, <1>5, <1>6, <1>7, <1>8, <1>9, <1>10, <1>11 DEF SysmonChain

\* No two functions look at the same sign.
LEMMA SignsAreApart ==
  \A i, k \in 1..11 : k < i => SignsOf1[k] \cap (SignsOf1[i] \cup Companion \cup {"1"}) = {}
<1> USE DEF SignsOf1, Companion
<1>1. \A i \in 2..11 : SignsOf1[1] \cap (SignsOf1[i] \cup Companion \cup {"1"}) = {}
  OBVIOUS
<1>2. \A i \in 3..11 : SignsOf1[2] \cap (SignsOf1[i] \cup Companion \cup {"1"}) = {}
  OBVIOUS
<1>3. \A i \in 4..11 : SignsOf1[3] \cap (SignsOf1[i] \cup Companion \cup {"1"}) = {}
  OBVIOUS
<1>4. \A i \in 5..11 : SignsOf1[4] \cap (SignsOf1[i] \cup Companion \cup {"1"}) = {}
  OBVIOUS
<1>5. \A i \in 6..11 : SignsOf1[5] \cap (SignsOf1[i] \cup Companion \cup {"1"}) = {}
  OBVIOUS
<1>6. \A i \in 7..11 : SignsOf1[6] \cap (SignsOf1[i] \cup Companion \cup {"1"}) = {}
  OBVIOUS
<1>7. \A i \in 8..11 : SignsOf1[7] \cap (SignsOf1[i] \cup Companion \cup {"1"}) = {}
  OBVIOUS
<1>8. \A i \in 9..11 : SignsOf1[8] \cap (SignsOf1[i] \cup Companion \cup {"1"}) = {}
  OBVIOUS
<1>9. \A i \in 10..11 : SignsOf1[9] \cap (SignsOf1[i] \cup Companion \cup {"1"}) = {}
  OBVIOUS
<1>10. \A i \in 11..11 : SignsOf1[10] \cap (SignsOf1[i] \cup Companion \cup {"1"}) = {}
  OBVIOUS
<1> HIDE DEF SignsOf1, Companion
<1>11. ASSUME NEW i \in 1..11, NEW k \in 1..11, k < i
       PROVE  SignsOf1[k] \cap (SignsOf1[i] \cup Companion \cup {"1"}) = {}
  <2>1. k \in {1, 2, 3, 4, 5, 6, 7, 8, 9, 10} /\ i \in k + 1..11
    BY <1>11
  <2>2. QED
    BY <2>1, <1>1, <1>2, <1>3, <1>4, <1>5, <1>6, <1>7, <1>8, <1>9, <1>10
<1>12. QED
  BY <1>11

\* Functions that look at different signs are apart.
LEMMA OtherSignsAreApart ==
  ASSUME NEW a, NEW b, NEW V, NEW W, NEW id, Within(a, V), Within(b, W),
         V \cap (W \cup Companion \cup {id}) = {}
  PROVE  Apart(a, b, id)
<1>1. SUFFICES ASSUME NEW m \in DOMAIN a, NEW n \in DOMAIN b, Covered(a[m], b[n], id) PROVE FALSE
  BY DEF Apart
<1>2. PICK sign : sign \in a[m].needs /\ sign \in V
  BY DEF Within
<1>3. sign \in W \cup Companion \cup {id}
  BY <1>1, <1>2 DEF Covered, Within
<1>4. QED
  BY <1>2, <1>3

\* So the eleven are separated, in their order.
LEMMA SeparatedIn1 == Separated(SysmonChain("1"), "1")
<1>1. PICK chain : chain = SysmonChain("1")
  OBVIOUS
<1>2. DOMAIN chain = 1..11
  BY <1>1 DEF SysmonChain
<1>3. ASSUME NEW i \in 1..11, NEW k \in 1..11, k < i PROVE Apart(chain[k], chain[i], "1")
  BY <1>1, <1>3, SignsOfTheFunctions, SignsAreApart, OtherSignsAreApart
<1>4. \A i \in 1..11 : Proper(chain[i], "1") /\ Ordered(chain[i], "1")
  BY <1>1, ProperRulesOf1, OrderedRulesOf1
<1>5. QED
  BY <1>1, <1>2, <1>3, <1>4 DEF Separated

\* One function that is called alone, or two of them one after the other.
LEMMA ShortChains ==
  ASSUME NEW id, NEW a, Proper(a, id), Ordered(a, id)
  PROVE  /\ Separated(<<a>>, id)
         /\ \A b : Proper(b, id) /\ Ordered(b, id) /\ Apart(a, b, id) => Separated(<<a, b>>, id)
<1>1. Separated(<<a>>, id)
  BY DEF Separated
<1>2. ASSUME NEW b, Proper(b, id), Ordered(b, id), Apart(a, b, id) PROVE Separated(<<a, b>>, id)
  BY <1>2 DEF Separated
<1>3. QED
  BY <1>1, <1>2

\* The functions of the other numbers, event by event.
LEMMA SeparatedInSysmon == \A id \in SysmonID : Separated(SysmonChain(id), id)
<1> USE DEF Proper, Ordered, Apart, Covered, Companion, NoTechnique, CapitalPattern, Shadowed, Unreachable,
            EventID, SysmonID, SecurityID, SystemID, CanShow, FileNameSign, QueryNameSign, ServiceSign, Rule
<1>1. /\ Proper(detectNetworkConnection, "3") /\ Ordered(detectNetworkConnection, "3")
      /\ Proper(detectRemoteThread, "8") /\ Ordered(detectRemoteThread, "8")
      /\ Proper(detectProcessAccess, "10") /\ Ordered(detectProcessAccess, "10")
  BY DEF detectNetworkConnection, detectRemoteThread, detectProcessAccess
<1>2. /\ Proper(detectImageLoad, "7") /\ Ordered(detectImageLoad, "7")
      /\ Proper(CollectionFromImage, "7") /\ Ordered(CollectionFromImage, "7")
      /\ Apart(detectImageLoad, CollectionFromImage, "7")
  BY DEF detectImageLoad, CollectionFromImage
<1>3. /\ Proper(detectFileCreate, "11") /\ Ordered(detectFileCreate, "11")
      /\ Proper(CollectionFromFile, "11") /\ Ordered(CollectionFromFile, "11")
      /\ Apart(detectFileCreate, CollectionFromFile, "11")
  BY DEF detectFileCreate, CollectionFromFile
<1>4. \A id \in {"12", "13", "14"} : Proper(detectRegistryEvent, id) /\ Ordered(detectRegistryEvent, id)
  BY DEF detectRegistryEvent
<1>5. \A id \in {"17", "18"} : Proper(detectPipeEvent, id) /\ Ordered(detectPipeEvent, id)
  BY DEF detectPipeEvent
<1>6. /\ Proper(detectDNSQuery, "22") /\ Ordered(detectDNSQuery, "22")
      /\ Apart(detectDNSQuery, detectCommandAndControlAdditional, "22")
  <2>1. Proper(detectDNSQuery, "22")
    BY DEF detectDNSQuery
  <2>2. Ordered(detectDNSQuery, "22")
    BY DEF detectDNSQuery
  <2>3. Apart(detectDNSQuery, detectCommandAndControlAdditional, "22")
    BY DEF detectDNSQuery, detectCommandAndControlAdditional
  <2>4. QED
    BY <2>1, <2>2, <2>3
<1>7. /\ Proper(detectCommandAndControlAdditional, "22") /\ Ordered(detectCommandAndControlAdditional, "22")
  BY DEF detectCommandAndControlAdditional
<1>8. /\ Proper(detectFileDelete, "23") /\ Ordered(detectFileDelete, "23")
      /\ Apart(detectFileDelete, detectImpactAdditional, "23")
  BY DEF detectFileDelete, detectImpactAdditional
<1>9. Proper(detectImpactAdditional, "23") /\ Ordered(detectImpactAdditional, "23")
  BY DEF detectImpactAdditional
<1> HIDE DEF Proper, Ordered, Apart
<1>10. ASSUME NEW id \in SysmonID PROVE Separated(SysmonChain(id), id)
  <2>1. CASE id = "1"
    BY <2>1, SeparatedIn1
  <2>2. CASE id \in {"3", "8", "10", "12", "13", "14", "17", "18"}
    BY <1>1, <1>4, <1>5, <2>2, ShortChains DEF SysmonChain
  <2>3. CASE id \in {"7", "11", "22", "23"}
    BY <1>2, <1>3, <1>6, <1>7, <1>8, <1>9, <2>3, ShortChains DEF SysmonChain
  <2>4. QED
    BY <2>1, <2>2, <2>3
<1>11. QED
  BY <1>10

LEMMA SeparatedInOtherLogs ==
  /\ \A id \in SecurityID : Separated(SecurityChain(id), id)
  /\ \A id \in SystemID : Separated(SystemChain(id), id)
<1>1. \A id : /\ Proper(detectScheduledTaskCreation, id) /\ Ordered(detectScheduledTaskCreation, id)
             /\ Proper(detectRDPSession, id) /\ Ordered(detectRDPSession, id)
  BY DEF detectScheduledTaskCreation, detectRDPSession, Proper, Ordered, Rule, NoTechnique
<1> USE DEF Proper, Ordered, Covered, Companion, NoTechnique, CapitalPattern, Shadowed, Unreachable,
            EventID, SysmonID, SecurityID, SystemID, CanShow, FileNameSign, QueryNameSign, ServiceSign, Rule
<1>2. /\ Proper(detectLogonSuccess, "4624") /\ Ordered(detectLogonSuccess, "4624")
      /\ Proper(detectLogonFailure, "4625") /\ Ordered(detectLogonFailure, "4625")
      /\ Proper(detectExplicitCredentials, "4648") /\ Ordered(detectExplicitCredentials, "4648")
      /\ Proper(detectPrivilegeAssignment, "4672") /\ Ordered(detectPrivilegeAssignment, "4672")
      /\ Proper(detectSecurityProcessCreation, "4688") /\ Ordered(detectSecurityProcessCreation, "4688")
      /\ Proper(detectServiceInstall, "4697") /\ Ordered(detectServiceInstall, "4697")
  BY DEF detectLogonSuccess, detectLogonFailure, detectExplicitCredentials, detectPrivilegeAssignment,
         detectSecurityProcessCreation, detectServiceInstall
<1>3. /\ Proper(detectUserCreation, "4720") /\ Ordered(detectUserCreation, "4720")
      /\ Proper(detectGroupMembership, "4732") /\ Ordered(detectGroupMembership, "4732")
  BY DEF detectUserCreation, detectGroupMembership
<1>4. /\ Proper(detectKerberosTGT, "4768") /\ Ordered(detectKerberosTGT, "4768")
      /\ Proper(detectKerberosServiceTicket, "4769") /\ Ordered(detectKerberosServiceTicket, "4769")
      /\ Proper(detectNTLMAuth, "4776") /\ Ordered(detectNTLMAuth, "4776")
  BY DEF detectKerberosTGT, detectKerberosServiceTicket, detectNTLMAuth
<1>5. Proper(detectShareAccess, "5140") /\ Ordered(detectShareAccess, "5140")
  BY DEF detectShareAccess
<1>6. /\ Proper(detectSystemServiceInstall, "7045") /\ Ordered(detectSystemServiceInstall, "7045")
      /\ Proper(detectServiceStateChange, "7036") /\ Ordered(detectServiceStateChange, "7036")
      /\ Proper(detectLogCleared, "104") /\ Ordered(detectLogCleared, "104")
  BY DEF detectSystemServiceInstall, detectServiceStateChange, detectLogCleared
<1> HIDE DEF Proper, Ordered
<1>7. \A id : Separated(<<>>, id)
  BY DEF Separated
<1>8. ASSUME NEW id \in SecurityID PROVE Separated(SecurityChain(id), id)
  <2>1. CASE id \in {"4624", "4625", "4648", "4672", "4688", "4697"}
    BY <1>2, <2>1, ShortChains DEF SecurityChain
  <2>2. CASE id \in {"4698", "4702", "4720", "4732", "4778", "4779"}
    BY <1>1, <1>3, <2>2, ShortChains DEF SecurityChain
  <2>3. CASE id \in {"4768", "4769", "4776", "5140"}
    BY <1>4, <1>5, <2>3, ShortChains DEF SecurityChain
  <2>4. CASE id = "4740"
    BY <1>7, <2>4 DEF SecurityChain
  <2>5. QED
    BY <2>1, <2>2, <2>3, <2>4
<1>9. ASSUME NEW id \in SystemID PROVE Separated(SystemChain(id), id)
  BY <1>6, ShortChains DEF SystemChain
<1>10. QED
  BY <1>8, <1>9

----------------------------------------------------------------------------
(* The Windows detector: the rule that decides an event *)

LEMMA ChainsAreSeparated ==
  ASSUME NEW e, e.id \in EventID, e.source = LogSource(e.id)
  PROVE  Separated(Chain(e), e.id)
<1>1. CASE e.id \in SysmonID
  <2>1. Chain(e) = SysmonChain(e.id)
    BY <1>1 DEF Chain, LogSource
  <2>2. QED
    BY <1>1, <2>1, SeparatedInSysmon
<1>2. CASE e.id \in SecurityID
  <2>1. e.source = "security"
    BY <1>2 DEF LogSource, SysmonID, SecurityID
  <2>2. Chain(e) = SecurityChain(e.id)
    BY <2>1 DEF Chain
  <2>3. QED
    BY <1>2, <2>2, SeparatedInOtherLogs
<1>3. CASE e.id \in SystemID
  <2>1. e.source = "system"
    BY <1>3 DEF LogSource, SysmonID, SecurityID, SystemID
  <2>2. Chain(e) = SystemChain(e.id)
    BY <2>1 DEF Chain
  <2>3. QED
    BY <1>3, <2>2, SeparatedInOtherLogs
<1>4. QED
  BY <1>1, <1>2, <1>3 DEF EventID

\* The first function of the chain with a rule that applies decides, with its first such rule.
LEMMA FirstOfTheChain ==
  ASSUME NEW e, Separated(Chain(e), e.id)
  PROVE  \/ DetectEvent(e) = Nothing
         \/ \E i \in DOMAIN Chain(e) : \E n \in DOMAIN Chain(e)[i] :
              /\ DetectEvent(e) = Chain(e)[i][n] /\ Applies(Chain(e)[i][n], e)
              /\ \A m \in DOMAIN Chain(e)[i] : Applies(Chain(e)[i][m], e) => n <= m
              /\ \A k \in DOMAIN Chain(e) : k < i =>
                   \A m \in DOMAIN Chain(e)[k] : ~ Applies(Chain(e)[k][m], e)
<1>1. PICK chain : chain = Chain(e)
  OBVIOUS
<1>2. /\ DOMAIN chain \subseteq Nat
      /\ \A i \in DOMAIN chain : /\ DOMAIN chain[i] \subseteq Nat
                                 /\ \A n \in DOMAIN chain[i] : chain[i][n].technique # NoTechnique
  BY <1>1 DEF Separated, Proper
<1>3. Nothing.technique = NoTechnique
  BY DEF Nothing, Rule
<1>4. ASSUME NEW i \in DOMAIN chain, FirstRule(chain[i], e).technique # NoTechnique
      PROVE  \E n \in DOMAIN chain[i] : /\ FirstRule(chain[i], e) = chain[i][n] /\ Applies(chain[i][n], e)
                                        /\ \A m \in DOMAIN chain[i] : Applies(chain[i][m], e) => n <= m
  BY <1>2, <1>3, <1>4, FirstRuleApplies
<1>5. ASSUME NEW i \in DOMAIN chain, FirstRule(chain[i], e).technique = NoTechnique
      PROVE  \A m \in DOMAIN chain[i] : ~ Applies(chain[i][m], e)
  BY <1>2, <1>5, FirstRuleApplies
<1>6. CASE DetectEvent(e) = Nothing
  BY <1>6
<1>7. CASE DetectEvent(e) # Nothing
  <2>1. PICK i \in DOMAIN chain :
           /\ DetectEvent(e) = FirstRule(chain[i], e) /\ DetectEvent(e).technique # NoTechnique
           /\ \A k \in DOMAIN chain : FirstRule(chain[k], e).technique # NoTechnique => i <= k
    BY <1>1, <1>2, <1>7, DetectEventDecides
  <2>2. PICK n \in DOMAIN chain[i] : /\ DetectEvent(e) = chain[i][n] /\ Applies(chain[i][n], e)
                                     /\ \A m \in DOMAIN chain[i] : Applies(chain[i][m], e) => n <= m
    BY <1>4, <2>1
  <2>3. ASSUME NEW k \in DOMAIN chain, k < i PROVE \A m \in DOMAIN chain[k] : ~ Applies(chain[k][m], e)
    <3>1. k \in Nat /\ i \in Nat /\ ~ (i <= k)
      BY <1>2, <2>3
    <3>2. QED
      BY <1>5, <2>1, <3>1
  <2>4. QED
    BY <1>1, <2>2, <2>3
<1>8. QED
  BY <1>6, <1>7

\* An event that shows what one rule asks for, and no more than what comes with it, is
\* reported as that rule says.
LEMMA ShownIsReported ==
  ASSUME NEW e, Separated(Chain(e), e.id),
         NEW i \in DOMAIN Chain(e), NEW j \in DOMAIN Chain(e)[i], NEW r, r = Chain(e)[i][j],
         Applies(r, e), e.signs \subseteq r.needs \cup Companion
  PROVE  DetectEvent(e) = r
<1>1. PICK chain : chain = Chain(e)
  OBVIOUS
<1>2. \A q : Applies(q, e) => Covered(q, r, e.id)
  BY DEF Applies, Covered
<1>3. DOMAIN chain \subseteq Nat /\ \A k \in DOMAIN chain : DOMAIN chain[k] \subseteq Nat
  BY <1>1 DEF Separated, Proper
<1>4. ASSUME NEW k \in DOMAIN chain, NEW m \in DOMAIN chain[k], Applies(chain[k][m], e)
      PROVE  ~ (k < i) /\ (k = i => ~ (m < j))
  <2>1. Covered(chain[k][m], r, e.id)
    BY <1>2, <1>4
  <2>2. Ordered(chain[i], e.id) /\ (k < i => Apart(chain[k], chain[i], e.id))
    BY <1>1 DEF Separated
  <2>3. QED
    BY <1>1, <2>1, <2>2 DEF Ordered, Apart
<1>5. DetectEvent(e) # Nothing
  <2>1. FirstRule(chain[i], e).technique # NoTechnique
    <3>1. \A n \in DOMAIN chain[i] : chain[i][n].technique # NoTechnique
      BY <1>1 DEF Separated, Proper
    <3>2. QED
      BY <1>1, <1>3, <3>1, FirstRuleApplies
  <2>2. Nothing.technique = NoTechnique
    BY DEF Nothing, Rule
  <2>3. QED
    BY <1>1, <1>3, <2>1, <2>2, DetectEventDecides
<1>6. PICK k \in DOMAIN chain : \E n \in DOMAIN chain[k] :
         /\ DetectEvent(e) = chain[k][n] /\ Applies(chain[k][n], e)
         /\ \A m \in DOMAIN chain[k] : Applies(chain[k][m], e) => n <= m
         /\ \A h \in DOMAIN chain : h < k => \A m \in DOMAIN chain[h] : ~ Applies(chain[h][m], e)
  BY <1>1, <1>5, FirstOfTheChain
<1>7. PICK n \in DOMAIN chain[k] :
         /\ DetectEvent(e) = chain[k][n] /\ Applies(chain[k][n], e)
         /\ \A m \in DOMAIN chain[k] : Applies(chain[k][m], e) => n <= m
         /\ \A h \in DOMAIN chain : h < k => \A m \in DOMAIN chain[h] : ~ Applies(chain[h][m], e)
  BY <1>6
<1>8. k = i
  <2>1. ~ (k < i)
    BY <1>4, <1>7
  <2>2. ~ (i < k)
    BY <1>1, <1>7
  <2>3. k \in Nat /\ i \in Nat
    BY <1>1, <1>3
  <2>4. QED
    BY <2>1, <2>2, <2>3
<1>9. n = j
  <2>1. n <= j /\ ~ (n < j)
    BY <1>1, <1>4, <1>7, <1>8
  <2>2. n \in Nat /\ j \in Nat
    BY <1>1, <1>3, <1>8
  <2>3. QED
    BY <2>1, <2>2
<1>10. QED
  BY <1>1, <1>7, <1>8, <1>9

----------------------------------------------------------------------------
(* The Windows detector: dead rules *)

\* An event the agent can send: it shows any signs that the fields of its number can
\* show, and with a sign whose matches are all matches of other patterns one of those.
Sendable(e) ==
  /\ e.id \in EventID /\ e.source = LogSource(e.id)
  /\ CanShow(e.id, e.signs) /\ e.signs \cap EventID = {}
  /\ \A s \in e.signs : \E way \in Entailed(s) : way \subseteq e.signs

Unshadowed(list) == \A n \in DOMAIN list : list[n].needs \cap Shadowed = {}

\* The functions with a shadowed rule.
LEMMA FewFunctionsAreShadowed ==
  /\ \A i \in (1..11) \ {3, 6} : Unshadowed(SysmonChain("1")[i])
  /\ \A id \in SysmonID \ {"1", "17", "18", "22"} : \A i \in DOMAIN SysmonChain(id) : Unshadowed(SysmonChain(id)[i])
  /\ \A id \in SecurityID : \A i \in DOMAIN SecurityChain(id) : Unshadowed(SecurityChain(id)[i])
  /\ \A id \in SystemID : \A i \in DOMAIN SystemChain(id) : Unshadowed(SystemChain(id)[i])
<1>1. ASSUME NEW i \in (1..11) \ {3, 6} PROVE Unshadowed(SysmonChain("1")[i])
  <2>1. SignsOf1[i] \cap Shadowed = {}
    BY DEF SignsOf1, Shadowed
  <2>2. QED
    BY <2>1, SignsOfTheFunctions DEF Within, Unshadowed
<1> USE DEF Unshadowed, Shadowed, Rule
<1>2. /\ Unshadowed(detectNetworkConnection) /\ Unshadowed(detectImageLoad) /\ Unshadowed(CollectionFromImage)
      /\ Unshadowed(detectRemoteThread) /\ Unshadowed(detectProcessAccess) /\ Unshadowed(detectFileCreate)
  BY DEF detectNetworkConnection, detectImageLoad, CollectionFromImage, detectRemoteThread, detectProcessAccess,
         detectFileCreate
<1>3. /\ Unshadowed(CollectionFromFile) /\ Unshadowed(detectRegistryEvent) /\ Unshadowed(detectFileDelete)
      /\ Unshadowed(detectImpactAdditional)
  BY DEF CollectionFromFile, detectRegistryEvent, detectFileDelete, detectImpactAdditional
<1>4. /\ Unshadowed(detectLogonSuccess) /\ Unshadowed(detectLogonFailure) /\ Unshadowed(detectExplicitCredentials)
      /\ Unshadowed(detectPrivilegeAssignment) /\ Unshadowed(detectSecurityProcessCreation)
      /\ Unshadowed(detectServiceInstall) /\ Unshadowed(detectScheduledTaskCreation) /\ Unshadowed(detectUserCreation)
      /\ Unshadowed(detectGroupMembership) /\ Unshadowed(detectKerberosTGT)
      /\ Unshadowed(detectKerberosServiceTicket) /\ Unshadowed(detectNTLMAuth) /\ Unshadowed(detectRDPSession)
      /\ Unshadowed(detectShareAccess) /\ Unshadowed(detectSystemServiceInstall)
      /\ Unshadowed(detectServiceStateChange) /\ Unshadowed(detectLogCleared)
  BY DEF detectLogonSuccess, detectLogonFailure, detectExplicitCredentials, detectPrivilegeAssignment,
         detectSecurityProcessCreation, detectServiceInstall, detectScheduledTaskCreation,
         detectUserCreation, detectGroupMembership, detectKerberosTGT, detectKerberosServiceTicket,
         detectNTLMAuth, detectRDPSession, detectShareAccess, detectSystemServiceInstall,
         detectServiceStateChange, detectLogCleared
<1> HIDE DEF Unshadowed
<1>5. ASSUME NEW id \in SysmonID \ {"1", "17", "18", "22"}, NEW i \in DOMAIN SysmonChain(id)
      PROVE  Unshadowed(SysmonChain(id)[i])
  BY <1>2, <1>3 DEF SysmonID, SysmonChain
<1>6. ASSUME NEW id \in SecurityID, NEW i \in DOMAIN SecurityChain(id) PROVE Unshadowed(SecurityChain(id)[i])
  BY <1>4 DEF SecurityID, SecurityChain
<1>7. ASSUME NEW id \in SystemID, NEW i \in DOMAIN SystemChain(id) PROVE Unshadowed(SystemChain(id)[i])
  BY <1>4 DEF SystemID, SystemChain
<1>8. QED
  BY <1>1, <1>5, <1>6, <1>7

\* A shadowed rule is the second for a pipe, the eighth for a discovery, or one for the
\* control of a host, which follows the one for a copy to a removable medium.
LEMMA WhereTheShadowsAre ==
  ASSUME NEW e, e.id \in EventID, e.source = LogSource(e.id),
         NEW i \in DOMAIN Chain(e), NEW n \in DOMAIN Chain(e)[i],
         NEW sign \in Shadowed, sign \in Chain(e)[i][n].needs
  PROVE  \/ /\ Chain(e)[i] = detectPipeEvent /\ n = 2 /\ sign = "cobalt_strike_pipe"
         \/ /\ Chain(e)[i] = detectDiscovery /\ n = 8 /\ sign = "remote_system_discovery"
         \/ /\ e.id = "1" /\ i = 6 /\ sign = "removable_c2"
         \/ /\ e.id = "22" /\ sign = "removable_c2"
<1>1. PICK list : list = Chain(e)[i]
  OBVIOUS
<1>2. n \in DOMAIN list /\ sign \in list[n].needs /\ ~ Unshadowed(list)
  BY <1>1 DEF Unshadowed
<1>3. e.source = "sysmon" /\ e.id \in {"1", "17", "18", "22"} /\ Chain(e) = SysmonChain(e.id)
  <2>1. CASE e.id \in SysmonID
    <3>1. e.source = "sysmon" /\ Chain(e) = SysmonChain(e.id)
      BY <2>1 DEF LogSource, Chain
    <3>2. QED
      BY <1>1, <1>2, <2>1, <3>1, FewFunctionsAreShadowed
  <2>2. CASE e.id \in SecurityID
    <3>1. e.source = "security"
      BY <2>2 DEF LogSource, SysmonID, SecurityID
    <3>2. Chain(e) = SecurityChain(e.id)
      BY <3>1 DEF Chain
    <3>3. QED
      BY <1>1, <1>2, <2>2, <3>2, FewFunctionsAreShadowed
  <2>3. CASE e.id \in SystemID
    <3>1. e.source = "system"
      BY <2>3 DEF LogSource, SysmonID, SecurityID, SystemID
    <3>2. Chain(e) = SystemChain(e.id)
      BY <3>1 DEF Chain
    <3>3. QED
      BY <1>1, <1>2, <2>3, <3>2, FewFunctionsAreShadowed
  <2>4. QED
    BY <2>1, <2>2, <2>3 DEF EventID
<1>4. list = detectDiscovery => n = 8 /\ sign = "remote_system_discovery"
  BY <1>2, SMTT(30) DEF detectDiscovery, Rule, Shadowed
<1>5. list = detectCommandAndControlAdditional => sign = "removable_c2"
  BY <1>2, SMTT(30) DEF detectCommandAndControlAdditional, Rule, Shadowed
<1>6. list = detectPipeEvent => n = 2 /\ sign = "cobalt_strike_pipe"
  BY <1>2 DEF detectPipeEvent, Rule, Shadowed
<1>7. CASE e.id = "1"
  <2>1. i \in 1..11 /\ list = SysmonChain("1")[i]
    BY <1>1, <1>3, <1>7 DEF SysmonChain
  <2>2. i = 3 \/ i = 6
    BY <1>2, <2>1, FewFunctionsAreShadowed
  <2>3. SysmonChain("1")[3] = detectDiscovery /\ SysmonChain("1")[6] = detectCommandAndControlAdditional
    BY DEF SysmonChain
  <2>4. QED
    BY <1>1, <1>4, <1>5, <1>7, <2>1, <2>2, <2>3
<1>8. CASE e.id \in {"17", "18"}
  <2>1. list = detectPipeEvent
    BY <1>1, <1>3, <1>8 DEF SysmonChain
  <2>2. QED
    BY <1>1, <1>6, <2>1
<1>9. CASE e.id = "22"
  <2>1. list = detectDNSQuery \/ list = detectCommandAndControlAdditional
    BY <1>1, <1>3, <1>9 DEF SysmonChain
  <2>2. Unshadowed(detectDNSQuery)
    BY DEF Unshadowed, detectDNSQuery, Rule, Shadowed
  <2>3. QED
    BY <1>2, <1>5, <1>9, <2>1, <2>2
<1>10. QED
  BY <1>3, <1>7, <1>8, <1>9

\* No function for another log looks at the signs of a System event's service.
Serviceless(list) == \A n \in DOMAIN list : list[n].needs \cap ServiceSign = {}

LEMMA OnlySystemLooksAtServices ==
  /\ \A id \in SysmonID : \A i \in DOMAIN SysmonChain(id) : Serviceless(SysmonChain(id)[i])
  /\ \A id \in SecurityID : \A i \in DOMAIN SecurityChain(id) : Serviceless(SecurityChain(id)[i])
<1>1. ASSUME NEW i \in 1..11 PROVE Serviceless(SysmonChain("1")[i])
  <2>1. SignsOf1[i] \cap ServiceSign = {}
    BY DEF SignsOf1, ServiceSign
  <2>2. QED
    BY <2>1, SignsOfTheFunctions DEF Within, Serviceless
<1>2. DOMAIN SysmonChain("1") = 1..11
  BY DEF SysmonChain
<1> USE DEF Serviceless, ServiceSign, Rule
<1>3. /\ Serviceless(detectNetworkConnection) /\ Serviceless(detectImageLoad) /\ Serviceless(CollectionFromImage)
      /\ Serviceless(detectRemoteThread) /\ Serviceless(detectProcessAccess) /\ Serviceless(detectFileCreate)
  BY DEF detectNetworkConnection, detectImageLoad, CollectionFromImage, detectRemoteThread, detectProcessAccess,
         detectFileCreate
<1>4. /\ Serviceless(CollectionFromFile) /\ Serviceless(detectRegistryEvent) /\ Serviceless(detectFileDelete)
      /\ Serviceless(detectPipeEvent) /\ Serviceless(detectDNSQuery)
  BY DEF CollectionFromFile, detectRegistryEvent, detectFileDelete, detectPipeEvent, detectDNSQuery
<1>5. /\ Serviceless(detectLogonSuccess) /\ Serviceless(detectLogonFailure) /\ Serviceless(detectExplicitCredentials)
      /\ Serviceless(detectPrivilegeAssignment) /\ Serviceless(detectSecurityProcessCreation)
      /\ Serviceless(detectServiceInstall) /\ Serviceless(detectScheduledTaskCreation) /\ Serviceless(detectUserCreation)
      /\ Serviceless(detectGroupMembership) /\ Serviceless(detectKerberosTGT)
      /\ Serviceless(detectKerberosServiceTicket) /\ Serviceless(detectNTLMAuth) /\ Serviceless(detectRDPSession)
      /\ Serviceless(detectShareAccess)
  BY DEF detectLogonSuccess, detectLogonFailure, detectExplicitCredentials, detectPrivilegeAssignment,
         detectSecurityProcessCreation, detectServiceInstall, detectScheduledTaskCreation,
         detectUserCreation, detectGroupMembership, detectKerberosTGT, detectKerberosServiceTicket,
         detectNTLMAuth, detectRDPSession, detectShareAccess
<1> HIDE DEF Serviceless
<1>6. Serviceless(detectCommandAndControlAdditional) /\ Serviceless(detectImpactAdditional)
  <2>1. SysmonChain("1")[6] = detectCommandAndControlAdditional /\ SysmonChain("1")[8] = detectImpactAdditional
    BY DEF SysmonChain
  <2>2. QED
    BY <1>1, <2>1
<1>7. ASSUME NEW id \in SysmonID, NEW i \in DOMAIN SysmonChain(id) PROVE Serviceless(SysmonChain(id)[i])
  <2>1. CASE id = "1"
    BY <1>1, <1>2, <2>1
  <2>2. CASE id # "1"
    BY <1>3, <1>4, <1>6, <2>2 DEF SysmonID, SysmonChain
  <2>3. QED
    BY <2>1, <2>2
<1>8. ASSUME NEW id \in SecurityID, NEW i \in DOMAIN SecurityChain(id) PROVE Serviceless(SecurityChain(id)[i])
  BY <1>5 DEF SecurityID, SecurityChain
<1>9. QED
  BY <1>7, <1>8

\* Ten rules of Detect never decide an event, whatever other signs it shows: two ask for a
\* Security event where only Sysmon events come, three are patterns with a capital letter,
\* three only match what an earlier rule matches too, and two read a field the agent leaves
\* empty in their events (detector.go).
THEOREM DeadRulesDecideNothing ==
  \A e : Sendable(e) => DetectEvent(e).needs \notin Unreachable
<1>1. SUFFICES ASSUME NEW e, Sendable(e), DetectEvent(e).needs \in Unreachable PROVE FALSE
  OBVIOUS
<1>2. PICK chain : chain = Chain(e)
  OBVIOUS
<1>3. DetectEvent(e) # Nothing
  BY <1>1 DEF Nothing, Rule, Unreachable
<1>4. PICK i \in DOMAIN chain : \E n \in DOMAIN chain[i] :
         /\ DetectEvent(e) = chain[i][n] /\ Applies(chain[i][n], e)
         /\ \A m \in DOMAIN chain[i] : Applies(chain[i][m], e) => n <= m
         /\ \A k \in DOMAIN chain : k < i => \A m \in DOMAIN chain[k] : ~ Applies(chain[k][m], e)
  BY <1>1, <1>2, <1>3, ChainsAreSeparated, FirstOfTheChain DEF Sendable
<1>5. PICK n \in DOMAIN chain[i] :
         /\ DetectEvent(e) = chain[i][n] /\ Applies(chain[i][n], e)
         /\ \A m \in DOMAIN chain[i] : Applies(chain[i][m], e) => n <= m
         /\ \A k \in DOMAIN chain : k < i => \A m \in DOMAIN chain[k] : ~ Applies(chain[k][m], e)
  BY <1>4
<1>6. PICK needs : needs = chain[i][n].needs
  OBVIOUS
<1>7. /\ needs \in Unreachable /\ needs \subseteq (e.signs \ CapitalPattern) \cup {e.id}
      /\ e.id \in EventID /\ e.signs \cap EventID = {} /\ e.source = LogSource(e.id)
  BY <1>1, <1>5, <1>6 DEF Applies, Sendable
<1>8. CASE needs = {"4624", "krbtgt"}
  <2>1. e.id = "4624"
    BY <1>7, <1>8 DEF EventID, SecurityID
  <2>2. e.source = "security"
    BY <1>7, <2>1 DEF LogSource, SysmonID, SecurityID
  <2>3. chain[i] = detectLogonSuccess
    BY <1>2, <2>1, <2>2 DEF Chain, SecurityChain
  <2>4. \A m \in DOMAIN detectLogonSuccess : detectLogonSuccess[m].needs # {"4624", "krbtgt"}
    BY DEF detectLogonSuccess, Rule
  <2>5. QED
    BY <1>6, <1>8, <2>3, <2>4
<1>9. CASE needs = {"4740"}
  <2>1. e.id = "4740"
    BY <1>7, <1>9 DEF EventID, SecurityID
  <2>2. e.source = "security"
    BY <1>7, <2>1 DEF LogSource, SysmonID, SecurityID
  <2>3. chain = <<>>
    BY <1>2, <2>1, <2>2 DEF Chain, SecurityChain
  <2>4. QED
    BY <2>3
<1>10. CASE needs \in {{"removable_media"}, {"staged_file"}, {"physical_media"}}
  BY <1>7, <1>10 DEF CapitalPattern, EventID, SysmonID, SecurityID, SystemID
<1>11. ASSUME NEW sign \in Shadowed, needs = {sign} PROVE FALSE
  <2>1. sign \in e.signs
    BY <1>7, <1>11 DEF Shadowed, EventID, SysmonID, SecurityID, SystemID
  <2>2. \E way \in Entailed(sign) : way \subseteq e.signs
    BY <1>1, <2>1 DEF Sendable
  <2>3. PICK list : list = chain[i]
    OBVIOUS
  <2>4. \/ list = detectPipeEvent /\ n = 2 /\ sign = "cobalt_strike_pipe"
        \/ list = detectDiscovery /\ n = 8 /\ sign = "remote_system_discovery"
        \/ e.id = "1" /\ i = 6 /\ sign = "removable_c2"
        \/ e.id = "22" /\ sign = "removable_c2"
    BY <1>2, <1>6, <1>7, <1>11, <2>3, WhereTheShadowsAre
  <2>5. CASE list = detectPipeEvent /\ n = 2 /\ sign = "cobalt_strike_pipe"
    <3>1. "malicious_pipe" \in e.signs
      BY <2>2, <2>5 DEF Entailed
    <3>2. 1 \in DOMAIN list /\ list[1].needs = {"malicious_pipe"}
      BY <2>5 DEF detectPipeEvent, Rule
    <3>3. Applies(list[1], e)
      BY <3>1, <3>2 DEF Applies, CapitalPattern
    <3>4. QED
      BY <1>5, <2>3, <2>5, <3>2, <3>3
  <2>6. CASE list = detectDiscovery /\ n = 8 /\ sign = "remote_system_discovery"
    <3>1. \E other \in {"share_discovery", "account_discovery", "service_scanning"} : other \in e.signs
      BY <2>2, <2>6 DEF Entailed
    <3>2. /\ 1 \in DOMAIN list /\ list[1].needs = {"account_discovery"}
          /\ 4 \in DOMAIN list /\ list[4].needs = {"service_scanning"}
          /\ 7 \in DOMAIN list /\ list[7].needs = {"share_discovery"}
      BY <2>6 DEF detectDiscovery, Rule
    <3>3. \E m \in {1, 4, 7} : m \in DOMAIN list /\ Applies(list[m], e)
      BY <3>1, <3>2 DEF Applies, CapitalPattern
    <3>4. QED
      BY <1>5, <2>3, <2>6, <3>3
  <2>7. CASE e.id = "1" /\ i = 6 /\ sign = "removable_c2"
    <3>1. "removable_copy" \in e.signs
      BY <2>2, <2>7 DEF Entailed
    <3>2. e.source = "sysmon"
      BY <1>7, <2>7 DEF LogSource, SysmonID
    <3>3. 5 \in DOMAIN chain /\ chain[5] = detectLateralMovementAdditional
      BY <1>2, <2>7, <3>2 DEF Chain, SysmonChain
    <3>4. 5 \in DOMAIN chain[5] /\ chain[5][5].needs = {"removable_copy"}
      BY <3>3 DEF detectLateralMovementAdditional, Rule
    <3>5. Applies(chain[5][5], e)
      BY <3>1, <3>4 DEF Applies, CapitalPattern
    <3>6. QED
      BY <1>5, <2>7, <3>3, <3>4, <3>5
  <2>8. CASE e.id = "22" /\ sign = "removable_c2"
    BY <1>1, <2>1, <2>8 DEF Sendable, CanShow, QueryNameSign
  <2>9. QED
    BY <2>4, <2>5, <2>6, <2>7, <2>8
<1>12. ASSUME NEW sign \in ServiceSign, needs = {sign} PROVE FALSE
  <2>1. sign \in e.signs /\ sign \notin EventID
    BY <1>7, <1>12 DEF ServiceSign, EventID, SysmonID, SecurityID, SystemID
  <2>2. e.id \notin SystemID
    BY <1>1, <2>1 DEF Sendable, CanShow, SystemID
  <2>3. Chain(e) = IF e.id \in SysmonID THEN SysmonChain(e.id) ELSE SecurityChain(e.id)
    BY <1>7, <2>2 DEF Chain, LogSource, EventID
  <2>4. Serviceless(chain[i])
    BY <1>2, <1>7, <2>2, <2>3, OnlySystemLooksAtServices DEF EventID
  <2>5. QED
    BY <1>6, <1>12, <2>4 DEF Serviceless
<1>13. QED
  BY <1>7, <1>8, <1>9, <1>10, <1>11, <1>12 DEF Unreachable, Shadowed, ServiceSign

----------------------------------------------------------------------------
(* The Windows detector: every live rule is reported *)

DetectorSpec == DetectorInit /\ [][Detect]_detectorVars

\* The signs that come with others.
Follower == Companion \cup
            {"malicious_pipe", "share_discovery", "account_discovery", "service_scanning", "removable_copy"}

\* They come with no others, and are of no field of the events 22 and 23.
LEMMA FollowersFollow ==
  /\ \A sign : \A way \in Entailed(sign) : /\ way \subseteq Follower
                                           /\ sign \notin Shadowed => way \subseteq Companion
  /\ \A sign \in Follower \cup QueryNameSign \cup FileNameSign : Entailed(sign) = {{}}
  /\ Follower \cap (EventID \cup QueryNameSign \cup FileNameSign \cup ServiceSign) = {}
<1>1. ASSUME NEW sign, NEW way \in Entailed(sign)
      PROVE  way \subseteq Follower /\ (sign \notin Shadowed => way \subseteq Companion)
  <2>1. CASE sign = "cobalt_strike_pipe"
    BY <2>1 DEF Entailed, Follower, Shadowed
  <2>2. CASE sign = "remote_system_discovery"
    BY <2>2 DEF Entailed, Follower, Shadowed
  <2>3. CASE sign = "removable_c2"
    BY <2>3 DEF Entailed, Follower, Shadowed
  <2>4. CASE sign \notin Shadowed
    BY <2>4 DEF Entailed, Follower, Companion, Shadowed
  <2>5. QED
    BY <2>1, <2>2, <2>3, <2>4 DEF Shadowed
<1>2. \A sign \in Follower \cup QueryNameSign \cup FileNameSign : Entailed(sign) = {{}}
  BY DEF Entailed, Follower, Companion, QueryNameSign, FileNameSign
<1>3. Follower \cap (EventID \cup QueryNameSign \cup FileNameSign \cup ServiceSign) = {}
  BY DEF Follower, Companion, QueryNameSign, FileNameSign, ServiceSign, EventID, SysmonID, SecurityID, SystemID
<1>4. QED
  BY <1>1, <1>2, <1>3

\* The event shows r, a rule of the functions called for it, and only what comes with it.
Showing(e, r) ==
  /\ Sendable(e)
  /\ CanShow(e.id, r.needs \ EventID)
  /\ \E i \in DOMAIN Chain(e) : \E j \in DOMAIN Chain(e)[i] : r = Chain(e)[i][j]
  /\ r.needs \ EventID \subseteq e.signs
  /\ r.needs \cap Shadowed = {} => e.signs \subseteq r.needs \cup Companion

\* The events of the specification are of that kind.
LEMMA InitialEventsShow == DetectorInit => Showing(event, target)
<1>1. SUFFICES ASSUME DetectorInit PROVE Showing(event, target)
  OBVIOUS
<1>2. PICK id \in EventID : \E r \in RulesFor(id) : \E signs \in Shows(r) :
        /\ CanShow(id, r.needs \ EventID) /\ target = r
        /\ event = [source |-> LogSource(id), id |-> id, signs |-> signs]
  BY <1>1 DEF DetectorInit
<1>3. /\ target \in RulesFor(id) /\ CanShow(id, target.needs \ EventID)
      /\ \E signs \in Shows(target) : event = [source |-> LogSource(id), id |-> id, signs |-> signs]
  BY <1>2
<1>4. PICK signs \in Shows(target) : event = [source |-> LogSource(id), id |-> id, signs |-> signs]
  BY <1>3
<1>5. event.id = id /\ event.source = LogSource(id) /\ event.signs = signs
  BY <1>4
<1>6. PICK asked : asked = target.needs \ EventID
  OBVIOUS
<1>7. PICK way \in [asked -> UNION {Entailed(s) : s \in asked}] :
        /\ \A s \in asked : way[s] \in Entailed(s)
        /\ signs = asked \cup UNION {way[s] : s \in asked}
  BY <1>4, <1>6 DEF Shows
<1>8. \A s \in signs : s \in asked \/ \E t \in asked : s \in way[t]
  BY <1>7
<1>9. \A s \in asked : way[s] \subseteq signs /\ way[s] \subseteq Follower
  BY <1>7, FollowersFollow
<1>10. CanShow(id, signs)
  <2>1. ASSUME id = "22" PROVE signs \subseteq QueryNameSign
    <3>1. asked \subseteq QueryNameSign
      BY <1>3, <1>6, <2>1 DEF CanShow
    <3>2. \A s \in asked : way[s] = {}
      BY <1>7, <3>1, FollowersFollow
    <3>3. QED
      BY <1>8, <3>1, <3>2
  <2>2. ASSUME id = "23" PROVE signs \subseteq FileNameSign
    <3>1. asked \subseteq FileNameSign
      BY <1>3, <1>6, <2>2 DEF CanShow
    <3>2. \A s \in asked : way[s] = {}
      BY <1>7, <3>1, FollowersFollow
    <3>3. QED
      BY <1>8, <3>1, <3>2
  <2>3. ASSUME id = "1" PROVE signs \cap (FileNameSign \cup (QueryNameSign \ {"web_service"})) = {}
    <3>1. asked \cap (FileNameSign \cup (QueryNameSign \ {"web_service"})) = {}
      BY <1>3, <1>6, <2>3 DEF CanShow
    <3>2. QED
      BY <1>8, <1>9, <3>1, FollowersFollow
  <2>4. ASSUME id \in SystemID PROVE signs \cap ServiceSign = {}
    <3>1. asked \cap ServiceSign = {}
      BY <1>3, <1>6, <2>4 DEF CanShow
    <3>2. QED
      BY <1>8, <1>9, <3>1, FollowersFollow
  <2>5. QED
    BY <2>1, <2>2, <2>3, <2>4 DEF CanShow
<1>11. \A s \in signs : \E w \in Entailed(s) : w \subseteq signs
  <2>1. ASSUME NEW s \in asked PROVE \E w \in Entailed(s) : w \subseteq signs
    BY <1>7, <1>9
  <2>2. ASSUME NEW t \in asked, NEW s \in way[t] PROVE \E w \in Entailed(s) : w \subseteq signs
    <3>1. Entailed(s) = {{}}
      BY <1>9, FollowersFollow
    <3>2. QED
      BY <3>1
  <2>3. QED
    BY <1>8, <2>1, <2>2
<1>12. Sendable(event)
  <2>1. signs \cap EventID = {}
    BY <1>6, <1>8, <1>9, FollowersFollow
  <2>2. QED
    BY <1>5, <1>10, <1>11, <2>1 DEF Sendable
<1>13. \E i \in DOMAIN Chain(event) : \E j \in DOMAIN Chain(event)[i] : target = Chain(event)[i][j]
  <2>1. Chain(event) = Chain([source |-> LogSource(id), id |-> id])
    BY <1>5 DEF Chain
  <2>2. QED
    BY <1>3, <2>1 DEF RulesFor
<1>14. ASSUME target.needs \cap Shadowed = {} PROVE signs \subseteq target.needs \cup Companion
  <2>1. \A s \in asked : way[s] \subseteq Companion
    BY <1>6, <1>7, <1>14, FollowersFollow
  <2>2. QED
    BY <1>6, <1>8, <2>1
<1>15. target.needs \ EventID \subseteq signs
  BY <1>6, <1>7
<1>16. QED
  BY <1>3, <1>5, <1>12, <1>13, <1>14, <1>15 DEF Showing

\* Such an event is reported as its rule says, unless the rule is dead.
LEMMA WhatIsShownIsReported ==
  ASSUME NEW e, NEW r, Showing(e, r), r.needs \notin Unreachable
  PROVE  DetectEvent(e) = r
<1>1. e.id \in EventID /\ e.source = LogSource(e.id)
  BY DEF Showing, Sendable
<1>2. PICK i \in DOMAIN Chain(e) : \E j \in DOMAIN Chain(e)[i] : r = Chain(e)[i][j]
  BY DEF Showing
<1>3. PICK j \in DOMAIN Chain(e)[i] : r = Chain(e)[i][j]
  BY <1>2
<1>4. Separated(Chain(e), e.id)
  BY <1>1, ChainsAreSeparated
<1>5. Proper(Chain(e)[i], e.id)
  BY <1>4 DEF Separated
<1>6. r.needs \cap (CapitalPattern \cup Shadowed) = {} /\ r.needs \cap EventID \subseteq {e.id}
  BY <1>3, <1>5 DEF Proper, Showing
<1>7. Applies(r, e) /\ e.signs \subseteq r.needs \cup Companion
  BY <1>6 DEF Applies, Showing
<1>8. QED
  BY <1>3, <1>4, <1>7, ShownIsReported

ReachableInv == /\ Showing(event, target)
                /\ verdict \in {Unknown, DetectEvent(event)}

\* Detect reports an event that shows what a rule asks for as that rule says, with its
\* severity and its technique: no rule is dead behind another one or behind a later
\* function's result, but for the ten of Unreachable.
THEOREM LiveRulesAreReported == DetectorSpec => []RulesAreReachable
<1>1. DetectorInit => ReachableInv
  BY InitialEventsShow DEF DetectorInit, ReachableInv
<1>2. ReachableInv /\ [Detect]_detectorVars => ReachableInv'
  <2>1. CASE Detect
    BY <2>1 DEF Detect, ReachableInv
  <2>2. CASE UNCHANGED detectorVars
    BY <2>2 DEF detectorVars, ReachableInv
  <2>3. QED
    BY <2>1, <2>2
<1>3. ReachableInv => RulesAreReachable
  BY WhatIsShownIsReported DEF ReachableInv, RulesAreReachable
<1>4. QED
  BY <1>1, <1>2, <1>3, PTL DEF DetectorSpec

----------------------------------------------------------------------------
(* The firewall detector: the first threat is the highest *)

FirewallDetectorSpec == FirewallDetectorInit /\ [][DetectFlow]_firewallDetectorVars

\* INFO, LOW, MEDIUM, HIGH and CRITICAL are the ranks 1 to 5.
LEMMA RankOfLevel == \A n \in 1..5 : LevelRank(Level[n]) = n
<1>1. DOMAIN Level = 1..5 /\ \A n, m \in 1..5 : Level[m] = Level[n] => m = n
  BY DEF Level
<1>2. ASSUME NEW n \in 1..5 PROVE LevelRank(Level[n]) = n
  <2>1. LevelRank(Level[n]) = CHOOSE m \in 1..5 : Level[m] = Level[n]
    BY <1>1 DEF LevelRank
  <2>2. QED
    BY <1>1, <2>1
<1>3. QED
  BY <1>2

LEMMA Ranks ==
  /\ LevelRank("INFO") = 1 /\ LevelRank("LOW") = 2 /\ LevelRank("MEDIUM") = 3
  /\ LevelRank("HIGH") = 4 /\ LevelRank("CRITICAL") = 5
<1>1. /\ Level[1] = "INFO" /\ Level[2] = "LOW" /\ Level[3] = "MEDIUM" /\ Level[4] = "HIGH"
      /\ Level[5] = "CRITICAL"
  BY SMTT(30) DEF Level
<1>2. QED
  BY <1>1, RankOfLevel

\* The ranks of the eight rules fall in the order of the rules, but for an intrusion
\* alert of ordinary severity before an allowed connection to a C2 port.
LEMMA RanksOfTheRules ==
  ASSUME NEW f, NEW list, list = FirewallRules(f)
  PROVE  /\ DOMAIN list = 1..8
         /\ \A n, m \in 1..8 : n < m =>
              \/ LevelRank(list[n].threat.level) >= LevelRank(list[m].threat.level)
              \/ list[n].threat = Threat("HIGH", "IDS_IPS_ALERT") /\ list[m].threat = Threat("CRITICAL", "C2_PORT_OUTBOUND")
<1> DEFINE rank(n) == LevelRank(list[n].threat.level)
<1>1. DOMAIN list = 1..8
  BY DEF FirewallRules
<1>2. /\ list[1].threat = Threat("CRITICAL", "IDS_IPS_ALERT") \/ list[1].threat = Threat("HIGH", "IDS_IPS_ALERT")
      /\ list[2].threat = Threat("CRITICAL", "C2_PORT_OUTBOUND") \/ list[2].threat = Threat("HIGH", "C2_PORT_OUTBOUND")
      /\ list[3].threat.level \in {"HIGH", "MEDIUM"} /\ list[4].threat.level = "MEDIUM"
      /\ list[5].threat.level = "MEDIUM" /\ list[6].threat.level = "MEDIUM"
      /\ list[7].threat.level = "LOW" /\ list[8].threat.level = "LOW"
  BY DEF FirewallRules, Threat
<1>3. /\ (list[1].threat = Threat("HIGH", "IDS_IPS_ALERT") /\ rank(1) = 4) \/ rank(1) = 5
      /\ (list[2].threat = Threat("CRITICAL", "C2_PORT_OUTBOUND") /\ rank(2) = 5) \/ rank(2) = 4
      /\ rank(3) \in {3, 4} /\ rank(4) = 3 /\ rank(5) = 3 /\ rank(6) = 3 /\ rank(7) = 2 /\ rank(8) = 2
  BY <1>2, Ranks DEF Threat
<1> HIDE DEF rank
<1>4. ASSUME NEW n \in 1..8, NEW m \in 1..8, n < m
      PROVE  \/ rank(n) >= rank(m)
             \/ list[n].threat = Threat("HIGH", "IDS_IPS_ALERT") /\ list[m].threat = Threat("CRITICAL", "C2_PORT_OUTBOUND")
  <2>1. n \in {1, 2, 3, 4, 5, 6, 7} /\ m \in {2, 3, 4, 5, 6, 7, 8}
    BY <1>4
  <2>2. CASE n = 1
    BY <1>3, <2>1, <2>2
  <2>3. CASE n \in {2, 3}
    BY <1>3, <1>4, <2>1, <2>3
  <2>4. CASE n \in {4, 5, 6, 7}
    BY <1>3, <1>4, <2>1, <2>4
  <2>5. QED
    BY <2>1, <2>2, <2>3, <2>4
<1>5. QED
  BY <1>1, <1>4 DEF rank

\* So the first of the rules that apply gives the highest level of them all.
LEMMA FirstThreatIsHighest ==
  ASSUME NEW f, NEW n \in DOMAIN FirewallRules(f), FirewallRules(f)[n].applies
  PROVE  \/ LevelRank(DetectThreat(f).level) >= LevelRank(FirewallRules(f)[n].threat.level)
         \/ /\ DetectThreat(f) = Threat("HIGH", "IDS_IPS_ALERT")
            /\ FirewallRules(f)[n].threat = Threat("CRITICAL", "C2_PORT_OUTBOUND")
<1>1. PICK list : list = FirewallRules(f)
  OBVIOUS
<1> DEFINE hits == {m \in DOMAIN list : list[m].applies}
           first == Min(hits)
<1>2. DOMAIN list = 1..8
  BY <1>1, RanksOfTheRules
<1>3. n \in hits /\ hits \subseteq Nat
  BY <1>1, <1>2
<1>4. first \in hits /\ first <= n
  BY <1>3, LeastIndex
<1>5. DetectThreat(f) = list[first].threat
  BY <1>1, <1>3 DEF DetectThreat, FirstThreat
<1>6. first \in 1..8 /\ n \in 1..8 /\ first <= n
  BY <1>2, <1>3, <1>4
<1> HIDE DEF first, hits
<1>7. CASE first < n
  BY <1>1, <1>5, <1>6, <1>7, RanksOfTheRules
<1>8. CASE first = n
  <2>1. LevelRank(list[n].threat.level) \in 2..5
    <3>1. list[n].threat.level \in {"LOW", "MEDIUM", "HIGH", "CRITICAL"}
      BY <1>1, <1>6 DEF FirewallRules, Threat
    <3>2. QED
      BY <3>1, Ranks
  <2>2. QED
    BY <1>1, <1>5, <1>8, <2>1
<1>9. QED
  BY <1>6, <1>7, <1>8

\* A firewall row gets the highest level of the rules that apply to it, although Detect
\* stops at the first one (internal/firewall/detector.go), but for the intrusion alert
\* that hides a C2 connection; whatever the row, and however many bytes it sent.
THEOREM FirstThreatWins == FirewallDetectorSpec => []HighestLevelWins
<1> DEFINE Judged == threat = Unjudged \/ threat = DetectThreat(flow)
<1>1. FirewallDetectorInit => Judged
  BY DEF FirewallDetectorInit
<1>2. Judged /\ [DetectFlow]_firewallDetectorVars => Judged'
  BY DEF DetectFlow, firewallDetectorVars
<1>3. Judged => HighestLevelWins
  <2>1. SUFFICES ASSUME threat # Unjudged, Judged,
                        NEW n \in DOMAIN FirewallRules(flow), FirewallRules(flow)[n].applies
                 PROVE  \/ LevelRank(threat.level) >= LevelRank(FirewallRules(flow)[n].threat.level)
                        \/ /\ threat = Threat("HIGH", "IDS_IPS_ALERT")
                           /\ FirewallRules(flow)[n].threat = Threat("CRITICAL", "C2_PORT_OUTBOUND")
    BY DEF HighestLevelWins
  <2>2. QED
    BY <2>1, FirstThreatIsHighest
<1>4. QED
  BY <1>1, <1>2, <1>3, PTL DEF FirewallDetectorSpec

----------------------------------------------------------------------------
(* The correlator: an incident is a coincidence *)

CorrelatorSpec == CorrelatorInit /\ [][CorrelatorNext]_correlatorVars

\* How far a row's timestamp may be ahead of the server's clock.
Ahead(source) == IF source = "firewall" THEN 0 ELSE MaxAhead

\* A row of a table that a pass may read now.
InReach(t, source) ==
  /\ t.row.source = source /\ Alerted(t.row)
  /\ t.ts \in Nat /\ t.ts >= now - Window /\ t.ts <= now + Ahead(source)

\* What the first query returned is in reach until the second one is made.
CorrelatorTypes ==
  /\ now \in Nat /\ coming \subseteq UNION Scenarios
  /\ IsFiniteSet(table)
  /\ \A t \in table : t.ts \in Nat /\ t.ts <= now + Ahead(t.row.source) /\ t.at \in 0..now
  /\ step \in {"due", "firewall", "save", "waiting"}
  /\ IsFiniteSet(winEvents) /\ \A t \in winEvents : InReach(t, "windows")
  /\ step # "firewall" => winEvents = {}

\* The first of some rows is within the window of all of some others.
FirstIsNear(firsts, others) ==
  \E first \in firsts : /\ \A t \in firsts : first.ts <= t.ts
                       /\ \A u \in others : Distance(first, u) <= Window

\* What IncidentsAreCoincidences says of one incident.
Coincidence(i) ==
  /\ Of(i, "windows") # {} /\ Of(i, "firewall") # {}
  /\ \A t, u \in i.evidence : Alerted(t.row) /\ Distance(t, u) <= Window + MaxAhead
  /\ \A we \in Of(i, "windows"), fe \in Of(i, "firewall") :
       /\ we.row.src = fe.row.src \/ (i.type = "C2_BEACON_CONFIRMED" /\ we.row.host = fe.row.src)
       /\ i.type # "BRUTE_FORCE_CONFIRMED" => Distance(we, fe) <= Window
       /\ i.type = "FIREWALL_BYPASS_SUSPECTED" => we.ts > fe.ts
       /\ i.type = "CRED_DUMP_THEN_EXFIL" => fe.ts >= we.ts
  /\ i.type = "BRUTE_FORCE_CONFIRMED" =>
       /\ Cardinality(Of(i, "windows")) >= FailThreshold
       /\ FirstIsNear(Of(i, "windows"), Of(i, "firewall"))

LEMMA CoincidencesAreTheProperty == IncidentsAreCoincidences <=> \A i \in DOMAIN incidents : Coincidence(i)
BY DEF IncidentsAreCoincidences, Coincidence, FirstIsNear

\* A pass reads what is stamped in its window, or ahead of it by the clock of a computer.
LEMMA ReachIsNarrow ==
  ASSUME now \in Nat, NEW t, NEW u, NEW a, NEW b, InReach(t, a), InReach(u, b)
  PROVE  Distance(t, u) <= Window + MaxAhead
BY CorrelatorAssumption DEF InReach, Ahead, Distance

\* A set of rows with timestamps has an earliest one.
LEMMA Earliest ==
  ASSUME NEW s, s # {}, \A t \in s : t.ts \in Nat
  PROVE  \E t \in s : \A u \in s : t.ts <= u.ts
<1> DEFINE times == {t.ts : t \in s}
<1>1. times \subseteq Nat /\ times # {}
  OBVIOUS
<1>2. Min(times) \in times /\ \A n \in times : Min(times) <= n
  BY <1>1, LeastIndex
<1>3. QED
  BY <1>2

\* The query returns rows it selects, all of them when they are no more than the limit.
LEMMA QueryReads ==
  ASSUME NEW from, NEW source, NEW seen \in Oldest(Stored(table, source, from))
  PROVE  /\ seen \subseteq Stored(table, source, from)
         /\ Cardinality(Stored(table, source, from)) <= RowLimit => seen = Stored(table, source, from)
<1> DEFINE found == Stored(table, source, from)
<1>1. CASE Cardinality(found) <= RowLimit
  BY <1>1 DEF Oldest
<1>2. CASE ~ (Cardinality(found) <= RowLimit)
  BY <1>2 DEF Oldest
<1>3. QED
  BY <1>1, <1>2

LEMMA StoredInReach ==
  ASSUME CorrelatorTypes, NEW source, NEW seen \in Oldest(Stored(table, source, since))
  PROVE  IsFiniteSet(seen) /\ \A t \in seen : InReach(t, source)
<1>1. seen \subseteq Stored(table, source, since)
  BY QueryReads
<1>2. Stored(table, source, since) \subseteq table
  BY DEF Stored
<1>3. IsFiniteSet(seen)
  BY <1>1, <1>2, FS_Subset DEF CorrelatorTypes
<1>4. \A t \in seen : InReach(t, source)
  BY <1>1 DEF Stored, since, InReach, CorrelatorTypes
<1>5. QED
  BY <1>3, <1>4

\* An incident over a Windows row and a firewall row.
LEMMA PairCoincides ==
  ASSUME now \in Nat,
         NEW we, NEW fe, NEW type,
         InReach(we, "windows"), InReach(fe, "firewall"),
         we.row.src = fe.row.src \/ (type = "C2_BEACON_CONFIRMED" /\ we.row.host = fe.row.src),
         Distance(we, fe) <= Window, type # "BRUTE_FORCE_CONFIRMED",
         type = "FIREWALL_BYPASS_SUSPECTED" => we.ts > fe.ts,
         type = "CRED_DUMP_THEN_EXFIL" => fe.ts >= we.ts
  PROVE  Coincidence(Incident(type, {we, fe}))
<1> DEFINE i == Incident(type, {we, fe})
<1>1. i.type = type /\ i.evidence = {we, fe}
  BY DEF Incident
<1> HIDE DEF i
<1>2. we.row.source = "windows" /\ fe.row.source = "firewall"
  BY DEF InReach
<1>3. Of(i, "windows") = {we} /\ Of(i, "firewall") = {fe}
  BY <1>1, <1>2 DEF Of
<1>4. /\ Distance(we, fe) <= Window + MaxAhead /\ Distance(fe, we) <= Window + MaxAhead
      /\ Distance(we, we) <= Window + MaxAhead /\ Distance(fe, fe) <= Window + MaxAhead
      /\ Alerted(we.row) /\ Alerted(fe.row)
  BY ReachIsNarrow DEF InReach
<1>5. QED
  BY <1>1, <1>3, <1>4 DEF Coincidence, i

\* The five rules of the correlator claim of their evidence what holds of it.
LEMMA RulesSeeCoincidences ==
  ASSUME now \in Nat, NEW win, NEW fw,
         \A t \in win : InReach(t, "windows"),
         \A t \in fw : InReach(t, "firewall")
  PROVE  \A i \in Rules(win, fw) : Coincidence(i)
<1>1. ASSUME NEW i \in ruleC2BeaconConfirmed(win, fw) PROVE Coincidence(i)
  <2>1. PICK q \in win \X fw :
           /\ i = Incident("C2_BEACON_CONFIRMED", {q[1], q[2]})
           /\ q[2].row.src \in {q[1].row.src, q[1].row.host} /\ Distance(q[1], q[2]) <= Window
    BY <1>1 DEF ruleC2BeaconConfirmed, inWindow
  <2>2. QED
    BY <2>1, PairCoincides
<1>2. ASSUME NEW i \in ruleCredDumpToExfil(win, fw) PROVE Coincidence(i)
  <2>1. PICK q \in win \X fw :
           /\ i = Incident("CRED_DUMP_THEN_EXFIL", {q[1], q[2]}) /\ q[2].row.src = q[1].row.src
           /\ q[2].ts >= q[1].ts /\ Distance(q[1], q[2]) <= Window
    BY <1>2 DEF ruleCredDumpToExfil, inWindow
  <2>2. QED
    BY <2>1, PairCoincides
<1>3. ASSUME NEW i \in ruleLateralMovementConfirmed(win, fw) PROVE Coincidence(i)
  <2>1. PICK q \in win \X fw :
           /\ i = Incident("LATERAL_MOVEMENT_CONFIRMED", {q[1], q[2]}) /\ q[2].row.src = q[1].row.src
           /\ Distance(q[1], q[2]) <= Window
    BY <1>3 DEF ruleLateralMovementConfirmed, inWindow
  <2>2. QED
    BY <2>1, PairCoincides
<1>4. ASSUME NEW i \in ruleFirewallDenyThenSuccess(win, fw) PROVE Coincidence(i)
  <2>1. PICK q \in fw \X win :
           /\ i = Incident("FIREWALL_BYPASS_SUSPECTED", {q[1], q[2]}) /\ q[2].row.src = q[1].row.src
           /\ q[2].ts > q[1].ts /\ Distance(q[1], q[2]) <= Window
    BY <1>4 DEF ruleFirewallDenyThenSuccess, inWindow
  <2>2. {q[1], q[2]} = {q[2], q[1]} /\ Distance(q[2], q[1]) <= Window
    BY <2>1 DEF Distance, InReach
  <2>3. Coincidence(Incident("FIREWALL_BYPASS_SUSPECTED", {q[2], q[1]}))
    BY <2>1, <2>2, PairCoincides
  <2>4. QED
    BY <2>1, <2>2, <2>3
<1>5. ASSUME NEW i \in ruleBruteForceWithFirewall(win, fw) PROVE Coincidence(i)
  <2>1. PICK ip : \E fails \in SUBSET win, blocks \in SUBSET fw :
           /\ i = Incident("BRUTE_FORCE_CONFIRMED", fails \cup blocks)
           /\ Cardinality(fails) >= FailThreshold /\ blocks # {}
           /\ \A t \in fails \cup blocks : t.row.src = ip
           /\ (\E t \in fails : \A u \in fails : t.ts <= u.ts) => FirstIsNear(fails, blocks)
    <3> DEFINE Fails(ip) == {t \in win : t.row.event.id = "4625" /\ t.row.src = ip}
               First(s) == CHOOSE t \in s : \A u \in s : t.ts <= u.ts
               Blocks(ip) == {t \in fw : /\ t.row.src = ip /\ t.row.flow.port = "lateral" /\ Denied(t)
                                         /\ inWindow(First(Fails(ip)), t)}
               Sources == {t.row.src : t \in win} \ {NoAddress}
    <3>1. PICK ip \in Sources :
             /\ i = Incident("BRUTE_FORCE_CONFIRMED", Fails(ip) \cup Blocks(ip))
             /\ Cardinality(Fails(ip)) >= FailThreshold /\ Blocks(ip) # {}
      BY <1>5 DEF ruleBruteForceWithFirewall
    <3>2. Fails(ip) \in SUBSET win /\ Blocks(ip) \in SUBSET fw
      OBVIOUS
    <3>3. \A t \in Fails(ip) \cup Blocks(ip) : t.row.src = ip
      OBVIOUS
    <3>4. \A u \in Blocks(ip) : Distance(First(Fails(ip)), u) <= Window
      BY DEF inWindow
    <3> HIDE DEF Fails, Blocks, Sources
    <3>5. (\E t \in Fails(ip) : \A u \in Fails(ip) : t.ts <= u.ts) => FirstIsNear(Fails(ip), Blocks(ip))
      BY <3>4 DEF FirstIsNear
    <3>6. QED
      BY <3>1, <3>2, <3>3, <3>5
  <2>2. PICK fails \in SUBSET win, blocks \in SUBSET fw :
           /\ i = Incident("BRUTE_FORCE_CONFIRMED", fails \cup blocks)
           /\ Cardinality(fails) >= FailThreshold /\ blocks # {}
           /\ \A t \in fails \cup blocks : t.row.src = ip
           /\ (\E t \in fails : \A u \in fails : t.ts <= u.ts) => FirstIsNear(fails, blocks)
    BY <2>1
  <2>3. i.type = "BRUTE_FORCE_CONFIRMED" /\ i.evidence = fails \cup blocks
    BY <2>2 DEF Incident
  <2>4. /\ \A t \in fails : t.row.source = "windows" /\ t.ts \in Nat
        /\ \A t \in blocks : t.row.source = "firewall"
    BY DEF InReach
  <2>5. Of(i, "windows") = fails /\ Of(i, "firewall") = blocks
    BY <2>3, <2>4 DEF Of
  <2>6. fails # {}
    BY <2>2, FS_EmptySet, CorrelatorAssumption
  <2>7. FirstIsNear(fails, blocks)
    BY <2>2, <2>4, <2>6, Earliest
  <2>8. ASSUME NEW t \in i.evidence, NEW u \in i.evidence
        PROVE  Alerted(t.row) /\ Distance(t, u) <= Window + MaxAhead
    <3>1. InReach(t, "windows") \/ InReach(t, "firewall")
      BY <2>3
    <3>2. InReach(u, "windows") \/ InReach(u, "firewall")
      BY <2>3
    <3>3. Distance(t, u) <= Window + MaxAhead
      BY <3>1, <3>2, ReachIsNarrow
    <3>4. QED
      BY <3>1, <3>3 DEF InReach
  <2>9. \A we \in fails, fe \in blocks : we.row.src = fe.row.src
    BY <2>2
  <2>10. QED
    BY <2>2, <2>3, <2>5, <2>6, <2>7, <2>8, <2>9 DEF Coincidence
<1>6. QED
  BY <1>1, <1>2, <1>3, <1>4, <1>5 DEF Rules

LEMMA CorrelatorTypesKept ==
  ASSUME CorrelatorTypes, CorrelatorNext
  PROVE  CorrelatorTypes'
<1>1. ASSUME NEW r \in coming, NEW late \in (-MaxAhead)..MaxLate, InsertRow(r, late) PROVE CorrelatorTypes'
  <2> DEFINE t0 == [row |-> r, ts |-> now - late, at |-> now]
  <2>1. t0.ts \in Nat /\ t0.ts <= now + Ahead(t0.row.source) /\ t0.at \in 0..now
    BY <1>1, CorrelatorAssumption DEF InsertRow, CorrelatorTypes, Ahead
  <2>2. table' = table \cup {t0}
    BY <1>1 DEF InsertRow
  <2> HIDE DEF t0
  <2>3. IsFiniteSet(table')
    BY <2>2, FS_AddElement DEF CorrelatorTypes
  <2>4. \A t \in table' : t.ts \in Nat /\ t.ts <= now + Ahead(t.row.source) /\ t.at \in 0..now
    BY <2>1, <2>2 DEF CorrelatorTypes
  <2>5. UNCHANGED <<useLLMPass, now, step, winEvents>> /\ coming' \subseteq coming
    BY <1>1 DEF InsertRow
  <2>6. QED
    BY <2>3, <2>4, <2>5 DEF CorrelatorTypes, InReach, Ahead, Alerted
<1>2. CASE QueryWindows
  <2>1. IsFiniteSet(winEvents') /\ \A t \in winEvents' : InReach(t, "windows")
    BY <1>2, StoredInReach DEF QueryWindows
  <2>2. QED
    BY <1>2, <2>1 DEF QueryWindows, CorrelatorTypes, InReach, Ahead, Alerted
<1>3. CASE QueryFirewall \/ QueryFails
  BY <1>3, FS_EmptySet DEF QueryFirewall, QueryFails, CorrelatorTypes, Ahead
<1>4. CASE (\E i \in unsaved : saveIncident(i) \/ SaveFails(i)) \/ PassEnds
  <2>1. UNCHANGED <<useLLMPass, now, coming, table, winEvents>> /\ step' \in {"save", "waiting"} /\ step = "save"
    BY <1>4 DEF saveIncident, SaveFails, PassEnds
  <2>2. QED
    BY <2>1 DEF CorrelatorTypes, InReach, Ahead, Alerted
<1>5. CASE TickerFires
  <2>1. UNCHANGED <<coming, table, winEvents>> /\ step' = "due" /\ winEvents = {} /\ now' = now + 1
    BY <1>5 DEF TickerFires, CorrelatorTypes
  <2>2. \A source : Ahead(source)' = Ahead(source) /\ Ahead(source) \in Nat
    BY CorrelatorAssumption DEF Ahead
  <2>3. QED
    BY <2>1, <2>2 DEF CorrelatorTypes
<1>6. QED
  BY <1>1, <1>2, <1>3, <1>4, <1>5 DEF CorrelatorNext

CoincidenceInv ==
  CorrelatorTypes /\ (\A i \in unsaved : Coincidence(i)) /\ IncidentsAreCoincidences

LEMMA CoincidenceStart == CorrelatorInit => CoincidenceInv
BY FS_EmptySet DEF CorrelatorInit, CoincidenceInv, CorrelatorTypes, IncidentsAreCoincidences

LEMMA CoincidenceStep ==
  CoincidenceInv /\ [CorrelatorNext]_correlatorVars => CoincidenceInv'
<1>1. ASSUME CoincidenceInv, CorrelatorNext PROVE CoincidenceInv'
  <2>1. CorrelatorTypes'
    BY <1>1, CorrelatorTypesKept DEF CoincidenceInv
  <2>2. /\ \A i \in unsaved : Coincidence(i)
        /\ \A i \in DOMAIN incidents : Coincidence(i)
    BY <1>1, CoincidencesAreTheProperty DEF CoincidenceInv
  <2>3. (\A i \in unsaved' : Coincidence(i)) /\ (\A i \in DOMAIN incidents' : Coincidence(i))
    <3>1. CASE QueryFirewall
      <4>1. PICK fwEvents \in Oldest(Stored(table, "firewall", since)) : unsaved' = Rules(winEvents, fwEvents)
        BY <3>1 DEF QueryFirewall
      <4>2. \A t \in fwEvents : InReach(t, "firewall")
        BY <1>1, StoredInReach DEF CoincidenceInv
      <4>3. now \in Nat /\ \A t \in winEvents : InReach(t, "windows")
        BY <1>1 DEF CoincidenceInv, CorrelatorTypes
      <4>4. \A i \in Rules(winEvents, fwEvents) : Coincidence(i)
        BY <4>2, <4>3, RulesSeeCoincidences
      <4>5. incidents' = incidents
        BY <3>1 DEF QueryFirewall
      <4>6. QED
        BY <2>2, <4>1, <4>4, <4>5
    <3>2. ASSUME NEW i \in unsaved, saveIncident(i)
          PROVE  (\A j \in unsaved' : Coincidence(j)) /\ (\A j \in DOMAIN incidents' : Coincidence(j))
      <4>1. DOMAIN incidents' = DOMAIN incidents \cup {i} /\ unsaved' \subseteq unsaved
        BY <3>2 DEF saveIncident
      <4>2. QED
        BY <2>2, <4>1
    <3>3. ASSUME NEW i \in unsaved, SaveFails(i)
          PROVE  (\A j \in unsaved' : Coincidence(j)) /\ (\A j \in DOMAIN incidents' : Coincidence(j))
      BY <2>2, <3>3 DEF SaveFails
    <3>4. CASE \/ \E r \in coming, late \in (-MaxAhead)..MaxLate : InsertRow(r, late)
               \/ QueryWindows \/ QueryFails \/ PassEnds \/ TickerFires
      <4>1. UNCHANGED <<unsaved, incidents>>
        BY <3>4 DEF InsertRow, QueryWindows, QueryFails, PassEnds, TickerFires
      <4>2. QED
        BY <2>2, <4>1
    <3>5. QED
      BY <1>1, <3>1, <3>2, <3>3, <3>4 DEF CorrelatorNext
  <2>4. /\ \A i : Coincidence(i)' <=> Coincidence(i)
        /\ IncidentsAreCoincidences' <=> \A i \in DOMAIN incidents' : Coincidence(i)'
    <3>1. UNCHANGED useLLMPass
      BY <1>1 DEF CorrelatorNext, InsertRow, QueryWindows, QueryFirewall, QueryFails, saveIncident, SaveFails,
                  PassEnds, TickerFires
    <3>2. \A i : Coincidence(i)' <=> Coincidence(i)
      BY <3>1 DEF Coincidence, FirstIsNear, Of, Distance, Alerted
    <3>3. IncidentsAreCoincidences' <=> \A i \in DOMAIN incidents' : Coincidence(i)'
      BY DEF IncidentsAreCoincidences, Coincidence, FirstIsNear
    <3>4. QED
      BY <3>2, <3>3
  <2>5. QED
    BY <2>1, <2>3, <2>4 DEF CoincidenceInv
<1>2. ASSUME CoincidenceInv, UNCHANGED correlatorVars PROVE CoincidenceInv'
  BY <1>2 DEF correlatorVars, CoincidenceInv, CorrelatorTypes, InReach, Ahead, Alerted, IncidentsAreCoincidences,
              Coincidence, FirstIsNear, Of, Distance
<1>3. QED
  BY <1>1, <1>2

\* What internal/correlator writes to correlation_incidents is true of the rows it cites:
\* alerted, of both sources, from one address - or, for a beacon, from the address its
\* computer is named by - and at most a window apart - of the failures of a brute force, the
\* first one - with the cause before the effect.
THEOREM IncidentsHold == CorrelatorSpec => []IncidentsAreCoincidences
<1>1. CoincidenceInv => IncidentsAreCoincidences
  BY DEF CoincidenceInv
<1>2. QED
  BY <1>1, CoincidenceStart, CoincidenceStep, PTL DEF CorrelatorSpec
----------------------------------------------------------------------------
(* The correlator: a coincidence becomes an incident *)

\* An incident says of as much evidence, and maybe more, what another one says.
Covers(j, i) == j.type = i.type /\ i.evidence \subseteq j.evidence

\* It is in the table, or its INSERT failed in pass n.
Known(n, i) ==
  \/ \E j \in DOMAIN incidents : Covers(j, i)
  \/ \E f \in notSaved : f[2] = n /\ Covers(f[1], i)

\* What CoincidencesReported says of a pass that is over.
Reported(n) ==
  \/ n \in badPasses \/ Over(n, "windows") \/ Over(n, "firewall")
  \/ \A i \in Rules(Read(n, "windows"), Read(n, "firewall")) : Known(n, i)

\* Between the queries: what was in the tables before the pass has been read.
Halfway ==
  step = "firewall" => Over(now, "windows") \/ Read(now, "windows") \subseteq winEvents

\* While incidents are saved: what is not known yet is still to be saved.
Saving ==
  step = "save" =>
    \/ Over(now, "windows") \/ Over(now, "firewall")
    \/ \A i \in Rules(Read(now, "windows"), Read(now, "firewall")) :
         Known(now, i) \/ \E j \in unsaved : Covers(j, i)

ReportedInv == CorrelatorTypes /\ Halfway /\ Saving /\ CoincidencesReported

LEMMA ReportedIsTheProperty ==
  CoincidencesReported <=> \A n \in 0..now : (n = now /\ step # "waiting") \/ Reported(n)
BY DEF CoincidencesReported, Reported, Known, Covers

\* More rows in reach never hide a coincidence: the rules see it again, perhaps with
\* more evidence.  For the brute-force rule the first failed logon may become an earlier
\* one; it is still within the window of every block, since both were in reach and no
\* block is ahead of the server's clock.
LEMMA RulesMonotone ==
  ASSUME now \in Nat,
         NEW win, NEW fw, NEW moreWin, NEW moreFw,
         win \subseteq moreWin, fw \subseteq moreFw, IsFiniteSet(moreWin),
         \A t \in moreWin : InReach(t, "windows"),
         \A t \in moreFw : InReach(t, "firewall"),
         NEW i \in Rules(win, fw)
  PROVE  \E j \in Rules(moreWin, moreFw) : Covers(j, i)
<1>1. \A r : Covers(r, r)
  BY DEF Covers
<1>2. CASE i \in ruleC2BeaconConfirmed(win, fw)
  <2>1. i \in ruleC2BeaconConfirmed(moreWin, moreFw)
    BY <1>2 DEF ruleC2BeaconConfirmed
  <2>2. QED
    BY <1>1, <2>1 DEF Rules
<1>3. CASE i \in ruleCredDumpToExfil(win, fw)
  <2>1. i \in ruleCredDumpToExfil(moreWin, moreFw)
    BY <1>3 DEF ruleCredDumpToExfil
  <2>2. QED
    BY <1>1, <2>1 DEF Rules
<1>4. CASE i \in ruleLateralMovementConfirmed(win, fw)
  <2>1. i \in ruleLateralMovementConfirmed(moreWin, moreFw)
    BY <1>4 DEF ruleLateralMovementConfirmed
  <2>2. QED
    BY <1>1, <2>1 DEF Rules
<1>5. CASE i \in ruleFirewallDenyThenSuccess(win, fw)
  <2>1. i \in ruleFirewallDenyThenSuccess(moreWin, moreFw)
    BY <1>5 DEF ruleFirewallDenyThenSuccess
  <2>2. QED
    BY <1>1, <2>1 DEF Rules
<1>6. CASE i \in ruleBruteForceWithFirewall(win, fw)
  <2> DEFINE Fails(w, ip) == {t \in w : t.row.event.id = "4625" /\ t.row.src = ip}
             First(s) == CHOOSE t \in s : \A u \in s : t.ts <= u.ts
             Blocks(w, f, ip) == {t \in f : /\ t.row.src = ip /\ t.row.flow.port = "lateral" /\ Denied(t)
                                            /\ inWindow(First(Fails(w, ip)), t)}
             Sources(w) == {t.row.src : t \in w} \ {NoAddress}
  <2>1. PICK ip :
           /\ ip \in Sources(win)
           /\ i = Incident("BRUTE_FORCE_CONFIRMED", Fails(win, ip) \cup Blocks(win, fw, ip))
           /\ Cardinality(Fails(win, ip)) >= FailThreshold /\ Blocks(win, fw, ip) # {}
    BY <1>6 DEF ruleBruteForceWithFirewall
  <2>2. /\ Fails(win, ip) \subseteq Fails(moreWin, ip) /\ Fails(moreWin, ip) \subseteq moreWin
        /\ ip \in Sources(moreWin)
    BY <2>1
  <2> DEFINE few == Fails(win, ip)
             many == Fails(moreWin, ip)
  <2>3. Cardinality(many) >= FailThreshold /\ many # {}
    <3>1. few \subseteq many /\ many \subseteq moreWin /\ Cardinality(few) >= FailThreshold
      BY <2>1, <2>2
    <3> HIDE DEF few, many
    <3>2. IsFiniteSet(many)
      BY <3>1, FS_Subset
    <3>3. IsFiniteSet(few) /\ Cardinality(few) <= Cardinality(many)
      BY <3>1, <3>2, FS_Subset
    <3>4. Cardinality(few) \in Nat /\ Cardinality(many) \in Nat
      BY <3>2, <3>3, FS_CardinalityType
    <3>5. Cardinality(many) >= FailThreshold /\ Cardinality(many) # 0
      BY <3>1, <3>3, <3>4, CorrelatorAssumption
    <3>6. QED
      BY <3>5, FS_EmptySet
  <2>4. \A s \in {few, many} : First(s) \in s /\ (\A u \in s : First(s).ts <= u.ts)
    <3>1. few \subseteq moreWin /\ many \subseteq moreWin /\ few # {} /\ many # {}
      <4>1. Cardinality(few) >= FailThreshold /\ few \subseteq many /\ many \subseteq moreWin /\ many # {}
        BY <2>1, <2>2, <2>3
      <4> HIDE DEF few, many
      <4>2. few # {}
        BY <4>1, FS_EmptySet, CorrelatorAssumption
      <4>3. QED
        BY <4>1, <4>2
    <3> HIDE DEF few, many
    <3>2. SUFFICES ASSUME NEW s \in {few, many} PROVE First(s) \in s /\ (\A u \in s : First(s).ts <= u.ts)
      OBVIOUS
    <3>3. s # {} /\ \A t \in s : t.ts \in Nat
      BY <3>1 DEF InReach
    <3>4. QED
      BY <3>3, Earliest
  <2>5. ASSUME NEW t \in fw, Distance(First(few), t) <= Window PROVE Distance(First(many), t) <= Window
    <3>1. /\ First(few) \in many /\ First(many).ts <= First(few).ts
          /\ InReach(First(few), "windows") /\ InReach(First(many), "windows") /\ InReach(t, "firewall")
      BY <2>2, <2>4, <2>5
    <3> HIDE DEF First, few, many
    <3>2. QED
      BY <2>5, <3>1, CorrelatorAssumption DEF InReach, Ahead, Distance
  <2> HIDE DEF Fails
  <2> HIDE DEF First
  <2>6. Blocks(win, fw, ip) \subseteq Blocks(moreWin, moreFw, ip)
    BY <2>5 DEF inWindow
  <2> DEFINE j == Incident("BRUTE_FORCE_CONFIRMED", Fails(moreWin, ip) \cup Blocks(moreWin, moreFw, ip))
  <2>7. j \in ruleBruteForceWithFirewall(moreWin, moreFw)
    <3>1. ip \in {k \in Sources(moreWin) : Cardinality(Fails(moreWin, k)) >= FailThreshold /\ Blocks(moreWin, moreFw, k) # {}}
      BY <2>1, <2>2, <2>3, <2>6
    <3>2. QED
      BY <3>1 DEF ruleBruteForceWithFirewall, Fails, First
  <2>8. Covers(j, i)
    <3> HIDE DEF Blocks
    <3>1. QED
      BY <2>1, <2>2, <2>6 DEF Covers, Incident
  <2>9. QED
    BY <2>7, <2>8 DEF Rules
<1>7. QED
  BY <1>2, <1>3, <1>4, <1>5, <1>6 DEF Rules

\* A pass reads the rows that were there before it, unless there are too many.
LEMMA QueryCovers ==
  ASSUME CorrelatorTypes, NEW source, NEW seen \in Oldest(Stored(table, source, since))
  PROVE  Over(now, source) \/ Read(now, source) \subseteq seen
<1> DEFINE found == Stored(table, source, since)
<1>1. {t \in table : t.at <= now} = table
  BY DEF CorrelatorTypes
<1>2. Over(now, source) <=> Cardinality(found) > RowLimit
  BY <1>1 DEF Over, since
<1>3. Read(now, source) \subseteq found
  BY DEF Read, Stored, since
<1>4. IsFiniteSet(found)
  <2>1. found \subseteq table
    BY DEF Stored
  <2>2. QED
    BY <2>1, FS_Subset DEF CorrelatorTypes
<1>5. Cardinality(found) \in Nat
  BY <1>4, FS_CardinalityType
<1>6. Cardinality(found) <= RowLimit => seen = found
  BY QueryReads
<1> HIDE DEF found
<1>7. QED
  BY <1>2, <1>3, <1>5, <1>6, CorrelatorAssumption

LEMMA RulesRigid ==
  ASSUME UNCHANGED useLLMPass
  PROVE  \A win, fw : Rules(win, fw)' = Rules(win, fw)
<1>1. /\ \A t : Allowed(t)' <=> Allowed(t)
      /\ \A t : Denied(t)' <=> Denied(t)
      /\ \A t : SentBytes(t)' = SentBytes(t)
      /\ \A t : RemoteLogon(t)' <=> RemoteLogon(t)
  BY DEF Allowed, Denied, SentBytes, RemoteLogon, Action
<1> SUFFICES ASSUME NEW win, NEW fw PROVE Rules(win, fw)' = Rules(win, fw)
  OBVIOUS
<1>2. ruleC2BeaconConfirmed(win, fw)' = ruleC2BeaconConfirmed(win, fw)
  BY <1>1 DEF ruleC2BeaconConfirmed
<1>3. ruleBruteForceWithFirewall(win, fw)' = ruleBruteForceWithFirewall(win, fw)
  <2> DEFINE Fails(ip) == {t \in win : t.row.event.id = "4625" /\ t.row.src = ip}
             First(s) == CHOOSE t \in s : \A u \in s : t.ts <= u.ts
             Blocks(ip) == {t \in fw : /\ t.row.src = ip /\ t.row.flow.port = "lateral" /\ Denied(t)
                                       /\ inWindow(First(Fails(ip)), t)}
             Sources == {t.row.src : t \in win} \ {NoAddress}
             Made == {Incident("BRUTE_FORCE_CONFIRMED", Fails(ip) \cup Blocks(ip)) : ip \in
                        {k \in Sources : Cardinality(Fails(k)) >= FailThreshold /\ Blocks(k) # {}}}
  <2>1. ruleBruteForceWithFirewall(win, fw) = Made
    BY DEF ruleBruteForceWithFirewall
  <2>2. \A ip : Blocks(ip)' = Blocks(ip)
    BY <1>1
  <2>3. ruleBruteForceWithFirewall(win, fw)' = Made'
    BY DEF ruleBruteForceWithFirewall
  <2> HIDE DEF Blocks
  <2>4. Made' = Made
    BY <2>2
  <2> HIDE DEF Made
  <2>5. QED
    BY <2>1, <2>3, <2>4
<1>4. ruleCredDumpToExfil(win, fw)' = ruleCredDumpToExfil(win, fw)
  BY <1>1 DEF ruleCredDumpToExfil
<1>5. ruleLateralMovementConfirmed(win, fw)' = ruleLateralMovementConfirmed(win, fw)
  BY <1>1 DEF ruleLateralMovementConfirmed
<1>6. ruleFirewallDenyThenSuccess(win, fw)' = ruleFirewallDenyThenSuccess(win, fw)
  BY <1>1 DEF ruleFirewallDenyThenSuccess
<1>7. QED
  BY <1>2, <1>3, <1>4, <1>5, <1>6 DEF Rules

\* The rows a pass that has begun should see do not change any more: a row is inserted
\* at the time of the insertion.
LEMMA ReadStays ==
  ASSUME CorrelatorTypes, CorrelatorNext
  PROVE  /\ UNCHANGED useLLMPass /\ table \subseteq table' /\ IsFiniteSet(table')
         /\ \A n \in 0..now : \A source : /\ Read(n, source)' = Read(n, source)
                                          /\ Over(n, source) => Over(n, source)'
<1>1. UNCHANGED useLLMPass
  BY DEF CorrelatorNext, InsertRow, QueryWindows, QueryFirewall, QueryFails, saveIncident, SaveFails, PassEnds,
         TickerFires
<1>2. table \subseteq table' /\ (\A t \in table' \ table : t.at = now)
  <2>1. ASSUME NEW r \in coming, NEW late \in (-MaxAhead)..MaxLate, InsertRow(r, late)
        PROVE  table \subseteq table' /\ (\A t \in table' \ table : t.at = now)
    BY <2>1 DEF InsertRow
  <2>2. CASE UNCHANGED table
    BY <2>2
  <2>3. QED
    BY <2>1, <2>2 DEF CorrelatorNext, QueryWindows, QueryFirewall, QueryFails, saveIncident, SaveFails,
                      PassEnds, TickerFires
<1>3. IsFiniteSet(table')
  BY CorrelatorTypesKept DEF CorrelatorTypes
<1>4. ASSUME NEW n \in 0..now, NEW source PROVE Read(n, source)' = Read(n, source)
  <2>1. {t \in table' : t.at < n} = {t \in table : t.at < n}
    BY <1>2 DEF CorrelatorTypes
  <2>2. QED
    BY <1>1, <2>1 DEF Read, Stored, Alerted
<1>5. ASSUME NEW n \in 0..now, NEW source, Over(n, source) PROVE Over(n, source)'
  <2> DEFINE before == Stored({t \in table : t.at <= n}, source, n - Window)
             after == Stored({t \in table' : t.at <= n}, source, n - Window)
  <2>1. before \subseteq after /\ after \subseteq table'
    BY <1>2 DEF Stored
  <2>2. Cardinality(before) > RowLimit
    BY <1>5 DEF Over
  <2>3. Over(n, source)' <=> Cardinality(after) > RowLimit
    BY <1>1 DEF Over, Stored, Alerted
  <2> HIDE DEF before, after
  <2>4. IsFiniteSet(after)
    BY <1>3, <2>1, FS_Subset
  <2>5. IsFiniteSet(before) /\ Cardinality(before) <= Cardinality(after)
    BY <2>1, <2>4, FS_Subset
  <2>6. Cardinality(before) \in Nat /\ Cardinality(after) \in Nat
    BY <2>4, <2>5, FS_CardinalityType
  <2>7. QED
    BY <2>2, <2>3, <2>5, <2>6, CorrelatorAssumption
<1>6. QED
  BY <1>1, <1>2, <1>3, <1>4, <1>5

LEMMA CoincidencesStay ==
  ASSUME CorrelatorTypes, CorrelatorNext, NEW n \in 0..now
  PROVE  Rules(Read(n, "windows"), Read(n, "firewall"))' = Rules(Read(n, "windows"), Read(n, "firewall"))
<1>1. PICK win, fw : win = Read(n, "windows") /\ fw = Read(n, "firewall")
  OBVIOUS
<1>2. Read(n, "windows")' = win /\ Read(n, "firewall")' = fw
  BY <1>1, ReadStays
<1>3. Rules(win, fw)' = Rules(win, fw)
  BY ReadStays, RulesRigid
<1>4. QED
  BY <1>1, <1>2, <1>3

LEMMA KnownStays ==
  ASSUME CorrelatorNext, NEW n, NEW i, Known(n, i)
  PROVE  Known(n, i)'
<1>1. DOMAIN incidents \subseteq DOMAIN incidents' /\ notSaved \subseteq notSaved'
  BY DEF CorrelatorNext, InsertRow, QueryWindows, QueryFirewall, QueryFails, saveIncident, SaveFails, PassEnds,
         TickerFires
<1>2. QED
  BY <1>1 DEF Known, Covers

\* What a pass that is over has reported stays reported.
LEMMA ReportedStays ==
  ASSUME CorrelatorTypes, CorrelatorNext, NEW n \in 0..now, Reported(n)
  PROVE  Reported(n)'
<1>1. CASE n \in badPasses
  <2>1. badPasses \subseteq badPasses'
    BY DEF CorrelatorNext, InsertRow, QueryWindows, QueryFirewall, QueryFails, saveIncident, SaveFails, PassEnds,
           TickerFires
  <2>2. QED
    BY <1>1, <2>1 DEF Reported
<1>2. CASE Over(n, "windows") \/ Over(n, "firewall")
  BY <1>2, ReadStays DEF Reported
<1>3. CASE \A i \in Rules(Read(n, "windows"), Read(n, "firewall")) : Known(n, i)
  <2>1. (\A i \in Rules(Read(n, "windows"), Read(n, "firewall")) : Known(n, i))'
    BY <1>3, CoincidencesStay, KnownStays
  <2>2. QED
    BY <2>1 DEF Reported
<1>4. QED
  BY <1>1, <1>2, <1>3 DEF Reported

LEMMA ReportedStart == CorrelatorInit => ReportedInv
<1> SUFFICES ASSUME CorrelatorInit PROVE ReportedInv
  OBVIOUS
<1>1. CorrelatorTypes
  BY CoincidenceStart DEF CoincidenceInv
<1>2. Halfway /\ Saving
  BY DEF CorrelatorInit, Halfway, Saving
<1>3. \A n \in 0..now : n = now /\ step # "waiting"
  BY DEF CorrelatorInit
<1>4. CoincidencesReported
  BY <1>3 DEF CoincidencesReported
<1>5. QED
  BY <1>1, <1>2, <1>4 DEF ReportedInv

LEMMA HalfwayKept ==
  ASSUME CorrelatorTypes, Halfway, CorrelatorNext
  PROVE  Halfway'
<1> USE ReadStays
<1>1. now \in 0..now
  BY DEF CorrelatorTypes
<1>2. CASE QueryWindows
  <2>1. winEvents' \in Oldest(Stored(table, "windows", since)) /\ now' = now
    BY <1>2 DEF QueryWindows
  <2>2. PICK answer \in Oldest(Stored(table, "windows", since)) : winEvents' = answer
    BY <2>1
  <2>3. Over(now, "windows") \/ Read(now, "windows") \subseteq answer
    BY QueryCovers
  <2>4. PICK n \in 0..now : n = now
    BY <1>1
  <2>5. Over(n, "windows")' \/ Read(n, "windows")' \subseteq winEvents'
    BY <2>2, <2>3, <2>4
  <2>6. n = now'
    BY <2>1, <2>4
  <2>7. QED
    BY <2>5, <2>6 DEF Halfway
<1>3. CASE \E r \in coming, late \in (-MaxAhead)..MaxLate : InsertRow(r, late)
  <2>1. UNCHANGED <<now, step, winEvents>>
    BY <1>3 DEF InsertRow
  <2>2. PICK n \in 0..now : n = now
    BY <1>1
  <2>3. step = "firewall" => Over(n, "windows")' \/ Read(n, "windows")' \subseteq winEvents
    BY <2>2 DEF Halfway
  <2>4. n = now'
    BY <2>1, <2>2
  <2>5. QED
    BY <2>1, <2>3, <2>4 DEF Halfway
<1>4. CASE QueryFirewall \/ QueryFails \/ (\E i \in unsaved : saveIncident(i) \/ SaveFails(i)) \/ PassEnds \/ TickerFires
  <2>1. step' # "firewall"
    BY <1>4 DEF QueryFirewall, QueryFails, saveIncident, SaveFails, PassEnds, TickerFires
  <2>2. QED
    BY <2>1 DEF Halfway
<1>5. QED
  BY <1>2, <1>3, <1>4 DEF CorrelatorNext

LEMMA SavingKept ==
  ASSUME CorrelatorTypes, Halfway, Saving, CorrelatorNext
  PROVE  Saving'
<1> DEFINE Found(n) == Rules(Read(n, "windows"), Read(n, "firewall"))
<1>1. PICK n \in 0..now : n = now
  BY DEF CorrelatorTypes
<1>2. /\ Over(n, "windows") => Over(n, "windows")'
      /\ Over(n, "firewall") => Over(n, "firewall")'
      /\ Found(n)' = Found(n)
  BY ReadStays, CoincidencesStay
<1>3. \A i : Known(n, i) => Known(n, i)'
  BY KnownStays
<1>4. \/ now' = now /\ step' = "save"
      \/ step' # "save"
  BY DEF CorrelatorNext, InsertRow, QueryWindows, QueryFirewall, QueryFails, saveIncident, SaveFails, PassEnds,
         TickerFires
<1>5. ASSUME now' = now,
             \/ Over(n, "windows") \/ Over(n, "firewall")
             \/ \A i \in Found(n) : Known(n, i)' \/ \E j \in unsaved' : Covers(j, i)
      PROVE  Saving'
  <2>1. n = now'
    BY <1>1, <1>5
  <2>2. \/ Over(n, "windows")' \/ Over(n, "firewall")'
        \/ \A i \in Found(n)' : Known(n, i)' \/ \E j \in unsaved' : Covers(j, i)
    BY <1>2, <1>5
  <2>3. QED
    BY <2>1, <2>2 DEF Saving, Covers
<1>6. CASE \E r \in coming, late \in (-MaxAhead)..MaxLate : InsertRow(r, late)
  <2>1. UNCHANGED <<now, step, unsaved>>
    BY <1>6 DEF InsertRow
  <2>2. CASE step = "save"
    BY <1>1, <1>3, <1>5, <2>1, <2>2 DEF Saving
  <2>3. CASE step # "save"
    BY <2>1, <2>3 DEF Saving
  <2>4. QED
    BY <2>2, <2>3
<1>7. CASE QueryFirewall
  <2>1. PICK fwEvents \in Oldest(Stored(table, "firewall", since)) : unsaved' = Rules(winEvents, fwEvents)
    BY <1>7 DEF QueryFirewall
  <2>2. /\ Over(now, "firewall") \/ Read(now, "firewall") \subseteq fwEvents
        /\ \A t \in fwEvents : InReach(t, "firewall")
    BY QueryCovers, StoredInReach
  <2>3. Over(now, "windows") \/ Read(now, "windows") \subseteq winEvents
    BY <1>7 DEF QueryFirewall, Halfway
  <2>4. now \in Nat /\ IsFiniteSet(winEvents) /\ \A t \in winEvents : InReach(t, "windows")
    BY DEF CorrelatorTypes
  <2>5. \/ Over(now, "windows") \/ Over(now, "firewall")
        \/ \A i \in Rules(Read(now, "windows"), Read(now, "firewall")) : \E j \in unsaved' : Covers(j, i)
    BY <2>1, <2>2, <2>3, <2>4, RulesMonotone
  <2>6. now' = now
    BY <1>7 DEF QueryFirewall
  <2>7. QED
    BY <1>1, <1>5, <2>5, <2>6
<1>8. ASSUME NEW k \in unsaved, saveIncident(k) \/ SaveFails(k) PROVE Saving'
  <2>1. now' = now /\ step = "save" /\ unsaved' = unsaved \ {k}
    BY <1>8 DEF saveIncident, SaveFails
  <2>2. \A i : Covers(k, i) => Known(n, i)'
    <3>1. CASE saveIncident(k)
      <4>1. k \in DOMAIN incidents'
        BY <3>1 DEF saveIncident
      <4>2. QED
        BY <4>1 DEF Known, Covers
    <3>2. CASE SaveFails(k)
      <4>1. <<k, n>> \in notSaved'
        BY <1>1, <3>2 DEF SaveFails
      <4>2. \A i : Covers(k, i) => Covers(<<k, n>>[1], i) /\ <<k, n>>[2] = n
        OBVIOUS
      <4>3. QED
        BY <4>1, <4>2 DEF Known, Covers
    <3>3. QED
      BY <1>8, <3>1, <3>2
  <2>3. \/ Over(n, "windows") \/ Over(n, "firewall")
        \/ \A i \in Found(n) : Known(n, i) \/ \E j \in unsaved : Covers(j, i)
    BY <1>1, <2>1 DEF Saving
  <2>4. \A i : (Known(n, i) \/ \E j \in unsaved : Covers(j, i)) => Known(n, i)' \/ \E j \in unsaved' : Covers(j, i)
    BY <1>3, <2>1, <2>2
  <2>5. QED
    BY <1>5, <2>1, <2>3, <2>4
<1>9. CASE QueryWindows \/ QueryFails \/ PassEnds \/ TickerFires
  BY <1>9 DEF QueryWindows, QueryFails, PassEnds, TickerFires, Saving
<1>10. QED
  BY <1>6, <1>7, <1>8, <1>9 DEF CorrelatorNext

LEMMA PassesReported ==
  ASSUME ReportedInv, CorrelatorNext
  PROVE  CoincidencesReported'
<1>1. CorrelatorTypes /\ Saving /\ \A n \in 0..now : (n = now /\ step # "waiting") \/ Reported(n)
  BY ReportedIsTheProperty DEF ReportedInv
<1>2. \A n \in 0..now : Reported(n) => Reported(n)'
  BY <1>1, ReportedStays
<1>3. \A n \in 0..now' : (n = now' /\ step' # "waiting") \/ Reported(n)'
  <2>1. CASE QueryFails
    <3>1. now' = now /\ now \in badPasses'
      BY <2>1 DEF QueryFails
    <3>2. PICK n \in 0..now : n = now
      BY <1>1 DEF CorrelatorTypes
    <3>3. Reported(n)'
      BY <3>1, <3>2 DEF Reported
    <3>4. QED
      BY <1>1, <1>2, <3>1, <3>2, <3>3
  <2>2. CASE PassEnds
    <3>1. now' = now /\ step = "save" /\ unsaved = {}
      BY <2>2 DEF PassEnds
    <3>2. PICK n \in 0..now : n = now
      BY <1>1 DEF CorrelatorTypes
    <3>3. Reported(n)
      BY <1>1, <3>1, <3>2 DEF Saving, Reported
    <3>4. QED
      BY <1>1, <1>2, <3>1, <3>2, <3>3
  <2>3. CASE TickerFires
    <3>1. now' = now + 1 /\ step = "waiting" /\ step' = "due" /\ now \in Nat
      BY <1>1, <2>3 DEF TickerFires, CorrelatorTypes
    <3>2. \A n \in 0..now' : n = now' \/ n \in 0..now
      BY <3>1
    <3>3. QED
      BY <1>1, <1>2, <3>1, <3>2
  <2>4. CASE \/ \E r \in coming, late \in (-MaxAhead)..MaxLate : InsertRow(r, late)
             \/ QueryWindows \/ QueryFirewall \/ \E i \in unsaved : saveIncident(i) \/ SaveFails(i)
    <3>1. now' = now /\ (step # "waiting" => step' # "waiting")
      BY <2>4 DEF InsertRow, QueryWindows, QueryFirewall, saveIncident, SaveFails
    <3>2. QED
      BY <1>1, <1>2, <3>1
  <2>5. QED
    BY <2>1, <2>2, <2>3, <2>4 DEF CorrelatorNext
<1>4. QED
  BY <1>3 DEF CoincidencesReported, Reported, Known, Covers

LEMMA ReportedStep ==
  ReportedInv /\ [CorrelatorNext]_correlatorVars => ReportedInv'
<1>1. ASSUME ReportedInv, CorrelatorNext PROVE ReportedInv'
  <2>1. CorrelatorTypes /\ Halfway /\ Saving
    BY <1>1 DEF ReportedInv
  <2>2. CorrelatorTypes' /\ Halfway' /\ Saving'
    BY <1>1, <2>1, CorrelatorTypesKept, HalfwayKept, SavingKept
  <2>3. CoincidencesReported'
    BY <1>1, PassesReported
  <2>4. QED
    BY <2>2, <2>3 DEF ReportedInv
<1>2. ASSUME ReportedInv, UNCHANGED correlatorVars PROVE ReportedInv'
  <2>1. /\ UNCHANGED <<useLLMPass, coming, table, now, step, winEvents>>
        /\ UNCHANGED <<unsaved, incidents, badPasses, notSaved>>
    BY <1>2 DEF correlatorVars
  <2>2. \A win, fw : Rules(win, fw)' = Rules(win, fw)
    BY <2>1, RulesRigid
  <2>3. \A n, source : Read(n, source)' = Read(n, source) /\ (Over(n, source)' <=> Over(n, source))
    BY <2>1 DEF Read, Over, Stored, Alerted
  <2>4. \A n, i : Known(n, i)' <=> Known(n, i)
    BY <2>1 DEF Known, Covers
  <2>5. CorrelatorTypes'
    BY <1>2, <2>1 DEF ReportedInv, CorrelatorTypes, InReach, Ahead, Alerted
  <2>6. PICK n : n = now
    OBVIOUS
  <2>7. n = now'
    BY <2>1, <2>6
  <2>8. Halfway'
    <3>1. step' = "firewall" => Over(n, "windows")' \/ Read(n, "windows")' \subseteq winEvents'
      BY <1>2, <2>1, <2>3, <2>6 DEF ReportedInv, Halfway
    <3>2. QED
      BY <2>7, <3>1 DEF Halfway
  <2>9. \A m : Rules(Read(m, "windows"), Read(m, "firewall"))' = Rules(Read(m, "windows"), Read(m, "firewall"))
    BY <2>2, <2>3
  <2>10. Saving'
    <3>1. step' = "save" =>
            \/ Over(n, "windows")' \/ Over(n, "firewall")'
            \/ \A i \in Rules(Read(n, "windows"), Read(n, "firewall"))' :
                 Known(n, i)' \/ \E j \in unsaved' : Covers(j, i)
      BY <1>2, <2>1, <2>3, <2>4, <2>6, <2>9 DEF ReportedInv, Saving
    <3>2. QED
      BY <2>7, <3>1 DEF Saving, Covers
  <2>11. \A m : Reported(m)' <=> Reported(m)
    BY <2>1, <2>3, <2>4, <2>9 DEF Reported
  <2>12. CoincidencesReported'
    <3>1. \A m \in 0..now' : (m = now' /\ step' # "waiting") \/ Reported(m)'
      BY <1>2, <2>1, <2>11, ReportedIsTheProperty DEF ReportedInv
    <3>2. QED
      BY <3>1 DEF CoincidencesReported, Reported, Known, Covers
  <2>13. QED
    BY <2>5, <2>8, <2>10, <2>12 DEF ReportedInv
<1>3. QED
  BY <1>1, <1>2

\* A coincidence that was in the tables before a pass of internal/correlator, and in its
\* window, is an incident after it - unless a query of the pass failed, this INSERT
\* failed, or there were more alerts than the queries read.
THEOREM PassesMissNothing == CorrelatorSpec => []CoincidencesReported
<1>1. ReportedInv => CoincidencesReported
  BY DEF ReportedInv
<1>2. QED
  BY <1>1, ReportedStart, ReportedStep, PTL DEF CorrelatorSpec

----------------------------------------------------------------------------
(* The correlator over llm_pass_1 *)

\* Without the action column neither an allowed nor a denied row exists, and each rule
\* asks for one.
LEMMA NoRuleOverTheLLMPass ==
  ASSUME useLLMPass, NEW win, NEW fw
  PROVE  Rules(win, fw) = {}
<1>1. \A t : ~ Allowed(t) /\ ~ Denied(t)
  BY DEF Allowed, Denied, Action
<1>2. ruleC2BeaconConfirmed(win, fw) = {}
  BY <1>1 DEF ruleC2BeaconConfirmed
<1>3. ruleBruteForceWithFirewall(win, fw) = {}
  <2> DEFINE Fails(ip) == {t \in win : t.row.event.id = "4625" /\ t.row.src = ip}
             First(s) == CHOOSE t \in s : \A u \in s : t.ts <= u.ts
             Blocks(ip) == {t \in fw : /\ t.row.src = ip /\ t.row.flow.port = "lateral" /\ Denied(t)
                                       /\ inWindow(First(Fails(ip)), t)}
             Sources == {t.row.src : t \in win} \ {NoAddress}
  <2>1. \A ip : Blocks(ip) = {}
    BY <1>1
  <2> HIDE DEF Blocks
  <2>2. {Incident("BRUTE_FORCE_CONFIRMED", Fails(ip) \cup Blocks(ip)) : ip \in
           {k \in Sources : Cardinality(Fails(k)) >= FailThreshold /\ Blocks(k) # {}}} = {}
    BY <2>1
  <2>3. QED
    BY <2>2 DEF ruleBruteForceWithFirewall, Blocks
<1>4. ruleCredDumpToExfil(win, fw) = {}
  BY <1>1 DEF ruleCredDumpToExfil
<1>5. ruleLateralMovementConfirmed(win, fw) = {}
  BY <1>1 DEF ruleLateralMovementConfirmed
<1>6. ruleFirewallDenyThenSuccess(win, fw) = {}
  BY <1>1 DEF ruleFirewallDenyThenSuccess
<1>7. QED
  BY <1>2, <1>3, <1>4, <1>5, <1>6 DEF Rules

\* With USE_LLM_PASS the correlator of internal/correlator never writes an incident,
\* whatever the rows: the first part of NeverLinked, for every scenario.
NothingFromTheLLMPass == useLLMPass => unsaved = {} /\ DOMAIN incidents = {}

THEOREM LLMPassLinksNothing == CorrelatorSpec => []NothingFromTheLLMPass
<1>1. CorrelatorInit => NothingFromTheLLMPass
  BY DEF CorrelatorInit, NothingFromTheLLMPass
<1>2. NothingFromTheLLMPass /\ [CorrelatorNext]_correlatorVars => NothingFromTheLLMPass'
  <2>1. ASSUME NothingFromTheLLMPass, QueryFirewall PROVE NothingFromTheLLMPass'
    <3>1. PICK fwEvents : unsaved' = Rules(winEvents, fwEvents)
      BY <2>1 DEF QueryFirewall
    <3>2. useLLMPass' = useLLMPass /\ incidents' = incidents
      BY <2>1 DEF QueryFirewall
    <3>3. QED
      BY <2>1, <3>1, <3>2, NoRuleOverTheLLMPass DEF NothingFromTheLLMPass
  <2>2. ASSUME NothingFromTheLLMPass, NEW i \in unsaved, saveIncident(i) \/ SaveFails(i)
        PROVE  NothingFromTheLLMPass'
    BY <2>2 DEF saveIncident, SaveFails, NothingFromTheLLMPass
  <2>3. ASSUME NothingFromTheLLMPass, UNCHANGED <<useLLMPass, unsaved, incidents>> PROVE NothingFromTheLLMPass'
    BY <2>3 DEF NothingFromTheLLMPass
  <2>4. QED
    BY <2>1, <2>2, <2>3 DEF CorrelatorNext, InsertRow, QueryWindows, QueryFails, PassEnds, TickerFires, correlatorVars
<1>3. QED
  BY <1>1, <1>2, PTL DEF CorrelatorSpec

----------------------------------------------------------------------------
(* The detectors: the events that show a credential dump *)

CredentialDump == {"T1003", "T1003.001"}
NoDump(list) == DOMAIN list \subseteq Nat /\ \A n \in DOMAIN list : list[n].technique \notin CredentialDump

\* No function outside of the Sysmon events 1, 7 and 10 has a rule for one.
LEMMA FewFunctionsShowDumps ==
  /\ NoDump(detectNetworkConnection) /\ NoDump(detectRemoteThread) /\ NoDump(detectFileCreate)
  /\ NoDump(CollectionFromFile) /\ NoDump(detectRegistryEvent) /\ NoDump(detectPipeEvent)
  /\ NoDump(detectDNSQuery) /\ NoDump(detectCommandAndControlAdditional)
  /\ NoDump(detectFileDelete) /\ NoDump(detectImpactAdditional)
  /\ NoDump(detectLogonSuccess) /\ NoDump(detectLogonFailure) /\ NoDump(detectExplicitCredentials)
  /\ NoDump(detectPrivilegeAssignment) /\ NoDump(detectSecurityProcessCreation)
  /\ NoDump(detectServiceInstall) /\ NoDump(detectScheduledTaskCreation) /\ NoDump(detectUserCreation)
  /\ NoDump(detectGroupMembership) /\ NoDump(detectKerberosTGT) /\ NoDump(detectKerberosServiceTicket)
  /\ NoDump(detectNTLMAuth) /\ NoDump(detectRDPSession) /\ NoDump(detectShareAccess)
  /\ NoDump(detectSystemServiceInstall) /\ NoDump(detectServiceStateChange) /\ NoDump(detectLogCleared)
<1> USE DEF NoDump, CredentialDump, Rule
<1>1. /\ NoDump(detectNetworkConnection) /\ NoDump(detectRemoteThread) /\ NoDump(detectFileCreate)
      /\ NoDump(detectFileDelete) /\ NoDump(detectPipeEvent) /\ NoDump(detectDNSQuery)
  BY DEF detectNetworkConnection, detectRemoteThread, detectFileCreate, detectFileDelete, detectPipeEvent,
         detectDNSQuery
<1>2. NoDump(CollectionFromFile) /\ NoDump(detectRegistryEvent)
  BY DEF CollectionFromFile, detectRegistryEvent
<1>3. NoDump(detectCommandAndControlAdditional)
  BY DEF detectCommandAndControlAdditional
<1>4. NoDump(detectImpactAdditional)
  BY DEF detectImpactAdditional
<1>5. /\ NoDump(detectLogonSuccess) /\ NoDump(detectLogonFailure) /\ NoDump(detectExplicitCredentials)
      /\ NoDump(detectPrivilegeAssignment) /\ NoDump(detectSecurityProcessCreation)
      /\ NoDump(detectServiceInstall) /\ NoDump(detectScheduledTaskCreation) /\ NoDump(detectUserCreation)
  BY DEF detectLogonSuccess, detectLogonFailure, detectExplicitCredentials, detectPrivilegeAssignment,
         detectSecurityProcessCreation, detectServiceInstall,
         detectScheduledTaskCreation, detectUserCreation
<1>6. /\ NoDump(detectGroupMembership) /\ NoDump(detectKerberosTGT) /\ NoDump(detectKerberosServiceTicket)
      /\ NoDump(detectNTLMAuth) /\ NoDump(detectRDPSession) /\ NoDump(detectShareAccess)
      /\ NoDump(detectSystemServiceInstall) /\ NoDump(detectServiceStateChange) /\ NoDump(detectLogCleared)
  BY DEF detectGroupMembership, detectKerberosTGT, detectKerberosServiceTicket, detectNTLMAuth,
         detectRDPSession, detectShareAccess, detectSystemServiceInstall,
         detectServiceStateChange, detectLogCleared
<1>7. QED
  BY <1>1, <1>2, <1>3, <1>4, <1>5, <1>6

\* Detect finds a credential dump in no event but the Sysmon events 1, 7 and 10.
LEMMA DumpsAreSysmonEvents ==
  ASSUME NEW e, DetectEvent(e).technique \in CredentialDump
  PROVE  e.source = "sysmon" /\ e.id \in {"1", "7", "10"}
<1>1. SUFFICES ASSUME ~ (e.source = "sysmon" /\ e.id \in {"1", "7", "10"}) PROVE FALSE
  OBVIOUS
<1>2. PICK chain : chain = Chain(e)
  OBVIOUS
<1>3. DOMAIN chain \subseteq Nat /\ \A i \in DOMAIN chain : NoDump(chain[i])
  <2>1. CASE e.source = "sysmon"
    <3>1. chain = SysmonChain(e.id)
      BY <1>2, <2>1 DEF Chain
    <3>2. e.id \notin {"1", "7", "10"}
      BY <1>1, <2>1
    <3>3. QED
      BY <3>1, <3>2, FewFunctionsShowDumps DEF SysmonChain
  <2>2. CASE e.source = "security"
    <3>1. chain = SecurityChain(e.id)
      BY <1>2, <2>2 DEF Chain
    <3>2. QED
      BY <3>1, FewFunctionsShowDumps DEF SecurityChain
  <2>3. CASE e.source = "system"
    <3>1. chain = SystemChain(e.id)
      BY <1>2, <2>3 DEF Chain
    <3>2. QED
      BY <3>1, FewFunctionsShowDumps DEF SystemChain
  <2>4. CASE e.source \notin {"sysmon", "security", "system"}
    BY <1>2, <2>4 DEF Chain
  <2>5. QED
    BY <2>1, <2>2, <2>3, <2>4
<1>4. Nothing.technique \notin CredentialDump
  <2>1. Nothing.technique = NoTechnique
    BY DEF Nothing, Rule
  <2>2. NoTechnique \notin CredentialDump
    BY DEF NoTechnique, CredentialDump
  <2>3. QED
    BY <2>1, <2>2
<1>5. PICK i \in DOMAIN chain : DetectEvent(e) = FirstRule(chain[i], e)
  BY <1>2, <1>3, <1>4, DetectEventDecides
<1>6. PICK n \in DOMAIN chain[i] : DetectEvent(e) = chain[i][n]
  BY <1>3, <1>4, <1>5, FirstRuleApplies DEF NoDump
<1>7. QED
  BY <1>3, <1>6 DEF NoDump

----------------------------------------------------------------------------
(* The correlator: what its rules never say *)

\* A network logon is INFO: the rule for a remote desktop does not apply to it.
LEMMA NetworkLogonIsInfo ==
  ASSUME NEW e, e.source = "security", e.id = "4624",
         "logon_type_3" \in e.signs, "logon_type_10" \notin e.signs
  PROVE  DetectEvent(e).severity = "INFO"
<1>1. PICK list : list = detectLogonSuccess
  OBVIOUS
<1>2. /\ DOMAIN list = {1, 2}
      /\ list[1] = Rule("LOW", "T1021.001", {"logon_type_10"})
      /\ list[2] = Rule("INFO", "T1021.002", {"logon_type_3"})
  BY <1>1 DEF detectLogonSuccess
<1>3. Chain(e) = <<list>>
  BY <1>1 DEF Chain, SecurityChain
<1>4. DOMAIN Chain(e) = {1} /\ Chain(e)[1] = list
  BY <1>3
<1>5. ~ Applies(list[1], e)
  BY <1>2 DEF Applies, Rule
<1>6. Nothing.severity = "INFO" /\ list[2].severity = "INFO"
  BY <1>2 DEF Nothing, Rule
<1>7. FirstRule(list, e).severity = "INFO"
  <2>1. FirstRule(list, e) = Nothing \/ \E n \in {1, 2} : FirstRule(list, e) = list[n] /\ Applies(list[n], e)
    BY <1>2, FirstRuleApplies
  <2>2. QED
    BY <1>5, <1>6, <2>1
<1>8. DetectEvent(e) = Nothing \/ DetectEvent(e) = FirstRule(list, e)
  BY <1>4, DetectEventDecides
<1>9. QED
  BY <1>6, <1>7, <1>8

\* Of the alerted rows no logon is a network logon, and no credential dump has an address.
LEMMA AlertedRows ==
  ASSUME ~ useLLMPass, NEW r, r.source = "windows", FromAgent(r), Alerted(r)
  PROVE  /\ r.event.id = "4624" => "logon_type_3" \notin r.event.signs
         /\ Technique(r) \in CredentialDump => r.src = NoAddress
<1>1. ASSUME r.event.id = "4624", "logon_type_3" \in r.event.signs PROVE FALSE
  <2>1. r.event.source = "security"
    BY <1>1 DEF FromAgent, LogSource, SysmonID, SecurityID
  <2>2. "logon_type_10" \notin r.event.signs
    BY <1>1 DEF FromAgent
  <2>3. DetectEvent(r.event).severity = "INFO"
    BY <1>1, <2>1, <2>2, NetworkLogonIsInfo
  <2>4. QED
    BY <2>3 DEF Alerted, Severity
<1>2. ASSUME Technique(r) \in CredentialDump PROVE r.src = NoAddress
  <2>1. DetectEvent(r.event).technique \in CredentialDump
    BY <1>2 DEF Technique
  <2>2. r.event.source = "sysmon" /\ r.event.id \in {"1", "7", "10"}
    BY <2>1, DumpsAreSysmonEvents
  <2>3. QED
    BY <2>2 DEF FromAgent
<1>3. QED
  BY <1>1, <1>2

\* An incident cites rows its pass has read and nothing else; one rule speaks of a
\* credential dump.
LEMMA EvidenceIsRead ==
  ASSUME NEW win, NEW fw, NEW i \in Rules(win, fw)
  PROVE  /\ i.evidence \subseteq win \cup fw
         /\ i \notin ruleCredDumpToExfil(win, fw) => i.type # "CRED_DUMP_THEN_EXFIL"
<1>1. CASE i \in ruleC2BeaconConfirmed(win, fw)
  BY <1>1 DEF ruleC2BeaconConfirmed, Incident
<1>2. CASE i \in ruleBruteForceWithFirewall(win, fw)
  <2> DEFINE Fails(ip) == {t \in win : t.row.event.id = "4625" /\ t.row.src = ip}
             First(s) == CHOOSE t \in s : \A u \in s : t.ts <= u.ts
             Blocks(ip) == {t \in fw : /\ t.row.src = ip /\ t.row.flow.port = "lateral" /\ Denied(t)
                                       /\ inWindow(First(Fails(ip)), t)}
  <2>1. PICK ip : i = Incident("BRUTE_FORCE_CONFIRMED", Fails(ip) \cup Blocks(ip))
    BY <1>2 DEF ruleBruteForceWithFirewall
  <2>2. Fails(ip) \subseteq win /\ Blocks(ip) \subseteq fw
    OBVIOUS
  <2> HIDE DEF Fails, Blocks
  <2>3. QED
    BY <2>1, <2>2 DEF Incident
<1>3. CASE i \in ruleCredDumpToExfil(win, fw)
  BY <1>3 DEF ruleCredDumpToExfil, Incident
<1>4. CASE i \in ruleLateralMovementConfirmed(win, fw)
  BY <1>4 DEF ruleLateralMovementConfirmed, Incident
<1>5. CASE i \in ruleFirewallDenyThenSuccess(win, fw)
  BY <1>5 DEF ruleFirewallDenyThenSuccess, Incident
<1>6. QED
  BY <1>1, <1>2, <1>3, <1>4, <1>5 DEF Rules

\* What the rules can never say, whatever the rows, although src/README.md:365-375 lists
\* it: a credential dump is never linked with an exfiltration, since no Sysmon event
\* that shows one carries a source address; a logon of type 3 is INFO and never read;
\* and in LLM mode no rule fires.
NeverLinked ==
  \A i \in DOMAIN incidents :
    /\ ~useLLMPass
    /\ i.type # "CRED_DUMP_THEN_EXFIL"
    /\ \A t \in Of(i, "windows") : t.row.event.id = "4624" => "logon_type_3" \notin t.row.event.signs

\* What NeverLinked says of one incident.
Unlinked(i) ==
  /\ i.type # "CRED_DUMP_THEN_EXFIL"
  /\ \A t \in Of(i, "windows") : t.row.event.id = "4624" => "logon_type_3" \notin t.row.event.signs

LEMMA RulesNeverLink ==
  ASSUME ~ useLLMPass, NEW win, NEW fw,
         \A t \in win : t.row.source = "windows" /\ FromAgent(t.row) /\ Alerted(t.row),
         \A t \in fw : t.row.source = "firewall"
  PROVE  \A i \in Rules(win, fw) : Unlinked(i)
<1>1. ASSUME NEW i \in Rules(win, fw) PROVE Unlinked(i)
  <2>1. \A t \in Of(i, "windows") : t \in win
    BY EvidenceIsRead DEF Of
  <2>2. \A t \in Of(i, "windows") : t.row.event.id = "4624" => "logon_type_3" \notin t.row.event.signs
    BY <2>1, AlertedRows
  <2>3. ruleCredDumpToExfil(win, fw) = {}
    <3>1. \A p \in win \X fw : Technique(p[1].row) \in CredentialDump => p[1].row.src = NoAddress
      BY AlertedRows
    <3>2. QED
      BY <3>1 DEF ruleCredDumpToExfil, CredentialDump
  <2>4. i.type # "CRED_DUMP_THEN_EXFIL"
    BY <2>3, EvidenceIsRead
  <2>5. QED
    BY <2>2, <2>4 DEF Unlinked
<1>2. QED
  BY <1>1

\* The rows that may be read came from the agent; what is and will be saved links no
\* dump and no network logon, and over llm_pass_1 there is nothing to save.
NeverLinkedInv ==
  /\ coming \subseteq UNION Scenarios
  /\ \A t \in table : t.row.source = "windows" => FromAgent(t.row)
  /\ \A t \in winEvents : t.row.source = "windows" /\ FromAgent(t.row) /\ Alerted(t.row)
  /\ \A i \in unsaved \cup DOMAIN incidents : ~ useLLMPass /\ Unlinked(i)

\* What a query returns is alerted, of its table, and came from the agent.
LEMMA QueriedRows ==
  ASSUME NeverLinkedInv, NEW source, NEW seen \in Oldest(Stored(table, source, since))
  PROVE  \A t \in seen : /\ t.row.source = source /\ Alerted(t.row)
                         /\ source = "windows" => FromAgent(t.row)
<1>1. seen \subseteq Stored(table, source, since)
  BY QueryReads
<1>2. QED
  BY <1>1 DEF Stored, NeverLinkedInv

LEMMA NeverLinkedStep == NeverLinkedInv /\ [CorrelatorNext]_correlatorVars => NeverLinkedInv'
<1> SUFFICES ASSUME NeverLinkedInv, [CorrelatorNext]_correlatorVars PROVE NeverLinkedInv'
  OBVIOUS
<1>1. UNCHANGED useLLMPass
  BY DEF CorrelatorNext, InsertRow, QueryWindows, QueryFirewall, QueryFails, saveIncident, SaveFails, PassEnds,
         TickerFires, correlatorVars
<1>2. (\A r : Alerted(r)' <=> Alerted(r)) /\ (\A i : Unlinked(i)' <=> Unlinked(i))
  BY <1>1 DEF Alerted, Unlinked, Of
<1>3. CASE QueryWindows
  <2>1. PICK seen \in Oldest(Stored(table, "windows", since)) : winEvents' = seen
    BY <1>3 DEF QueryWindows
  <2>2. \A t \in seen : t.row.source = "windows" /\ FromAgent(t.row) /\ Alerted(t.row)
    BY QueriedRows
  <2>3. UNCHANGED <<coming, table, unsaved, incidents>>
    BY <1>3 DEF QueryWindows
  <2>4. QED
    BY <1>1, <1>2, <2>1, <2>2, <2>3 DEF NeverLinkedInv
<1>4. CASE QueryFirewall
  <2>1. PICK seen \in Oldest(Stored(table, "firewall", since)) : unsaved' = Rules(winEvents, seen)
    BY <1>4 DEF QueryFirewall
  <2>2. \A t \in seen : t.row.source = "firewall"
    BY QueriedRows
  <2>3. useLLMPass => unsaved' = {}
    BY <2>1, NoRuleOverTheLLMPass
  <2>4. ~ useLLMPass => \A i \in unsaved' : Unlinked(i)
    BY <2>1, <2>2, RulesNeverLink DEF NeverLinkedInv
  <2>5. UNCHANGED <<coming, table, incidents>> /\ winEvents' = {}
    BY <1>4 DEF QueryFirewall
  <2>6. QED
    BY <1>1, <1>2, <2>3, <2>4, <2>5 DEF NeverLinkedInv
<1>5. ASSUME NEW r \in coming, NEW late \in (-MaxAhead)..MaxLate, InsertRow(r, late) PROVE NeverLinkedInv'
  <2>1. r.source = "windows" => FromAgent(r)
    BY RowsAssumption DEF NeverLinkedInv
  <2>2. \A t \in table' : t.row.source = "windows" => FromAgent(t.row)
    BY <1>5, <2>1 DEF InsertRow, NeverLinkedInv
  <2>3. coming' \subseteq coming /\ UNCHANGED <<winEvents, unsaved, incidents>>
    BY <1>5 DEF InsertRow
  <2>4. QED
    BY <1>1, <1>2, <2>2, <2>3 DEF NeverLinkedInv
<1>6. ASSUME NEW i \in unsaved, saveIncident(i) \/ SaveFails(i) PROVE NeverLinkedInv'
  <2>1. DOMAIN incidents' \subseteq DOMAIN incidents \cup {i} /\ unsaved' \subseteq unsaved
    BY <1>6 DEF saveIncident, SaveFails
  <2>2. UNCHANGED <<coming, table, winEvents>>
    BY <1>6 DEF saveIncident, SaveFails
  <2>3. QED
    BY <1>1, <1>2, <2>1, <2>2 DEF NeverLinkedInv
<1>7. CASE QueryFails \/ PassEnds \/ TickerFires \/ UNCHANGED correlatorVars
  <2>1. UNCHANGED <<coming, table, unsaved, incidents>> /\ winEvents' \subseteq winEvents
    BY <1>7 DEF QueryFails, PassEnds, TickerFires, correlatorVars
  <2>2. QED
    BY <1>1, <1>2, <2>1 DEF NeverLinkedInv
<1>8. QED
  BY <1>3, <1>4, <1>5, <1>6, <1>7 DEF CorrelatorNext

\* The correlator never links a credential dump with an exfiltration, never cites a
\* logon of type 3, and over llm_pass_1 links nothing, whatever rows the agent and the
\* firewalls send (internal/correlator/rules.go against src/README.md:365-375).
THEOREM SomeIsNeverLinked == CorrelatorSpec => []NeverLinked
<1>1. CorrelatorInit => NeverLinkedInv
  BY DEF CorrelatorInit, NeverLinkedInv
<1>2. NeverLinkedInv => NeverLinked
  BY DEF NeverLinkedInv, NeverLinked, Unlinked
<1>3. QED
  BY <1>1, <1>2, NeverLinkedStep, PTL DEF CorrelatorSpec

----------------------------------------------------------------------------
(* The process trees: one tree *)

ChainSpec == ChainInit /\ [][ChainNext]_chainVars

Node == [last_seen : Nat, up : Seq(Guid), down : Seq(Guid)]

\* What is read of a tree: whom a node names on each side, none when there is no node.
Down(tree, x) == IF x \in DOMAIN tree THEN Range(tree[x].down) ELSE {}
Up(tree, x) == IF x \in DOMAIN tree THEN Range(tree[x].up) ELSE {}

\* The nodes have GUIDs, and name nobody twice.
Typed(tree) ==
  /\ DOMAIN tree \subseteq Guid \ {NoGuid}
  /\ \A x \in DOMAIN tree : tree[x] \in Node /\ IsInjective(tree[x].up) /\ IsInjective(tree[x].down)

\* appendUnique appends what is new and not empty.
LEMMA UniqueAppended ==
  ASSUME NEW T, NEW items \in Seq(T), IsInjective(items), NEW v \in T \cup {NoGuid}
  PROVE  /\ appendUnique(items, v) \in Seq(T)
         /\ IsInjective(appendUnique(items, v))
         /\ Range(appendUnique(items, v)) = Range(items) \cup ({v} \ {NoGuid})
<1>1. CASE v = NoGuid \/ v \in Range(items)
  BY <1>1 DEF appendUnique
<1>2. CASE v # NoGuid /\ v \notin Range(items)
  <2>1. PICK longer : longer = Append(items, v)
    OBVIOUS
  <2>2. PICK n : n = Len(items)
    OBVIOUS
  <2>3. n \in Nat /\ v \in T /\ DOMAIN items = 1..n
    BY <1>2, <2>2
  <2>4. longer \in Seq(T) /\ Len(longer) = n + 1 /\ longer[n + 1] = v
    BY <2>1, <2>2, <2>3
  <2>5. DOMAIN longer = 1..n + 1
    BY <2>4
  <2>6. \A k \in 1..n : longer[k] = items[k]
    BY <2>1, <2>2, <2>3
  <2>7. \A k \in 1..n : items[k] # v
    BY <1>2, <2>3 DEF Range
  <2>8. /\ n + 1 \in 1..n + 1
        /\ \A k \in 1..n : k \in 1..n + 1
        /\ \A k \in 1..n + 1 : k \in 1..n \/ k = n + 1
    BY <2>3
  <2>9. ASSUME NEW a \in 1..n + 1, NEW b \in 1..n + 1, longer[a] = longer[b]
        PROVE  a = b
    <3>1. (a \in 1..n \/ a = n + 1) /\ (b \in 1..n \/ b = n + 1)
      BY <2>8
    <3>2. CASE a \in 1..n /\ b \in 1..n
      BY <2>3, <2>6, <2>9, <3>2 DEF IsInjective
    <3>3. CASE a = n + 1 /\ b \in 1..n
      BY <2>4, <2>6, <2>7, <2>9, <3>3
    <3>4. CASE b = n + 1 /\ a \in 1..n
      BY <2>4, <2>6, <2>7, <2>9, <3>4
    <3>5. QED
      BY <3>1, <3>2, <3>3, <3>4
  <2>10. IsInjective(longer)
    BY <2>5, <2>9 DEF IsInjective
  <2>11. Range(longer) = Range(items) \cup {v}
    BY <2>3, <2>4, <2>5, <2>6, <2>8 DEF Range
  <2>12. appendUnique(items, v) = longer /\ {v} \ {NoGuid} = {v}
    BY <1>2, <2>1 DEF appendUnique
  <2>13. QED
    BY <2>4, <2>10, <2>11, <2>12
<1>3. QED
  BY <1>1, <1>2

\* No node was seen after a time.
SeenBy(tree, time) == \A x \in DOMAIN tree : tree[x].last_seen <= time

\* The node of a GUID is made or updated, and its node only: it is seen now, and the
\* other one stands on the side that is named.
Updated(tree, new, g, time, side, other) ==
  /\ Typed(new) /\ DOMAIN new = DOMAIN tree \cup {g}
  /\ \A x \in DOMAIN tree : x # g => new[x] = tree[x]
  /\ new[g].last_seen = time
  /\ Down(new, g) = Down(tree, g) \cup (IF side = "down" THEN {other} \ {NoGuid} ELSE {})
  /\ Up(new, g) = Up(tree, g) \cup (IF side = "up" THEN {other} \ {NoGuid} ELSE {})

\* The same for a GUID that may be missing, in the words the edges are counted in: who
\* names whom below and above, and when who was last seen.
GrownBy(tree, new, g, time, side, other) ==
  /\ Typed(new) /\ SeenBy(new, time)
  /\ \A x : x \in DOMAIN new <=> x \in DOMAIN tree \/ (x = g /\ g # NoGuid)
  /\ \A x \in DOMAIN new : new[x].last_seen = IF x = g THEN time ELSE tree[x].last_seen
  /\ \A x, o : o \in Down(new, x) <=>
       o \in Down(tree, x) \/ (side = "down" /\ x = g /\ o = other /\ g # NoGuid /\ other # NoGuid)
  /\ \A x, o : o \in Up(new, x) <=>
       o \in Up(tree, x) \/ (side = "up" /\ x = g /\ o = other /\ g # NoGuid /\ other # NoGuid)

\* Mentioning a GUID updates its node.
LEMMA Mentioned ==
  ASSUME NEW tree, Typed(tree), NEW g \in Guid, g # NoGuid,
         NEW time \in Nat, SeenBy(tree, time),
         NEW other \in Guid \cup {NoGuid},
         NEW side \in {"up", "down"}
  PROVE  Updated(tree, Mention(tree, g, time, side, other), g, time, side, other)
<1>0. PICK new : new = Mention(tree, g, time, side, other)
  OBVIOUS
<1> DEFINE node == IF g \in DOMAIN tree THEN tree[g] ELSE [last_seen |-> time, up |-> <<>>, down |-> <<>>]
           seen == IF time > node.last_seen THEN [node EXCEPT !.last_seen = time] ELSE node
           after == [seen EXCEPT ![side] = appendUnique(@, other)]
<1>1. new = [x \in DOMAIN tree \cup {g} |-> IF x = g THEN after ELSE tree[x]]
  BY <1>0 DEF Mention
<1>2. /\ node \in Node /\ IsInjective(node.up) /\ IsInjective(node.down)
      /\ node.last_seen <= time
      /\ Range(node.up) = Up(tree, g) /\ Range(node.down) = Down(tree, g)
  <2>1. CASE g \in DOMAIN tree
    BY <2>1 DEF Typed, SeenBy, Up, Down
  <2>2. CASE g \notin DOMAIN tree
    <3>1. node = [last_seen |-> time, up |-> <<>>, down |-> <<>>]
      BY <2>2
    <3>a. PICK none : none = <<>>
      OBVIOUS
    <3>b. none \in Seq(Guid) /\ DOMAIN none = {}
      BY <3>a
    <3>c. none \in Seq(Guid) /\ IsInjective(none) /\ Range(none) = {}
      BY <3>b DEF IsInjective, Range
    <3>2. <<>> \in Seq(Guid) /\ IsInjective(<<>>) /\ Range(<<>>) = {}
      BY <3>a, <3>c
    <3> HIDE DEF node
    <3>3. node \in Node /\ node.up = <<>> /\ node.down = <<>> /\ node.last_seen = time /\ time <= time
      BY <3>1, <3>2 DEF Node
    <3>4. QED
      BY <2>2, <3>2, <3>3 DEF Up, Down
  <2>3. QED
    BY <2>1, <2>2
<1> HIDE DEF node
<1>3. seen \in Node /\ seen.up = node.up /\ seen.down = node.down /\ seen.last_seen = time
  <2>1. PICK t : t = node.last_seen
    OBVIOUS
  <2>2. t \in Nat /\ t <= time
    BY <1>2, <2>1 DEF Node
  <2>3. CASE time > t
    <3>1. seen = [node EXCEPT !.last_seen = time]
      BY <2>1, <2>3
    <3> HIDE DEF seen
    <3>2. QED
      BY <1>2, <3>1 DEF Node
  <2>4. CASE ~ (time > t)
    <3>1. seen = node /\ t = time
      BY <2>1, <2>2, <2>4
    <3> HIDE DEF seen
    <3>2. QED
      BY <1>2, <2>1, <3>1
  <2>5. QED
    BY <2>3, <2>4
<1> HIDE DEF seen
<1>4. seen.up \in Seq(Guid) /\ seen.down \in Seq(Guid) /\ seen.last_seen \in Nat
  BY <1>3 DEF Node
<1>5. /\ after \in Node /\ after.last_seen = seen.last_seen
      /\ IsInjective(after.up) /\ IsInjective(after.down)
      /\ Range(after.up) = Range(seen.up) \cup (IF side = "up" THEN {other} \ {NoGuid} ELSE {})
      /\ Range(after.down) = Range(seen.down) \cup (IF side = "down" THEN {other} \ {NoGuid} ELSE {})
  <2>1. CASE side = "up"
    <3>1. PICK list : list = appendUnique(seen.up, other)
      OBVIOUS
    <3>2. /\ list \in Seq(Guid) /\ IsInjective(list)
          /\ Range(list) = Range(seen.up) \cup ({other} \ {NoGuid})
      <4>1. seen.up \in Seq(Guid) /\ IsInjective(seen.up)
        BY <1>2, <1>3, <1>4
      <4>2. QED
        BY <3>1, <4>1, UniqueAppended
    <3>3. after = [seen EXCEPT !.up = list]
      BY <2>1, <3>1
    <3> HIDE DEF after
    <3>4. after \in Node /\ after.up = list /\ after.down = seen.down /\ after.last_seen = seen.last_seen
      BY <1>3, <3>2, <3>3 DEF Node
    <3>5. QED
      BY <1>2, <1>3, <2>1, <3>2, <3>4
  <2>2. CASE side = "down"
    <3>1. PICK list : list = appendUnique(seen.down, other)
      OBVIOUS
    <3>2. /\ list \in Seq(Guid) /\ IsInjective(list)
          /\ Range(list) = Range(seen.down) \cup ({other} \ {NoGuid})
      <4>1. seen.down \in Seq(Guid) /\ IsInjective(seen.down)
        BY <1>2, <1>3, <1>4
      <4>2. QED
        BY <3>1, <4>1, UniqueAppended
    <3>3. after = [seen EXCEPT !.down = list]
      BY <2>2, <3>1
    <3> HIDE DEF after
    <3>4. after \in Node /\ after.up = seen.up /\ after.down = list /\ after.last_seen = seen.last_seen
      BY <1>3, <3>2, <3>3 DEF Node
    <3>5. QED
      BY <1>2, <1>3, <2>2, <3>2, <3>4
  <2>3. QED
    BY <2>1, <2>2
<1> HIDE DEF after
<1>6. /\ DOMAIN new = DOMAIN tree \cup {g} /\ new[g] = after
      /\ \A x \in DOMAIN tree : x # g => new[x] = tree[x]
  BY <1>1
<1>7. Typed(new)
  <2>1. DOMAIN new \subseteq Guid \ {NoGuid}
    BY <1>6 DEF Typed
  <2>2. ASSUME NEW x \in DOMAIN new
        PROVE  new[x] \in Node /\ IsInjective(new[x].up) /\ IsInjective(new[x].down)
    <3>1. CASE x = g
      BY <1>5, <1>6, <3>1
    <3>2. CASE x # g
      BY <1>6, <3>2 DEF Typed
    <3>3. QED
      BY <3>1, <3>2
  <2>3. QED
    BY <2>1, <2>2 DEF Typed
<1>8. Down(new, g) = Range(after.down) /\ Up(new, g) = Range(after.up)
  BY <1>6 DEF Down, Up
<1>9. QED
  BY <1>0, <1>2, <1>3, <1>5, <1>6, <1>7, <1>8 DEF Updated

\* Mentioning a GUID that may be missing grows the tree by what it names.
LEMMA Grown ==
  ASSUME NEW tree, Typed(tree), NEW g \in Guid \cup {NoGuid}, NEW time \in Nat, SeenBy(tree, time),
         NEW other \in Guid \cup {NoGuid}, NEW side \in {"up", "down"}
  PROVE  GrownBy(tree, Mention(tree, g, time, side, other), g, time, side, other)
<1>0. PICK new : new = Mention(tree, g, time, side, other)
  OBVIOUS
<1>1. CASE g = NoGuid
  <2>1. new = tree
    BY <1>0, <1>1 DEF Mention
  <2>2. g \notin DOMAIN tree
    BY <1>1 DEF Typed
  <2>3. QED
    BY <1>0, <1>1, <2>1, <2>2 DEF GrownBy
<1>2. CASE g # NoGuid
  <2>1. /\ Typed(new) /\ DOMAIN new = DOMAIN tree \cup {g}
        /\ \A x \in DOMAIN tree : x # g => new[x] = tree[x]
        /\ new[g].last_seen = time
        /\ Down(new, g) = Down(tree, g) \cup (IF side = "down" THEN {other} \ {NoGuid} ELSE {})
        /\ Up(new, g) = Up(tree, g) \cup (IF side = "up" THEN {other} \ {NoGuid} ELSE {})
    <3>1. g \in Guid
      BY <1>2
    <3>2. Updated(tree, new, g, time, side, other)
      BY <1>0, <1>2, <3>1, Mentioned
    <3>3. QED
      BY <3>2 DEF Updated
  <2>2. ASSUME NEW x, x # g
        PROVE  Down(new, x) = Down(tree, x) /\ Up(new, x) = Up(tree, x)
    <3>1. x \in DOMAIN new <=> x \in DOMAIN tree
      BY <2>1, <2>2
    <3>2. x \in DOMAIN tree => new[x] = tree[x]
      BY <2>1, <2>2
    <3>3. QED
      BY <3>1, <3>2 DEF Down, Up
  <2>3. \A x \in DOMAIN new : new[x].last_seen = IF x = g THEN time ELSE tree[x].last_seen
    BY <2>1
  <2>4. SeenBy(new, time)
    <3>1. time <= time
      OBVIOUS
    <3>2. QED
      BY <2>1, <2>3, <3>1 DEF SeenBy
  <2>5. ASSUME NEW x, NEW o
        PROVE  o \in Down(new, x) <=> o \in Down(tree, x) \/ (side = "down" /\ x = g /\ o = other /\ g # NoGuid /\ other # NoGuid)
    <3>1. CASE x = g
      BY <1>2, <2>1, <3>1
    <3>2. CASE x # g
      BY <2>2, <3>2
    <3>3. QED
      BY <3>1, <3>2
  <2>6. ASSUME NEW x, NEW o
        PROVE  o \in Up(new, x) <=> o \in Up(tree, x) \/ (side = "up" /\ x = g /\ o = other /\ g # NoGuid /\ other # NoGuid)
    <3>1. CASE x = g
      BY <1>2, <2>1, <3>1
    <3>2. CASE x # g
      BY <2>2, <3>2
    <3>3. QED
      BY <3>1, <3>2
  <2>7. QED
    BY <1>0, <1>2, <2>1, <2>3, <2>4, <2>5, <2>6 DEF GrownBy
<1>3. QED
  BY <1>1, <1>2

\* Two GUIDs, of which either may be missing, are seen now; the edge between them stands
\* at both ends when neither is missing, and nothing else changes.
Entered(tree, new, time, from, to) ==
  /\ Typed(new)
  /\ \A x : x \in DOMAIN new <=> x \in DOMAIN tree \/ (x \in {from, to} /\ x # NoGuid)
  /\ \A x \in DOMAIN new : new[x].last_seen = IF x \in {from, to} THEN time ELSE tree[x].last_seen
  /\ \A x, o : o \in Down(new, x) <=> o \in Down(tree, x) \/ (x = from /\ o = to /\ from # NoGuid /\ to # NoGuid)
  /\ \A x, o : x \in Up(new, o) <=> x \in Up(tree, o) \/ (x = from /\ o = to /\ from # NoGuid /\ to # NoGuid)

\* Two GUIDs mention each other: the edge between them is entered.
LEMMA EdgeEntered ==
  ASSUME NEW tree, Typed(tree), NEW time \in Nat, SeenBy(tree, time),
         NEW a \in Guid \cup {NoGuid}, NEW b \in Guid \cup {NoGuid},
         NEW sa \in {"up", "down"}, NEW sb \in {"up", "down"}, sa # sb,
         NEW mid, mid = Mention(tree, a, time, sa, b),
         NEW new, new = Mention(mid, b, time, sb, a),
         NEW from, from = (IF sa = "down" THEN a ELSE b),
         NEW to, to = (IF sa = "down" THEN b ELSE a)
  PROVE  Entered(tree, new, time, from, to)
<1>1. /\ Typed(mid) /\ SeenBy(mid, time)
      /\ \A x : x \in DOMAIN mid <=> x \in DOMAIN tree \/ (x = a /\ a # NoGuid)
      /\ \A x \in DOMAIN mid : mid[x].last_seen = IF x = a THEN time ELSE tree[x].last_seen
      /\ \A x, o : o \in Down(mid, x) <=>
           o \in Down(tree, x) \/ (sa = "down" /\ x = a /\ o = b /\ a # NoGuid /\ b # NoGuid)
      /\ \A x, o : o \in Up(mid, x) <=>
           o \in Up(tree, x) \/ (sa = "up" /\ x = a /\ o = b /\ a # NoGuid /\ b # NoGuid)
  <2>1. GrownBy(tree, mid, a, time, sa, b)
    BY Grown
  <2>2. QED
    BY <2>1 DEF GrownBy
<1>2. /\ Typed(new)
      /\ \A x : x \in DOMAIN new <=> x \in DOMAIN mid \/ (x = b /\ b # NoGuid)
      /\ \A x \in DOMAIN new : new[x].last_seen = IF x = b THEN time ELSE mid[x].last_seen
      /\ \A x, o : o \in Down(new, x) <=>
           o \in Down(mid, x) \/ (sb = "down" /\ x = b /\ o = a /\ b # NoGuid /\ a # NoGuid)
      /\ \A x, o : o \in Up(new, x) <=>
           o \in Up(mid, x) \/ (sb = "up" /\ x = b /\ o = a /\ b # NoGuid /\ a # NoGuid)
  <2>1. GrownBy(mid, new, b, time, sb, a)
    BY <1>1, Grown
  <2>2. QED
    BY <2>1 DEF GrownBy
<1>3. {from, to} = {a, b}
  OBVIOUS
<1>4. \A x : x \in DOMAIN new <=> x \in DOMAIN tree \/ (x \in {from, to} /\ x # NoGuid)
  BY <1>1, <1>2, <1>3
<1>5. \A x \in DOMAIN new : new[x].last_seen = IF x \in {from, to} THEN time ELSE tree[x].last_seen
  <2>1. TAKE x \in DOMAIN new
  <2>2. CASE x = b
    BY <1>2, <1>3, <2>2
  <2>3. CASE x # b
    <3>1. x \in DOMAIN mid
      BY <1>2, <2>3
    <3>2. QED
      BY <1>1, <1>2, <1>3, <2>3, <3>1
  <2>4. QED
    BY <2>2, <2>3
<1>6. CASE sa = "down" /\ sb = "up"
  <2>1. from = a /\ to = b
    BY <1>6
  <2>2. \A x, o : o \in Down(new, x) <=> o \in Down(tree, x) \/ (x = from /\ o = to /\ from # NoGuid /\ to # NoGuid)
    BY <1>1, <1>2, <1>6, <2>1
  <2>3. \A x, o : x \in Up(new, o) <=> x \in Up(tree, o) \/ (x = from /\ o = to /\ from # NoGuid /\ to # NoGuid)
    BY <1>1, <1>2, <1>6, <2>1
  <2>4. QED
    BY <1>2, <1>4, <1>5, <2>2, <2>3 DEF Entered
<1>7. CASE sa = "up" /\ sb = "down"
  <2>1. from = b /\ to = a
    BY <1>7
  <2>2. \A x, o : o \in Down(new, x) <=> o \in Down(tree, x) \/ (x = from /\ o = to /\ from # NoGuid /\ to # NoGuid)
    BY <1>1, <1>2, <1>7, <2>1
  <2>3. \A x, o : x \in Up(new, o) <=> x \in Up(tree, o) \/ (x = from /\ o = to /\ from # NoGuid /\ to # NoGuid)
    BY <1>1, <1>2, <1>7, <2>1
  <2>4. QED
    BY <1>2, <1>4, <1>5, <2>2, <2>3 DEF Entered
<1>8. QED
  BY <1>6, <1>7

Handled(tree, r, c, time) ==
  IF c = "creation_tree" THEN processCreationEvent(tree, r, time) ELSE processSourceTargetEvent(tree, r, time)

\* A row adds to a tree whom it names and what it shows.
RowEntered(tree, new, r, c, time) ==
  /\ Typed(new)
  /\ \A x : x \in DOMAIN new <=> x \in DOMAIN tree \/ Names(r, c, x)
  /\ \A x \in DOMAIN new : new[x].last_seen = IF Names(r, c, x) THEN time ELSE tree[x].last_seen
  /\ \A x, o : o \in Down(new, x) <=> o \in Down(tree, x) \/ Links(r, c, x, o)
  /\ \A x, o : x \in Up(new, o) <=> x \in Up(tree, o) \/ Links(r, c, x, o)

\* The two handlers enter what their rows say, and nothing for any other row.
LEMMA RowsAreEntered ==
  ASSUME NEW tree, Typed(tree), NEW r \in ChainRow, NEW c \in ChainType,
         NEW time \in Nat, SeenBy(tree, time)
  PROVE  RowEntered(tree, Handled(tree, r, c, time), r, c, time)
<1>1. r.from \in Guid /\ r.to \in Guid
  BY DEF Guid
<1>2. NoGuid \notin DOMAIN tree
  BY DEF Typed
<1>3. CASE c = "creation_tree"
  <2>1. PICK pg : pg = (IF r.id \in {"8", "10"} THEN NoGuid ELSE r.to)
    OBVIOUS
  <2>2. PICK parent : parent = (IF r.id = "1" THEN r.from ELSE NoGuid)
    OBVIOUS
  <2>3. PICK mid : mid = Mention(tree, pg, time, "up", parent)
    OBVIOUS
  <2>4. PICK new : new = Mention(mid, parent, time, "down", pg)
    OBVIOUS
  <2>5. pg \in Guid \cup {NoGuid} /\ parent \in Guid \cup {NoGuid}
    BY <1>1, <2>1, <2>2
  <2>6. Entered(tree, new, time, parent, pg)
    BY <2>3, <2>4, <2>5, EdgeEntered
  <2>7. \A x, o : Links(r, c, x, o) <=> x = parent /\ o = pg /\ parent # NoGuid /\ pg # NoGuid
    BY <1>3, <2>1, <2>2 DEF Links
  <2>8. \A x : Names(r, c, x) <=> x \in {parent, pg} /\ x # NoGuid
    BY <1>3, <2>1, <2>2 DEF Names
  <2>9. Handled(tree, r, c, time) = new
    BY <1>3, <2>1, <2>2, <2>3, <2>4 DEF Handled, processCreationEvent
  <2>10. NoGuid \notin DOMAIN new
    BY <2>6 DEF Entered, Typed
  <2>11. QED
    BY <2>6, <2>7, <2>8, <2>9, <2>10 DEF Entered, RowEntered
<1>4. CASE c = "source_target_tree" /\ r.id \in {"8", "10"}
  <2>1. PICK mid : mid = Mention(tree, r.from, time, "down", r.to)
    OBVIOUS
  <2>2. PICK new : new = Mention(mid, r.to, time, "up", r.from)
    OBVIOUS
  <2>3. PICK a : a = r.from
    OBVIOUS
  <2>4. PICK b : b = r.to
    OBVIOUS
  <2>5. a \in Guid \cup {NoGuid} /\ b \in Guid \cup {NoGuid}
    BY <1>1, <2>3, <2>4
  <2>6. Entered(tree, new, time, a, b)
    BY <2>1, <2>2, <2>3, <2>4, <2>5, EdgeEntered
  <2>7. \A x, o : Links(r, c, x, o) <=> x = a /\ o = b /\ a # NoGuid /\ b # NoGuid
    BY <1>4, <2>3, <2>4 DEF Links
  <2>8. \A x : Names(r, c, x) <=> x \in {a, b} /\ x # NoGuid
    BY <1>4, <2>3, <2>4 DEF Names
  <2>9. Handled(tree, r, c, time) = new
    BY <1>4, <2>1, <2>2 DEF Handled, processSourceTargetEvent
  <2>10. NoGuid \notin DOMAIN new
    BY <2>6 DEF Entered, Typed
  <2>11. QED
    BY <2>6, <2>7, <2>8, <2>9, <2>10 DEF Entered, RowEntered
<1>5. CASE c = "source_target_tree" /\ r.id \notin {"8", "10"}
  <2>1. Handled(tree, r, c, time) = tree
    BY <1>5 DEF Handled, processSourceTargetEvent
  <2>2. (\A x, o : ~ Links(r, c, x, o)) /\ \A x : ~ Names(r, c, x)
    BY <1>5 DEF Links, Names
  <2>3. QED
    BY <2>1, <2>2 DEF RowEntered
<1>6. QED
  BY <1>3, <1>4, <1>5 DEF ChainType

\* A tree says what the first m rows of its host say.
Matches(s, m, tree, h, c) ==
  /\ Typed(tree)
  /\ \A x : x \in DOMAIN tree <=> \E i \in 1..m : s[i].host = h /\ Names(s[i], c, x)
  /\ \A x \in DOMAIN tree :
       LET last == tree[x].last_seen
       IN  last \in 1..m /\ s[last].host = h /\ Names(s[last], c, x)
  /\ \A x, i : i \in 1..m /\ s[i].host = h /\ Names(s[i], c, x) => i <= tree[x].last_seen
  /\ \A x, o : o \in Down(tree, x) <=> \E i \in 1..m : s[i].host = h /\ Links(s[i], c, x, o)
  /\ \A x, o : x \in Up(tree, o) <=> \E i \in 1..m : s[i].host = h /\ Links(s[i], c, x, o)

\* No rows, no tree.
LEMMA NothingMatchesNothing ==
  ASSUME NEW s, NEW h, NEW c
  PROVE  Matches(s, 0, NoTree, h, c)
<1>1. DOMAIN NoTree = {} /\ 1..0 = {}
  BY DEF NoTree
<1>2. Typed(NoTree) /\ \A x : Down(NoTree, x) = {} /\ Up(NoTree, x) = {}
  BY <1>1 DEF Typed, Down, Up
<1>3. QED
  BY <1>1, <1>2 DEF Matches

\* The next row keeps the trees of its host right, and those of the other hosts need no
\* change.
LEMMA NextRowMatches ==
  ASSUME NEW s \in Seq(ChainRow), NEW m \in Nat, m + 1 \in DOMAIN s, NEW h, NEW c \in ChainType,
         NEW tree, Matches(s, m, tree, h, c),
         NEW new, new = (IF h = s[m + 1].host THEN Handled(tree, s[m + 1], c, m + 1) ELSE tree)
  PROVE  Matches(s, m + 1, new, h, c)
<1>1. PICK r : r = s[m + 1]
  OBVIOUS
<1>2. PICK n : n = m + 1
  OBVIOUS
<1>3. r \in ChainRow /\ n \in Nat /\ n \in 1..n /\ n <= n /\ \A i : i \in 1..n <=> i \in 1..m \/ i = n
  BY <1>1, <1>2
<1>4. \A i \in 1..m : i \in Nat /\ i <= n /\ i # n
  BY <1>2
<1>5. CASE h = r.host
  <2>1. SeenBy(tree, n)
    BY <1>4 DEF Matches, SeenBy
  <2>2. /\ Typed(new)
        /\ \A x : x \in DOMAIN new <=> x \in DOMAIN tree \/ Names(r, c, x)
        /\ \A x \in DOMAIN new : new[x].last_seen = IF Names(r, c, x) THEN n ELSE tree[x].last_seen
        /\ \A x, o : o \in Down(new, x) <=> o \in Down(tree, x) \/ Links(r, c, x, o)
        /\ \A x, o : x \in Up(new, o) <=> x \in Up(tree, o) \/ Links(r, c, x, o)
    <3>1. Typed(tree)
      BY DEF Matches
    <3>2. RowEntered(tree, new, r, c, n)
      BY <1>1, <1>2, <1>3, <1>5, <2>1, <3>1, RowsAreEntered
    <3>3. QED
      BY <3>2 DEF RowEntered
  <2>3. \A x : x \in DOMAIN new <=> \E i \in 1..n : s[i].host = h /\ Names(s[i], c, x)
    <3>1. TAKE x
    <3>2. x \in DOMAIN tree <=> \E i \in 1..m : s[i].host = h /\ Names(s[i], c, x)
      BY DEF Matches
    <3>3. QED
      BY <1>1, <1>2, <1>3, <1>5, <2>2, <3>2
  <2>4. ASSUME NEW x \in DOMAIN new, NEW last, last = new[x].last_seen
        PROVE  last \in 1..n /\ s[last].host = h /\ Names(s[last], c, x)
    <3>1. CASE Names(r, c, x)
      BY <1>1, <1>2, <1>3, <1>5, <2>2, <2>4, <3>1
    <3>2. CASE ~ Names(r, c, x)
      BY <1>3, <2>2, <2>4, <3>2 DEF Matches
    <3>3. QED
      BY <3>1, <3>2
  <2>5. ASSUME NEW x, NEW i \in 1..n, s[i].host = h, Names(s[i], c, x)
        PROVE  i <= new[x].last_seen
    <3>1. x \in DOMAIN new
      BY <2>3, <2>5
    <3>2. CASE Names(r, c, x)
      BY <1>3, <1>4, <2>2, <3>1, <3>2
    <3>3. CASE ~ Names(r, c, x)
      <4>1. i \in 1..m
        BY <1>1, <1>2, <1>3, <2>5, <3>3
      <4>2. i <= tree[x].last_seen
        BY <2>5, <4>1 DEF Matches
      <4>3. QED
        BY <2>2, <3>1, <3>3, <4>2
    <3>4. QED
      BY <3>2, <3>3
  <2>6. \A x, o : o \in Down(new, x) <=> \E i \in 1..n : s[i].host = h /\ Links(s[i], c, x, o)
    <3>1. TAKE x, o
    <3>2. o \in Down(tree, x) <=> \E i \in 1..m : s[i].host = h /\ Links(s[i], c, x, o)
      BY DEF Matches
    <3>3. QED
      BY <1>1, <1>2, <1>3, <1>5, <2>2, <3>2
  <2>7. \A x, o : x \in Up(new, o) <=> \E i \in 1..n : s[i].host = h /\ Links(s[i], c, x, o)
    <3>1. TAKE x, o
    <3>2. x \in Up(tree, o) <=> \E i \in 1..m : s[i].host = h /\ Links(s[i], c, x, o)
      BY DEF Matches
    <3>3. QED
      BY <1>1, <1>2, <1>3, <1>5, <2>2, <3>2
  <2>8. QED
    BY <1>2, <2>2, <2>3, <2>4, <2>5, <2>6, <2>7 DEF Matches
<1>6. CASE h # r.host
  <2>1. new = tree
    BY <1>1, <1>6
  <2>2. \A i : i \in 1..n /\ s[i].host = h <=> i \in 1..m /\ s[i].host = h
    BY <1>1, <1>2, <1>3, <1>6
  <2>3. /\ \A x : x \in DOMAIN tree <=> \E i \in 1..n : s[i].host = h /\ Names(s[i], c, x)
        /\ \A x, o : o \in Down(tree, x) <=> \E i \in 1..n : s[i].host = h /\ Links(s[i], c, x, o)
        /\ \A x, o : x \in Up(tree, o) <=> \E i \in 1..n : s[i].host = h /\ Links(s[i], c, x, o)
    BY <2>2 DEF Matches
  <2>4. /\ \A x \in DOMAIN tree :
             LET last == tree[x].last_seen
             IN  last \in 1..n /\ s[last].host = h /\ Names(s[last], c, x)
        /\ \A x, i : i \in 1..n /\ s[i].host = h /\ Names(s[i], c, x) => i <= tree[x].last_seen
    BY <1>3, <2>2 DEF Matches
  <2>5. Matches(s, n, tree, h, c)
    BY <2>3, <2>4 DEF Matches
  <2>6. QED
    BY <1>2, <2>1, <2>5
<1>7. QED
  BY <1>5, <1>6

----------------------------------------------------------------------------
(* The process trees: a window, and the table *)

\* One tree for each host and chain.
IsTrees(f) == f = [h \in Range(Host) |-> [c \in ChainType |-> f[h][c]]]

ChainTypes ==
  /\ rows \in Seq(ChainRow) /\ read \in Nat /\ read <= Len(rows)
  /\ IsTrees(byHost) /\ IsTrees(process_chain)
  /\ upserts \in Seq(Range(Host) \X ChainType)

TreesMatch == \A h \in Range(Host), c \in ChainType : Matches(rows, read, byHost[h][c], h, c)

\* While a window is processed every tree is still to be stored or is stored as it is,
\* and none is stored before the last row is read.
Storing ==
  outcome = "running" =>
    /\ upserts # <<>>
    /\ \A h \in Range(Host), c \in ChainType :
         /\ read < Len(rows) => <<h, c>> \in Range(upserts)
         /\ <<h, c>> \in Range(upserts) \/ process_chain[h][c] = byHost[h][c]

SettledAfterTheRows ==
  outcome # "running" =>
    /\ read = Len(rows)
    /\ outcome = "returned" => evidence = byHost /\ process_chain = byHost

ChainInv == ChainTypes /\ TreesMatch /\ Storing /\ SettledAfterTheRows

\* Trees are the same when they are for every host and chain.
LEMMA SameTrees ==
  ASSUME NEW f, NEW g, IsTrees(f), IsTrees(g), \A h \in Range(Host), c \in ChainType : f[h][c] = g[h][c]
  PROVE  f = g
<1>1. [h \in Range(Host) |-> [c \in ChainType |-> f[h][c]]] = [h \in Range(Host) |-> [c \in ChainType |-> g[h][c]]]
  OBVIOUS
<1>2. QED
  BY <1>1 DEF IsTrees

\* Every tree is in the list of the upserts to make, and the list is not empty.
LEMMA EveryTreeIsStored ==
  /\ Upserts \in Seq(Range(Host) \X ChainType) /\ Upserts # <<>>
  /\ \A h \in Range(Host), c \in ChainType : <<h, c>> \in Range(Upserts)
<1>1. PICK n : n = Len(Host)
  OBVIOUS
<1>2. Host \in Seq(Range(Host)) /\ Host # <<>>
  BY ChainAssumption
<1>3. n \in Nat /\ n # 0 /\ DOMAIN Host = 1..n
  BY <1>1, <1>2
<1>4. \A j \in 1..n : Host[j] \in Range(Host)
  BY <1>3 DEF Range
<1>5. \A k \in 1..2 * n : (k + 1) \div 2 \in 1..n
  BY <1>3
<1>6. ASSUME NEW k \in 1..2 * n PROVE Upserts[k] \in Range(Host) \X ChainType
  BY <1>1, <1>4, <1>5 DEF Upserts, ChainType
<1>7. DOMAIN Upserts = 1..2 * n /\ 2 * n \in Nat
  BY <1>1, <1>3 DEF Upserts
<1>8. Upserts \in Seq(Range(Host) \X ChainType)
  <2>1. Upserts = [k \in 1..2 * n |-> Upserts[k]]
    BY <1>1 DEF Upserts
  <2>2. Upserts \in [1..2 * n -> Range(Host) \X ChainType]
    BY <1>6, <1>7, <2>1
  <2>3. QED
    BY <1>7, <2>2
<1>9. Upserts # <<>>
  <2>1. 1 \in 1..2 * n
    BY <1>3
  <2>2. DOMAIN Upserts # {}
    BY <1>7, <2>1
  <2>3. QED
    BY <2>2
<1>10. ASSUME NEW h \in Range(Host), NEW c \in ChainType PROVE <<h, c>> \in Range(Upserts)
  <2>1. PICK j : j \in 1..n /\ Host[j] = h
    BY <1>3 DEF Range
  <2>2. /\ 2 * j - 1 \in 1..2 * n /\ (2 * j - 1 + 1) \div 2 = j /\ (2 * j - 1) % 2 = 1
        /\ 2 * j \in 1..2 * n /\ (2 * j + 1) \div 2 = j /\ (2 * j) % 2 = 0
    BY <1>3, <2>1
  <2>3. Upserts[2 * j - 1] = <<h, "creation_tree">>
    BY <1>1, <2>1, <2>2 DEF Upserts
  <2>4. Upserts[2 * j] = <<h, "source_target_tree">>
    BY <1>1, <2>1, <2>2 DEF Upserts
  <2>5. c = "creation_tree" \/ c = "source_target_tree"
    BY DEF ChainType
  <2>6. QED
    BY <1>7, <2>2, <2>3, <2>4, <2>5 DEF Range
<1>11. QED
  BY <1>8, <1>9, <1>10

\* The invariant says of the trees what was to be shown.
LEMMA ChainInvSuffices == ChainInv => TreesMatchRows
<1>1. SUFFICES ASSUME ChainInv, outcome = "returned" PROVE TreesMatchRows
  BY DEF TreesMatchRows
<1>2. evidence = byHost /\ process_chain = byHost /\ read = Len(rows)
  BY <1>1 DEF ChainInv, SettledAfterTheRows
<1>3. ASSUME NEW h \in Range(Host), NEW c \in ChainType, NEW tree, tree = evidence[h][c]
      PROVE  TreeOfRows(tree, h, c)
  <2> DEFINE Naming(g) == {i \in DOMAIN rows : rows[i].host = h /\ Names(rows[i], c, g)}
             Linked(x, o) == \E i \in DOMAIN rows : rows[i].host = h /\ Links(rows[i], c, x, o)
  <2>1. DOMAIN rows = 1..read
    BY <1>1, <1>2 DEF ChainInv, ChainTypes
  <2>2. Matches(rows, read, tree, h, c)
    BY <1>1, <1>2, <1>3 DEF ChainInv, TreesMatch
  <2>3. Typed(tree)
    BY <2>2 DEF Matches
  <2>4. \A g, i : i \in Naming(g) <=> i \in 1..read /\ rows[i].host = h /\ Names(rows[i], c, g)
    BY <2>1
  <2>5. \A x, o : Linked(x, o) <=> \E i \in 1..read : rows[i].host = h /\ Links(rows[i], c, x, o)
    BY <2>1
  <2> HIDE DEF Naming, Linked
  <2>6. DOMAIN tree = {g \in Guid : Naming(g) # {}}
    <3>1. \A g : g \in DOMAIN tree <=> Naming(g) # {}
      BY <2>2, <2>4 DEF Matches
    <3>2. DOMAIN tree \subseteq Guid
      BY <2>3 DEF Typed
    <3>3. QED
      BY <3>1, <3>2
  <2>7. ASSUME NEW g \in DOMAIN tree
        PROVE  /\ tree[g].last_seen \in Naming(g) /\ \A i \in Naming(g) : i <= tree[g].last_seen
               /\ IsInjective(tree[g].down) /\ Range(tree[g].down) = {o \in Guid : Linked(g, o)}
               /\ IsInjective(tree[g].up) /\ Range(tree[g].up) = {o \in Guid : Linked(o, g)}
    <3>1. tree[g].last_seen \in Naming(g) /\ \A i \in Naming(g) : i <= tree[g].last_seen
      BY <2>2, <2>4 DEF Matches
    <3>2. tree[g] \in Node /\ IsInjective(tree[g].down) /\ IsInjective(tree[g].up)
      BY <2>3 DEF Typed
    <3>3. Range(tree[g].down) \subseteq Guid /\ Range(tree[g].up) \subseteq Guid
      BY <3>2 DEF Node, Range
    <3>4. \A o : o \in Range(tree[g].down) <=> Linked(g, o)
      BY <2>2, <2>5 DEF Matches, Down
    <3>5. \A o : o \in Range(tree[g].up) <=> Linked(o, g)
      BY <2>2, <2>5 DEF Matches, Up
    <3>6. QED
      BY <3>1, <3>2, <3>3, <3>4, <3>5
  <2>8. QED
    BY <2>6, <2>7 DEF Naming, Linked, TreeOfRows
<1>4. QED
  BY <1>2, <1>3 DEF TreesMatchRows

\* Without rows handled every host has no trees.
LEMMA NoTreesMatch == IsTrees(NoTrees) /\ \A s : \A h \in Range(Host), c \in ChainType : Matches(s, 0, NoTrees[h][c], h, c)
<1>1. IsTrees(NoTrees)
  BY DEF IsTrees, NoTrees
<1>2. ASSUME NEW s, NEW h \in Range(Host), NEW c \in ChainType PROVE Matches(s, 0, NoTrees[h][c], h, c)
  <2>1. NoTrees[h][c] = NoTree
    BY DEF NoTrees
  <2>2. QED
    BY <2>1, NothingMatchesNothing
<1>3. QED
  BY <1>1, <1>2

LEMMA ChainStarts == ChainInit => ChainInv
<1>1. SUFFICES ASSUME ChainInit PROVE ChainInv
  OBVIOUS
<1>2. rows \in Seq(ChainRow) /\ Len(rows) \in Nat
  <2>1. PICK n : n \in 0..MaxRows /\ rows \in [1..n -> ChainRow]
    BY <1>1 DEF ChainInit
  <2>2. n \in Nat
    BY <2>1, ChainAssumption
  <2>3. QED
    BY <2>1, <2>2
<1>3. read = 0 /\ byHost = NoTrees /\ upserts = Upserts /\ outcome = "running"
  BY <1>1 DEF ChainInit, Start
<1>4. IsTrees(process_chain)
  BY <1>1 DEF ChainInit, Start, IsTrees
<1>5. ChainTypes
  BY <1>2, <1>3, <1>4, NoTreesMatch, EveryTreeIsStored DEF ChainTypes
<1>6. TreesMatch
  BY <1>3, NoTreesMatch DEF TreesMatch
<1>7. Storing
  BY <1>3, EveryTreeIsStored DEF Storing
<1>8. SettledAfterTheRows
  BY <1>3 DEF SettledAfterTheRows
<1>9. QED
  BY <1>5, <1>6, <1>7, <1>8 DEF ChainInv

\* A row is handled by the two trees of its host.
LEMMA RowHandled ==
  ASSUME ChainInv, HandleRow
  PROVE  ChainInv'
<1>1. /\ rows \in Seq(ChainRow) /\ read \in Nat /\ read < Len(rows) /\ read' = read + 1 /\ Len(rows) \in Nat
      /\ rows' = rows /\ upserts' = upserts /\ process_chain' = process_chain /\ outcome' = outcome
  BY DEF ChainInv, ChainTypes, HandleRow
<1>2. PICK m : m = read
  OBVIOUS
<1>3. PICK r : r = rows[m + 1]
  OBVIOUS
<1>4. m \in Nat /\ m + 1 \in DOMAIN rows /\ m + 1 <= Len(rows) /\ m < Len(rows)
  BY <1>1, <1>2
<1>5. r \in ChainRow /\ r.host \in Range(Host)
  BY <1>1, <1>3, <1>4, ChainAssumption
<1>6. PICK old : old = byHost
  OBVIOUS
<1>7. IsTrees(old)
  BY <1>6 DEF ChainInv, ChainTypes
<1>8. PICK t1 : t1 = processCreationEvent(old[r.host]["creation_tree"], r, m + 1)
  OBVIOUS
<1>9. PICK t2 : t2 = processSourceTargetEvent(old[r.host]["source_target_tree"], r, m + 1)
  OBVIOUS
<1>10. byHost' = [[old EXCEPT ![r.host]["creation_tree"] = t1] EXCEPT ![r.host]["source_target_tree"] = t2]
  BY <1>2, <1>3, <1>5, <1>6, <1>7, <1>8, <1>9, SMTT(30) DEF HandleRow, IsTrees, ChainType
<1>11. /\ DOMAIN old = Range(Host)
       /\ \A h \in Range(Host) : old[h] = [c \in ChainType |-> old[h][c]]
  BY <1>7 DEF IsTrees
<1>12. IsTrees(byHost')
  BY <1>5, <1>10, <1>11 DEF IsTrees, ChainType
<1>13. ASSUME NEW h \in Range(Host), NEW c \in ChainType
       PROVE  byHost'[h][c] = IF h = r.host THEN Handled(old[h][c], r, c, m + 1) ELSE old[h][c]
  <2>1. CASE h # r.host
    BY <1>5, <1>10, <1>11, <2>1
  <2>2. CASE h = r.host /\ c = "creation_tree"
    BY <1>5, <1>8, <1>10, <1>11, <2>2 DEF Handled, ChainType
  <2>3. CASE h = r.host /\ c = "source_target_tree"
    BY <1>5, <1>9, <1>10, <1>11, <2>3 DEF Handled, ChainType
  <2>4. QED
    BY <2>1, <2>2, <2>3 DEF ChainType
<1>14. ChainTypes'
  BY <1>1, <1>2, <1>4, <1>12 DEF ChainInv, ChainTypes, IsTrees
<1>15. TreesMatch'
  <2>1. ASSUME NEW h \in Range(Host), NEW c \in ChainType
        PROVE  Matches(rows, m + 1, byHost'[h][c], h, c)
    <3>1. Matches(rows, m, old[h][c], h, c)
      BY <1>2, <1>6 DEF ChainInv, TreesMatch
    <3>2. PICK new : new = byHost'[h][c]
      OBVIOUS
    <3>3. PICK tree : tree = old[h][c]
      OBVIOUS
    <3>4. PICK s : s = rows
      OBVIOUS
    <3>5. new = (IF h = s[m + 1].host THEN Handled(tree, s[m + 1], c, m + 1) ELSE tree)
      BY <1>3, <1>13, <3>2, <3>3, <3>4
    <3>6. s \in Seq(ChainRow) /\ m + 1 \in DOMAIN s /\ Matches(s, m, tree, h, c)
      BY <1>1, <1>4, <3>1, <3>3, <3>4
    <3>7. Matches(s, m + 1, new, h, c)
      BY <1>4, <3>5, <3>6, NextRowMatches
    <3>8. QED
      BY <3>2, <3>4, <3>7
  <2>2. QED
    BY <1>1, <1>2, <2>1 DEF TreesMatch
<1>16. outcome = "running" /\ \A h \in Range(Host), c \in ChainType : <<h, c>> \in Range(upserts)
  BY <1>1, <1>2, <1>4 DEF ChainInv, Storing, SettledAfterTheRows
<1>17. Storing'
  BY <1>1, <1>16 DEF ChainInv, Storing
<1>18. SettledAfterTheRows'
  BY <1>1, <1>16 DEF SettledAfterTheRows
<1>19. QED
  BY <1>14, <1>15, <1>17, <1>18 DEF ChainInv

\* A tree is stored as it is; with the last one they are returned as they are stored.
LEMMA TreeStored ==
  ASSUME ChainInv, upsertProcessChain
  PROVE  ChainInv'
<1>1. /\ read = Len(rows) /\ outcome = "running" /\ read \in Nat
      /\ rows' = rows /\ read' = read /\ byHost' = byHost /\ upserts' = Tail(upserts)
      /\ upserts # <<>> /\ upserts \in Seq(Range(Host) \X ChainType)
  BY DEF ChainInv, ChainTypes, Storing, upsertProcessChain, Upserting
<1>2. PICK u : u = upserts
  OBVIOUS
<1>3. u \in Seq(Range(Host) \X ChainType) /\ u # <<>> /\ Len(u) \in Nat /\ Len(u) # 0
  BY <1>1, <1>2
<1>4. PICK k \in Range(Host), d \in ChainType : Head(u) = <<k, d>>
  <2>1. Head(u) \in Range(Host) \X ChainType
    BY <1>3
  <2>2. QED
    BY <2>1
<1>5. Tail(u) \in Seq(Range(Host) \X ChainType) /\ \A e : e \in Range(u) => e = Head(u) \/ e \in Range(Tail(u))
  <2>1. Tail(u) \in Seq(Range(Host) \X ChainType) /\ Len(Tail(u)) = Len(u) - 1
    BY <1>3
  <2>2. ASSUME NEW e \in Range(u) PROVE e = Head(u) \/ e \in Range(Tail(u))
    <3>1. PICK i \in DOMAIN u : e = u[i]
      BY DEF Range
    <3>2. CASE i = 1
      BY <1>3, <3>1, <3>2
    <3>3. CASE i # 1
      <4>1. i - 1 \in 1..Len(u) - 1 /\ i - 1 + 1 = i
        BY <1>3, <3>1, <3>3
      <4>2. i - 1 \in DOMAIN Tail(u) /\ Tail(u)[i - 1] = u[i]
        BY <1>3, <2>1, <4>1
      <4>3. QED
        BY <3>1, <4>2 DEF Range
    <3>4. QED
      BY <3>2, <3>3
  <2>3. QED
    BY <2>1, <2>2
<1>6. PICK trees : trees = byHost
  OBVIOUS
<1>7. PICK kept : kept = process_chain
  OBVIOUS
<1>8. IsTrees(trees) /\ IsTrees(kept)
  BY <1>6, <1>7 DEF ChainInv, ChainTypes
<1>9. process_chain' = [kept EXCEPT ![k][d] = trees[k][d]]
  <2>1. PICK next : next = Head(u)
    OBVIOUS
  <2>2. next[1] = k /\ next[2] = d
    BY <1>4, <2>1
  <2>3. process_chain' = [kept EXCEPT ![next[1]][next[2]] = trees[next[1]][next[2]]]
    BY <1>2, <1>6, <1>7, <2>1 DEF upsertProcessChain
  <2>4. QED
    BY <2>2, <2>3
<1>10. /\ DOMAIN kept = Range(Host)
       /\ \A h \in Range(Host) : kept[h] = [c \in ChainType |-> kept[h][c]]
  BY <1>8 DEF IsTrees
<1>11. IsTrees(process_chain')
  BY <1>9, <1>10 DEF IsTrees, ChainType
<1>12. ASSUME NEW h \in Range(Host), NEW c \in ChainType
       PROVE  process_chain'[h][c] = IF h = k /\ c = d THEN trees[h][c] ELSE kept[h][c]
  BY <1>9, <1>10
<1>13. ASSUME NEW h \in Range(Host), NEW c \in ChainType
       PROVE  <<h, c>> \in Range(Tail(u)) \/ process_chain'[h][c] = trees[h][c]
  <2>1. <<h, c>> \in Range(u) \/ kept[h][c] = trees[h][c]
    BY <1>1, <1>2, <1>6, <1>7 DEF ChainInv, Storing
  <2>2. <<h, c>> \in Range(u) => (h = k /\ c = d) \/ <<h, c>> \in Range(Tail(u))
    BY <1>4, <1>5
  <2>3. QED
    BY <1>12, <2>1, <2>2
<1>14. ChainTypes'
  BY <1>1, <1>2, <1>5, <1>6, <1>8, <1>11 DEF ChainInv, ChainTypes, IsTrees
<1>15. TreesMatch'
  BY <1>1 DEF ChainInv, TreesMatch
<1>16. CASE Len(u) = 1
  <2>1. evidence' = trees /\ outcome' = "returned"
    BY <1>2, <1>6, <1>16 DEF upsertProcessChain
  <2>2. Range(Tail(u)) = {}
    <3>1. PICK t : t = Tail(u)
      OBVIOUS
    <3>2. Len(t) = 0 /\ t \in Seq(Range(Host) \X ChainType)
      BY <1>3, <1>5, <1>16, <3>1
    <3>3. DOMAIN t = {}
      BY <3>2
    <3>4. QED
      BY <3>1, <3>3 DEF Range
  <2>3. process_chain' = trees
    <3>1. \A h \in Range(Host), c \in ChainType : process_chain'[h][c] = trees[h][c]
      BY <1>13, <2>2
    <3>2. PICK after : after = process_chain'
      OBVIOUS
    <3>3. IsTrees(after) /\ \A h \in Range(Host), c \in ChainType : after[h][c] = trees[h][c]
      BY <1>11, <3>1, <3>2
    <3>4. after = trees
      BY <1>8, <3>3, SameTrees
    <3>5. QED
      BY <3>2, <3>4
  <2>4. Storing'
    BY <2>1 DEF Storing
  <2>5. SettledAfterTheRows'
    BY <1>1, <1>6, <2>1, <2>3 DEF SettledAfterTheRows
  <2>6. QED
    BY <1>14, <1>15, <2>4, <2>5 DEF ChainInv
<1>17. CASE Len(u) # 1
  <2>1. evidence' = evidence /\ outcome' = outcome
    BY <1>2, <1>17 DEF upsertProcessChain
  <2>2. Tail(u) # <<>>
    <3>1. PICK t : t = Tail(u)
      OBVIOUS
    <3>2. Len(t) # 0
      BY <1>3, <1>17, <3>1
    <3>3. t # <<>>
      BY <3>2
    <3>4. QED
      BY <3>1, <3>3
  <2>3. Storing'
    BY <1>1, <1>2, <1>6, <1>13, <2>2 DEF Storing
  <2>4. SettledAfterTheRows'
    BY <1>1, <2>1 DEF SettledAfterTheRows
  <2>5. QED
    BY <1>14, <1>15, <2>3, <2>4 DEF ChainInv
<1>18. QED
  BY <1>16, <1>17

LEMMA ChainInvHolds == ChainSpec => []ChainInv
<1>1. ChainInit => ChainInv
  BY ChainStarts
<1>2. ChainInv /\ [ChainNext]_chainVars => ChainInv'
  <2>1. SUFFICES ASSUME ChainInv, [ChainNext]_chainVars PROVE ChainInv'
    OBVIOUS
  <2>2. CASE HandleRow
    BY <2>1, <2>2, RowHandled
  <2>3. CASE upsertProcessChain
    BY <2>1, <2>3, TreeStored
  <2>4. CASE UpsertFails
    BY <2>1, <2>4 DEF ChainInv, ChainTypes, TreesMatch, Storing, SettledAfterTheRows, IsTrees, UpsertFails, Upserting
  <2>5. CASE UNCHANGED chainVars
    BY <2>1, <2>5 DEF ChainInv, ChainTypes, TreesMatch, Storing, SettledAfterTheRows, IsTrees, chainVars
  <2>6. QED
    BY <2>1, <2>2, <2>3, <2>4, <2>5 DEF ChainNext
<1>3. QED
  BY <1>1, <1>2, PTL DEF ChainSpec

\* The trees handed to the LLM as evidence are those of the table, and say of every host
\* which processes its rows of the window name, when each was named last, and who created
\* and who touched whom: exactly what those rows say, for every number of hosts and of
\* rows (processchain.go).
THEOREM EvidenceIsTheRows == ChainSpec => []TreesMatchRows
<1>1. ChainInv => TreesMatchRows
  BY ChainInvSuffices
<1>2. QED
  BY <1>1, ChainInvHolds, PTL
=============================================================================
