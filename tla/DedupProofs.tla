------------------------------ MODULE DedupProofs ------------------------------
(***************************************************************************)
(* Proofs about the deduplicator: how far apart the rows of a fingerprint  *)
(* are, that the cache keeps its bound, and that the counts add up.        *)
(***************************************************************************)
EXTENDS Dedup, FiniteSetTheorems, TLAPS

DedupSpec == DedupInit /\ [][DedupNext]_dedupVars

Stamp == [fp : Fingerprint, at : Nat, dups : Nat]

\* What the properties need of the types: the clock runs ahead of every entry and of
\* every report, and an entry is last seen after it was first seen.
DedupTypes ==
  /\ time \in Nat
  /\ Cached \subseteq Fingerprint
  /\ \A f \in Cached : /\ cache[f] \in [first : Nat, last : Nat, count : Nat]
                       /\ cache[f].first <= cache[f].last /\ cache[f].last <= time
  /\ reports \in Seq(Stamp)
  /\ \A i \in DOMAIN reports : reports[i].at <= time
  /\ evictedAt \in [Fingerprint -> Int]

\* Why a fingerprint is not reported again too early: it was evicted since report r, or
\* an entry at least as young as r suppresses it, or its window is over.
Remembered(r) ==
  \/ evictedAt[r.fp] >= r.at
  \/ r.fp \in Cached /\ r.at <= cache[r.fp].first
  \/ r.fp \notin Cached /\ time - r.at >= SuppressWindow

SpacingInv == DedupTypes /\ (\A i \in DOMAIN reports : Remembered(reports[i])) /\ ReportsSpaced

\* The cache holds no more entries than it may.
CacheBounded == IsFiniteSet(Cached) /\ Cardinality(Cached) <= MaxCacheSize

----------------------------------------------------------------------------
(* The cache of each step *)

\* A call of Feed either counts a duplicate, or makes a report of a fingerprint whose
\* entry, if there was one, is past its window; the entry of a report is of now.
LEMMA FeedReports ==
  ASSUME DedupTypes, NEW f \in Fingerprint, FeedExpired(f) \/ FeedNew(f)
  PROVE  /\ time' = time
         /\ \E n \in Nat : reports' = Append(reports, [fp |-> f, at |-> time, dups |-> n])
         /\ f \in Cached => time - cache[f].first >= SuppressWindow /\ evictedAt' = evictedAt
         /\ DOMAIN cache' \subseteq Cached \cup {f}
         /\ f \in DOMAIN cache' /\ cache'[f] = FreshEntry
         /\ \A g \in DOMAIN cache' : g # f => cache'[g] = cache[g]
         /\ evictedAt' \in [Fingerprint -> Int]
         /\ \A g \in Cached : g \notin DOMAIN cache' => evictedAt'[g] = time
         /\ \A g \in Fingerprint : evictedAt'[g] \in {evictedAt[g], time}
         /\ f \notin Cached => evictedAt'[f] = evictedAt[f]
<1>1. CASE FeedExpired(f)
  <2>1. /\ f \in Cached /\ time - cache[f].first >= SuppressWindow /\ time' = time /\ evictedAt' = evictedAt
        /\ cache' = [cache EXCEPT ![f] = FreshEntry]
        /\ reports' = Append(reports, [fp |-> f, at |-> time, dups |-> cache[f].count + 1])
    BY <1>1 DEF FeedExpired, Fed, PassOn
  <2>2. cache[f].count + 1 \in Nat
    BY <2>1 DEF DedupTypes
  <2>3. /\ DOMAIN cache' = Cached /\ cache'[f] = FreshEntry
        /\ \A g \in Cached : g # f => cache'[g] = cache[g]
    BY <2>1 DEF Cached
  <2>4. QED
    BY <2>1, <2>2, <2>3 DEF DedupTypes
<1>2. CASE FeedNew(f)
  <2>1. /\ f \notin Cached /\ time' = time
        /\ reports' = Append(reports, [fp |-> f, at |-> time, dups |-> 0])
    BY <1>2 DEF FeedNew, Fed, PassOn
  <2>2. CASE /\ cache' = [g \in Cached \cup {f} |-> IF g = f THEN FreshEntry ELSE cache[g]]
             /\ evictedAt' = evictedAt
    <3>1. /\ DOMAIN cache' = Cached \cup {f} /\ cache'[f] = FreshEntry
          /\ \A g \in Cached : g # f => cache'[g] = cache[g]
      BY <2>2
    <3>2. QED
      BY <2>1, <2>2, <3>1 DEF DedupTypes
  <2>3. ASSUME NEW victim \in OldestEntries,
               cache' = [g \in (Cached \ {victim}) \cup {f} |-> IF g = f THEN FreshEntry ELSE cache[g]],
               evictedAt' = [evictedAt EXCEPT ![victim] = time]
        PROVE  /\ DOMAIN cache' \subseteq Cached \cup {f}
               /\ f \in DOMAIN cache' /\ cache'[f] = FreshEntry
               /\ \A g \in DOMAIN cache' : g # f => cache'[g] = cache[g]
               /\ evictedAt' \in [Fingerprint -> Int]
               /\ \A g \in Cached : g \notin DOMAIN cache' => evictedAt'[g] = time
               /\ \A g \in Fingerprint : evictedAt'[g] \in {evictedAt[g], time}
               /\ evictedAt'[f] = evictedAt[f]
    <3>1. victim \in Cached /\ victim \in Fingerprint /\ victim # f
      BY <2>1 DEF OldestEntries, DedupTypes
    <3>2. /\ DOMAIN cache' = (Cached \ {victim}) \cup {f} /\ cache'[f] = FreshEntry
          /\ \A g \in DOMAIN cache' : g # f => cache'[g] = cache[g]
      BY <2>3
    <3>3. /\ evictedAt' \in [Fingerprint -> Int] /\ evictedAt'[victim] = time
          /\ \A g \in Fingerprint : g # victim => evictedAt'[g] = evictedAt[g]
      BY <2>3, <3>1 DEF DedupTypes
    <3>4. QED
      BY <3>1, <3>2, <3>3
  <2>4. \/ /\ cache' = [g \in Cached \cup {f} |-> IF g = f THEN FreshEntry ELSE cache[g]]
           /\ evictedAt' = evictedAt
        \/ \E victim \in OldestEntries :
             /\ cache' = [g \in (Cached \ {victim}) \cup {f} |-> IF g = f THEN FreshEntry ELSE cache[g]]
             /\ evictedAt' = [evictedAt EXCEPT ![victim] = time]
    BY <1>2 DEF FeedNew
  <2>5. QED
    BY <2>1, <2>2, <2>3, <2>4
<1>3. QED
  BY <1>1, <1>2

\* Every other step makes no report; it keeps the entries, or counts one, or drops
\* entries that nobody has seen for a window.
LEMMA OtherSteps ==
  ASSUME DedupTypes,
         Elapse \/ Drain \/ FeedInfo \/ Gc \/ Stop \/ \E f \in Fingerprint : FeedDuplicate(f)
  PROVE  /\ time' \in Nat /\ time' >= time /\ reports' = reports /\ evictedAt' = evictedAt
         /\ DOMAIN cache' \subseteq Cached
         /\ \A g \in DOMAIN cache' : /\ cache'[g] \in [first : Nat, last : Nat, count : Nat]
                                     /\ cache'[g].first = cache[g].first
                                     /\ cache'[g].last \in {cache[g].last, time}
         /\ \A g \in Cached : g \notin DOMAIN cache' => time - cache[g].last > SuppressWindow
<1>1. CASE Elapse \/ Drain \/ FeedInfo \/ Stop
  <2>1. /\ cache' = cache /\ reports' = reports /\ evictedAt' = evictedAt
        /\ time' = time \/ time' = time + 1
    BY <1>1 DEF Elapse, Drain, FeedInfo, Stop, Fed
  <2>2. QED
    BY <2>1 DEF DedupTypes, Cached
<1>2. CASE Gc
  <2> DEFINE expired == {f \in Cached : time - cache[f].last > SuppressWindow}
  <2>1. /\ cache' = [f \in Cached \ expired |-> cache[f]]
        /\ time' = time /\ reports' = reports /\ evictedAt' = evictedAt
    BY <1>2 DEF Gc
  <2>2. DOMAIN cache' = Cached \ expired /\ \A g \in DOMAIN cache' : cache'[g] = cache[g]
    BY <2>1
  <2>3. QED
    BY <2>1, <2>2 DEF DedupTypes
<1>3. ASSUME NEW f \in Fingerprint, FeedDuplicate(f)
      PROVE  /\ time' \in Nat /\ time' >= time /\ reports' = reports /\ evictedAt' = evictedAt
             /\ DOMAIN cache' \subseteq Cached
             /\ \A g \in DOMAIN cache' : /\ cache'[g] \in [first : Nat, last : Nat, count : Nat]
                                         /\ cache'[g].first = cache[g].first
                                         /\ cache'[g].last \in {cache[g].last, time}
             /\ \A g \in Cached : g \notin DOMAIN cache' => time - cache[g].last > SuppressWindow
  <2>1. /\ time' = time /\ reports' = reports /\ evictedAt' = evictedAt /\ f \in Cached
        /\ cache' = [cache EXCEPT ![f].count = @ + 1, ![f].last = time]
    BY <1>3 DEF FeedDuplicate, Fed
  <2>2. DOMAIN cache' = Cached
    BY <2>1 DEF Cached
  <2>3. \A g \in Cached : g # f => cache'[g] = cache[g]
    BY <2>1 DEF Cached
  <2>4. /\ cache'[f] \in [first : Nat, last : Nat, count : Nat]
        /\ cache'[f].first = cache[f].first /\ cache'[f].last = time
    <3>1. PICK e \in [first : Nat, last : Nat, count : Nat] : cache[f] = e
      BY <2>1 DEF DedupTypes
    <3>2. time \in Nat /\ e.count + 1 \in Nat
      BY DEF DedupTypes
    <3>3. PICK d : d = [e EXCEPT !.count = e.count + 1]
      OBVIOUS
    <3>4. d \in [first : Nat, last : Nat, count : Nat] /\ d.first = e.first
      BY <3>2, <3>3
    <3>5. cache'[f] = [d EXCEPT !.last = time]
      BY <2>1, <3>1, <3>3 DEF Cached
    <3>6. /\ [d EXCEPT !.last = time] \in [first : Nat, last : Nat, count : Nat]
          /\ [d EXCEPT !.last = time].first = d.first /\ [d EXCEPT !.last = time].last = time
      BY <3>2, <3>4
    <3>7. QED
      BY <3>1, <3>4, <3>5, <3>6
  <2>5. time' \in Nat /\ time' >= time /\ DOMAIN cache' = Cached
    BY <2>1, <2>2 DEF DedupTypes
  <2>6. ASSUME NEW g \in Cached
        PROVE  /\ cache'[g] \in [first : Nat, last : Nat, count : Nat]
               /\ cache'[g].first = cache[g].first
               /\ cache'[g].last \in {cache[g].last, time}
    <3>1. CASE g = f
      BY <2>4, <3>1
    <3>2. CASE g # f
      BY <2>3, <3>2 DEF DedupTypes
    <3>3. QED
      BY <3>1, <3>2
  <2>7. QED
    BY <2>1, <2>5, <2>6
<1>4. QED
  BY <1>1, <1>2, <1>3

LEMMA ReportsStamped ==
  ASSUME DedupTypes
  PROVE  \A i \in DOMAIN reports : /\ reports[i].fp \in Fingerprint /\ reports[i].at \in Nat
                                   /\ reports[i].at <= time
<1>1. \A i \in DOMAIN reports : reports[i] \in Stamp
  BY DEF DedupTypes
<1>2. \A r \in Stamp : r.fp \in Fingerprint /\ r.at \in Nat
  BY DEF Stamp
<1>3. QED
  BY <1>1, <1>2 DEF DedupTypes

----------------------------------------------------------------------------
(* Rows of a fingerprint are a window apart *)

LEMMA SpacingStart == DedupInit => SpacingInv
<1> SUFFICES ASSUME DedupInit PROVE SpacingInv
  OBVIOUS
<1>1. Cached = {} /\ DOMAIN reports = {} /\ reports \in Seq(Stamp)
  BY DEF DedupInit, Cached
<1>2. evictedAt \in [Fingerprint -> Int] /\ time \in Nat
  BY DEF DedupInit
<1>3. QED
  BY <1>1, <1>2 DEF SpacingInv, DedupTypes, ReportsSpaced

LEMMA SpacingOther ==
  ASSUME SpacingInv, Elapse \/ Drain \/ FeedInfo \/ Gc \/ Stop \/ \E f \in Fingerprint : FeedDuplicate(f)
  PROVE  SpacingInv'
<1>1. /\ DedupTypes /\ ReportsSpaced
      /\ \A i \in DOMAIN reports : Remembered(reports[i])
  BY DEF SpacingInv
<1>2. /\ time' \in Nat /\ time' >= time /\ reports' = reports /\ evictedAt' = evictedAt
      /\ DOMAIN cache' \subseteq Cached
      /\ \A g \in DOMAIN cache' : /\ cache'[g] \in [first : Nat, last : Nat, count : Nat]
                                  /\ cache'[g].first = cache[g].first
                                  /\ cache'[g].last \in {cache[g].last, time}
      /\ \A g \in Cached : g \notin DOMAIN cache' => time - cache[g].last > SuppressWindow
  BY <1>1, OtherSteps
<1>3. DedupTypes'
  <2>1. time \in Nat /\ \A f \in Cached : cache[f].first \in Nat /\ cache[f].last \in Nat
    BY <1>1 DEF DedupTypes
  <2>2. Cached' \subseteq Fingerprint
    BY <1>1, <1>2 DEF DedupTypes, Cached
  <2>3. ASSUME NEW f \in Cached'
        PROVE  /\ cache'[f] \in [first : Nat, last : Nat, count : Nat]
               /\ cache'[f].first <= cache'[f].last /\ cache'[f].last <= time'
    <3>1. /\ f \in Cached /\ cache'[f] \in [first : Nat, last : Nat, count : Nat]
          /\ cache'[f].first = cache[f].first /\ cache'[f].last \in {cache[f].last, time}
      BY <1>2 DEF Cached
    <3>2. cache[f].first <= cache[f].last /\ cache[f].last <= time
      BY <1>1, <3>1 DEF DedupTypes
    <3>3. QED
      BY <1>2, <2>1, <3>1, <3>2
  <2>4. \A i \in DOMAIN reports : reports[i].at \in Nat /\ reports[i].at <= time
    BY <1>1, ReportsStamped
  <2>5. \A i \in DOMAIN reports' : reports'[i].at <= time'
    BY <1>2, <2>1, <2>4
  <2>6. reports' \in Seq(Stamp) /\ evictedAt' \in [Fingerprint -> Int] /\ time' \in Nat
    BY <1>1, <1>2 DEF DedupTypes
  <2>7. QED
    BY <2>2, <2>3, <2>5, <2>6 DEF DedupTypes
<1>4. ASSUME NEW i \in DOMAIN reports, NEW r, r = reports[i] PROVE Remembered(r)'
  <2>1. r.at \in Nat /\ r.at <= time /\ time \in Nat /\ Remembered(r)
    BY <1>1, <1>4, ReportsStamped DEF DedupTypes
  <2>2. CASE evictedAt[r.fp] >= r.at
    BY <1>2, <2>2 DEF Remembered
  <2>3. CASE r.fp \in Cached /\ r.at <= cache[r.fp].first
    <3>1. CASE r.fp \in DOMAIN cache'
      BY <1>2, <2>3, <3>1 DEF Remembered, Cached
    <3>2. CASE r.fp \notin DOMAIN cache'
      <4>1. /\ time - cache[r.fp].last > SuppressWindow /\ cache[r.fp].first <= cache[r.fp].last
            /\ cache[r.fp].first \in Nat /\ cache[r.fp].last \in Nat
        BY <1>1, <1>2, <2>3, <3>2 DEF DedupTypes
      <4>2. time' - r.at >= SuppressWindow
        BY <1>2, <2>1, <2>3, <4>1, DedupAssumption
      <4>3. QED
        BY <3>2, <4>2 DEF Remembered, Cached
    <3>3. QED
      BY <3>1, <3>2
  <2>4. CASE r.fp \notin Cached /\ time - r.at >= SuppressWindow
    <3>1. r.fp \notin DOMAIN cache'
      BY <1>2, <2>4
    <3>2. time' - r.at >= SuppressWindow
      BY <1>2, <2>1, <2>4, DedupAssumption
    <3>3. QED
      BY <3>1, <3>2 DEF Remembered, Cached
  <2>5. QED
    BY <2>1, <2>2, <2>3, <2>4 DEF Remembered
<1>5. \A i \in DOMAIN reports' : Remembered(reports[i])'
  <2>1. SUFFICES ASSUME NEW i \in DOMAIN reports PROVE Remembered(reports[i])'
    BY <1>2
  <2>2. PICK r : r = reports[i]
    OBVIOUS
  <2>3. Remembered(r)' /\ r = reports'[i]
    BY <1>2, <1>4, <2>2
  <2>4. QED
    BY <2>3 DEF Remembered
<1>6. ReportsSpaced'
  BY <1>1, <1>2 DEF ReportsSpaced
<1>7. QED
  BY <1>3, <1>5, <1>6 DEF SpacingInv

LEMMA SpacingReport ==
  ASSUME SpacingInv, NEW f \in Fingerprint, FeedExpired(f) \/ FeedNew(f)
  PROVE  SpacingInv'
<1>1. /\ DedupTypes /\ ReportsSpaced
      /\ \A i \in DOMAIN reports : Remembered(reports[i])
  BY DEF SpacingInv
<1>2. /\ time' = time
      /\ f \in Cached => time - cache[f].first >= SuppressWindow /\ evictedAt' = evictedAt
      /\ DOMAIN cache' \subseteq Cached \cup {f}
      /\ f \in DOMAIN cache' /\ cache'[f] = FreshEntry
      /\ \A g \in DOMAIN cache' : g # f => cache'[g] = cache[g]
      /\ evictedAt' \in [Fingerprint -> Int]
      /\ \A g \in Cached : g \notin DOMAIN cache' => evictedAt'[g] = time
      /\ \A g \in Fingerprint : evictedAt'[g] \in {evictedAt[g], time}
      /\ f \notin Cached => evictedAt'[f] = evictedAt[f]
  BY <1>1, FeedReports
<1>3. PICK n \in Nat : reports' = Append(reports, [fp |-> f, at |-> time, dups |-> n])
  BY <1>1, FeedReports
<1> DEFINE k == Len(reports) + 1
<1>4. time \in Nat /\ \E new \in Stamp : new = [fp |-> f, at |-> time, dups |-> n]
  BY <1>1 DEF DedupTypes, Stamp
<1>5. PICK new \in Stamp : new = [fp |-> f, at |-> time, dups |-> n]
  BY <1>4
<1>6. new.fp = f /\ new.at = time
  BY <1>5
<1>7. /\ reports' \in Seq(Stamp) /\ reports'[k] = new
      /\ \A i \in DOMAIN reports' : i = k \/ (i \in DOMAIN reports /\ i < k /\ reports'[i] = reports[i])
  <2>1. reports \in Seq(Stamp) /\ reports' = Append(reports, new)
    BY <1>1, <1>3, <1>5 DEF DedupTypes
  <2>2. QED
    BY <2>1
<1>8. \A i \in DOMAIN reports : /\ reports[i].fp \in Fingerprint /\ reports[i].at \in Nat
                               /\ reports[i].at <= time
  BY <1>1, ReportsStamped
<1> HIDE DEF k
<1>9. DedupTypes'
  <2>1. FreshEntry \in [first : Nat, last : Nat, count : Nat] /\ FreshEntry.first = time /\ FreshEntry.last = time
    BY <1>4 DEF FreshEntry
  <2>2. Cached' \subseteq Fingerprint
    BY <1>1, <1>2 DEF DedupTypes, Cached
  <2>3. ASSUME NEW g \in Cached'
        PROVE  /\ cache'[g] \in [first : Nat, last : Nat, count : Nat]
               /\ cache'[g].first <= cache'[g].last /\ cache'[g].last <= time'
    <3>1. CASE g = f
      BY <1>2, <1>4, <2>1, <3>1
    <3>2. CASE g # f
      <4>1. g \in Cached /\ cache'[g] = cache[g]
        BY <1>2, <3>2 DEF Cached
      <4>2. QED
        BY <1>1, <1>2, <4>1 DEF DedupTypes
    <3>3. QED
      BY <3>1, <3>2
  <2>4. \A i \in DOMAIN reports' : reports'[i].at <= time'
    BY <1>2, <1>4, <1>7, <1>8, <1>6
  <2>5. QED
    BY <1>2, <1>4, <1>7, <2>2, <2>3, <2>4 DEF DedupTypes
<1>10. ASSUME NEW i \in DOMAIN reports, NEW r, r = reports[i] PROVE Remembered(r)'
  <2>1. r.fp \in Fingerprint /\ r.at \in Nat /\ r.at <= time /\ Remembered(r)
    BY <1>1, <1>8, <1>10
  <2>2. evictedAt[r.fp] \in Int
    BY <1>1, <2>1 DEF DedupTypes
  <2>3. CASE evictedAt[r.fp] >= r.at
    <3>1. evictedAt'[r.fp] >= r.at
      BY <1>2, <1>4, <2>1, <2>2, <2>3
    <3>2. QED
      BY <3>1 DEF Remembered
  <2>4. CASE r.fp = f
    BY <1>2, <2>1, <2>4 DEF Remembered, Cached, FreshEntry
  <2>5. CASE r.fp # f /\ r.fp \in Cached /\ r.at <= cache[r.fp].first
    <3>1. CASE r.fp \in DOMAIN cache'
      BY <1>2, <2>5, <3>1 DEF Remembered, Cached
    <3>2. CASE r.fp \notin DOMAIN cache'
      <4>1. evictedAt'[r.fp] >= r.at
        BY <1>2, <1>4, <2>1, <2>5, <3>2
      <4>2. QED
        BY <4>1 DEF Remembered
    <3>3. QED
      BY <3>1, <3>2
  <2>6. CASE r.fp # f /\ r.fp \notin Cached /\ time - r.at >= SuppressWindow
    <3>1. r.fp \notin DOMAIN cache'
      BY <1>2, <2>6
    <3>2. QED
      BY <1>2, <2>6, <3>1 DEF Remembered, Cached
  <2>7. QED
    BY <2>1, <2>3, <2>4, <2>5, <2>6 DEF Remembered
<1>11. Remembered(new)'
  BY <1>2, <1>4, <1>6 DEF Remembered, Cached, FreshEntry
<1>12. \A i \in DOMAIN reports' : Remembered(reports[i])'
  <2>1. SUFFICES ASSUME NEW i \in DOMAIN reports' PROVE Remembered(reports[i])'
    OBVIOUS
  <2>2. PICK r : r = reports'[i]
    OBVIOUS
  <2>3. Remembered(r)'
    <3>1. CASE i = k
      BY <1>7, <1>11, <2>2, <3>1
    <3>2. CASE i # k
      BY <1>7, <1>10, <2>2, <3>2
    <3>3. QED
      BY <3>1, <3>2
  <2>4. QED
    BY <2>2, <2>3 DEF Remembered
<1>13. ASSUME NEW i \in DOMAIN reports, reports[i].fp = f
       PROVE  time - reports[i].at >= SuppressWindow \/ evictedAt'[f] >= reports[i].at
  <2>1. Remembered(reports[i]) /\ reports[i].at \in Nat
    BY <1>1, <1>8
  <2>2. CASE f \in Cached /\ reports[i].at <= cache[f].first
    <3>1. time - cache[f].first >= SuppressWindow /\ cache[f].first \in Nat
      BY <1>1, <1>2, <2>2 DEF DedupTypes
    <3>2. QED
      BY <1>4, <2>1, <2>2, <3>1, DedupAssumption
  <2>3. CASE f \notin Cached /\ time - reports[i].at >= SuppressWindow
    BY <2>3
  <2>4. CASE evictedAt[f] >= reports[i].at
    BY <1>2, <2>4
  <2>5. QED
    BY <1>13, <2>1, <2>2, <2>3, <2>4 DEF Remembered
<1>14. ReportsSpaced'
  <2>1. SUFFICES ASSUME NEW i \in DOMAIN reports', NEW j \in DOMAIN reports',
                        i < j, reports'[i].fp = reports'[j].fp
                 PROVE  \/ reports'[j].at - reports'[i].at >= SuppressWindow
                        \/ evictedAt'[reports'[i].fp] >= reports'[i].at
    BY DEF ReportsSpaced
  <2>2. i \in Nat /\ j \in Nat /\ k \in Nat
    BY <1>1, <1>7, <2>1 DEF k, DedupTypes
  <2>3. i # k
    BY <1>7, <2>1, <2>2
  <2>4. i \in DOMAIN reports /\ reports'[i] = reports[i]
    BY <1>7, <2>1, <2>3
  <2>5. CASE j = k
    BY <1>4, <1>7, <1>13, <1>6, <2>1, <2>4, <2>5
  <2>6. CASE j # k
    <3>1. j \in DOMAIN reports /\ reports'[j] = reports[j]
      BY <1>7, <2>1, <2>6
    <3>2. \/ reports[j].at - reports[i].at >= SuppressWindow
          \/ evictedAt[reports[i].fp] >= reports[i].at
      BY <1>1, <2>1, <2>4, <3>1 DEF ReportsSpaced
    <3>3. /\ evictedAt'[reports[i].fp] \in {evictedAt[reports[i].fp], time}
          /\ reports[i].at \in Nat /\ reports[i].at <= time
      BY <1>2, <1>8, <2>4
    <3>4. QED
      BY <1>4, <2>4, <3>1, <3>2, <3>3
  <2>7. QED
    BY <2>5, <2>6
<1>15. QED
  BY <1>9, <1>12, <1>14 DEF SpacingInv

LEMMA SpacingStep == SpacingInv /\ [DedupNext]_dedupVars => SpacingInv'
<1>1. ASSUME SpacingInv, DedupNext PROVE SpacingInv'
  <2>1. CASE \E f \in Fingerprint : FeedExpired(f) \/ FeedNew(f)
    BY <1>1, <2>1, SpacingReport
  <2>2. CASE Elapse \/ Drain \/ FeedInfo \/ Gc \/ Stop \/ \E f \in Fingerprint : FeedDuplicate(f)
    BY <1>1, <2>2, SpacingOther
  <2>3. QED
    BY <1>1, <2>1, <2>2 DEF DedupNext
<1>2. ASSUME SpacingInv, UNCHANGED dedupVars PROVE SpacingInv'
  BY <1>2 DEF dedupVars, SpacingInv, DedupTypes, Remembered, ReportsSpaced, Cached
<1>3. QED
  BY <1>1, <1>2

\* internal/dedup lets a fingerprint through once per suppression window, however calls
\* of Feed, the garbage collector and Stop interleave; only an eviction for room makes
\* it forget.
THEOREM DuplicatesAreSpaced == DedupSpec => []ReportsSpaced
<1>1. SpacingInv => ReportsSpaced
  BY DEF SpacingInv
<1>2. QED
  BY <1>1, SpacingStart, SpacingStep, PTL DEF DedupSpec

----------------------------------------------------------------------------
(* The cache is bounded *)

LEMMA BoundStep == CacheBounded /\ [DedupNext]_dedupVars => CacheBounded'
<1> SUFFICES ASSUME CacheBounded, [DedupNext]_dedupVars PROVE CacheBounded'
  OBVIOUS
<1>1. ASSUME DOMAIN cache' \subseteq Cached PROVE CacheBounded'
  <2>1. IsFiniteSet(DOMAIN cache') /\ Cardinality(DOMAIN cache') <= Cardinality(Cached)
    BY <1>1, FS_Subset DEF CacheBounded
  <2>2. Cardinality(DOMAIN cache') \in Nat /\ Cardinality(Cached) \in Nat
    BY <2>1, FS_CardinalityType DEF CacheBounded
  <2>3. QED
    BY <2>1, <2>2, DedupAssumption DEF CacheBounded, Cached
<1>2. ASSUME NEW f \in Fingerprint, FeedNew(f) PROVE CacheBounded'
  <2>1. IsFiniteSet(Cached) /\ Cardinality(Cached) \in Nat /\ Cardinality(Cached) <= MaxCacheSize /\ f \notin Cached
    BY <1>2, FS_CardinalityType DEF CacheBounded, FeedNew
  <2>2. CASE Cardinality(Cached) < MaxCacheSize
    <3>1. DOMAIN cache' = Cached \cup {f}
      BY <1>2, <2>2 DEF FeedNew
    <3>2. IsFiniteSet(Cached \cup {f}) /\ Cardinality(Cached \cup {f}) = Cardinality(Cached) + 1
      BY <2>1, FS_AddElement
    <3>3. QED
      BY <2>1, <2>2, <3>1, <3>2, DedupAssumption DEF CacheBounded, Cached
  <2>3. ASSUME NEW victim \in OldestEntries, DOMAIN cache' = (Cached \ {victim}) \cup {f}
        PROVE  CacheBounded'
    <3> DEFINE rest == Cached \ {victim}
    <3>1. victim \in Cached
      BY DEF OldestEntries
    <3>2. IsFiniteSet(rest) /\ Cardinality(rest) = Cardinality(Cached) - 1 /\ f \notin rest
      BY <2>1, <3>1, FS_RemoveElement
    <3> HIDE DEF rest
    <3>3. IsFiniteSet(rest \cup {f}) /\ Cardinality(rest \cup {f}) = Cardinality(rest) + 1
      BY <3>2, FS_AddElement
    <3>4. DOMAIN cache' = rest \cup {f}
      BY <2>3 DEF rest
    <3>5. QED
      BY <2>1, <3>2, <3>3, <3>4, DedupAssumption DEF CacheBounded, Cached
  <2>4. CASE ~ (Cardinality(Cached) < MaxCacheSize)
    <3>1. PICK victim \in OldestEntries :
             cache' = [g \in (Cached \ {victim}) \cup {f} |-> IF g = f THEN FreshEntry ELSE cache[g]]
      BY <1>2, <2>4 DEF FeedNew
    <3>2. DOMAIN cache' = (Cached \ {victim}) \cup {f}
      BY <3>1
    <3>3. QED
      BY <2>3, <3>2
  <2>5. QED
    BY <2>2, <2>4
<1>3. CASE Gc
  BY <1>1, <1>3 DEF Gc, Cached
<1>4. ASSUME NEW f \in Fingerprint, FeedDuplicate(f) \/ FeedExpired(f) PROVE CacheBounded'
  BY <1>1, <1>4 DEF FeedDuplicate, FeedExpired, Cached
<1>5. CASE cache' = cache
  BY <1>1, <1>5 DEF Cached
<1>6. QED
  BY <1>2, <1>3, <1>4, <1>5 DEF DedupNext, Elapse, Drain, FeedInfo, Stop, dedupVars

\* MaxCacheSize bounds the memory of the deduplicator: a new fingerprint first makes
\* room, and nothing else grows the cache.
THEOREM CacheStaysBounded == DedupSpec => []CacheBounded
<1>1. DedupInit => CacheBounded
  <2>1. DedupInit => Cached = {}
    BY DEF DedupInit, Cached
  <2>2. QED
    BY <2>1, FS_EmptySet, DedupAssumption DEF CacheBounded
<1>2. QED
  BY <1>1, BoundStep, PTL DEF DedupSpec

----------------------------------------------------------------------------
(* Totals *)

\* What a total counts of the arguments in S.
Things(counts, S) == UNION {{x} \X (1..counts[x]) : x \in S}

LEMMA ThingsAre ==
  ASSUME NEW c, NEW S, NEW p
  PROVE  p \in Things(c, S) <=> \E x \in S : \E k \in 1..c[x] : p = <<x, k>>
<1>1. p \in Things(c, S) <=> \E x \in S : p \in {x} \X (1..c[x])
  BY DEF Things
<1>2. \A x : p \in {x} \X (1..c[x]) <=> \E k \in 1..c[x] : p = <<x, k>>
  OBVIOUS
<1>3. QED
  BY <1>1, <1>2

LEMMA ThingsAreFinite ==
  ASSUME NEW c, NEW S, IsFiniteSet(S), \A x \in S : c[x] \in Nat
  PROVE  IsFiniteSet(Things(c, S))
<1> DEFINE Of(x) == {x} \X (1..c[x])
           all == {Of(x) : x \in S}
           f == [x \in S |-> Of(x)]
<1>1. ASSUME NEW x \in S PROVE IsFiniteSet(Of(x))
  <2>1. IsFiniteSet({x})
    BY FS_Singleton
  <2>2. IsFiniteSet(1..c[x])
    BY FS_Interval
  <2>3. QED
    BY <2>1, <2>2, FS_Product
<1> HIDE DEF Of
<1>2. f \in Surjection(S, all)
  BY DEF Surjection
<1>3. IsFiniteSet(all)
  <2> HIDE DEF f, all
  <2>1. QED
    BY <1>2, FS_Surjection
<1>4. \A T \in all : IsFiniteSet(T)
  BY <1>1
<1>5. IsFiniteSet(UNION all)
  <2> HIDE DEF f, all
  <2>1. QED
    BY <1>3, <1>4, FS_UNION
<1>6. QED
  BY <1>5 DEF Things, Of

\* A total is the sum of two that share the arguments between them.
LEMMA TotalSplits ==
  ASSUME NEW c, IsFiniteSet(DOMAIN c), \A x \in DOMAIN c : c[x] \in Nat,
         NEW a, NEW b, DOMAIN c = DOMAIN a \cup DOMAIN b, DOMAIN a \cap DOMAIN b = {},
         \A x \in DOMAIN a : a[x] = c[x], \A x \in DOMAIN b : b[x] = c[x]
  PROVE  Total(a) \in Nat /\ Total(b) \in Nat /\ Total(c) = Total(a) + Total(b)
<1>1. PICK ta : ta = Things(a, DOMAIN a)
  OBVIOUS
<1>2. PICK tb : tb = Things(b, DOMAIN b)
  OBVIOUS
<1>3. PICK tc : tc = Things(c, DOMAIN c)
  OBVIOUS
<1>4. Total(a) = Cardinality(ta) /\ Total(b) = Cardinality(tb) /\ Total(c) = Cardinality(tc)
  BY <1>1, <1>2, <1>3 DEF Total, Things
<1>5. IsFiniteSet(DOMAIN a) /\ IsFiniteSet(DOMAIN b)
  BY FS_Subset
<1>6. IsFiniteSet(ta) /\ IsFiniteSet(tb)
  BY <1>1, <1>2, <1>5, ThingsAreFinite
<1>7. \A p : p \in ta <=> \E x \in DOMAIN a : \E k \in 1..c[x] : p = <<x, k>>
  BY <1>1, ThingsAre
<1>8. \A p : p \in tb <=> \E x \in DOMAIN b : \E k \in 1..c[x] : p = <<x, k>>
  BY <1>2, ThingsAre
<1>9. \A p : p \in tc <=> \E x \in DOMAIN c : \E k \in 1..c[x] : p = <<x, k>>
  BY <1>3, ThingsAre
<1>10. tc = ta \cup tb
  <2>1. ASSUME NEW p PROVE p \in tc <=> p \in ta \/ p \in tb
    BY <1>7, <1>8, <1>9
  <2>2. QED
    BY <2>1
<1>11. ta \cap tb = {}
  <2>1. ASSUME NEW p, p \in ta, p \in tb PROVE FALSE
    <3>1. PICK x \in DOMAIN a : \E k \in 1..c[x] : p = <<x, k>>
      BY <1>7, <2>1
    <3>2. PICK y \in DOMAIN b : \E k \in 1..c[y] : p = <<y, k>>
      BY <1>8, <2>1
    <3>3. x = y
      BY <3>1, <3>2
    <3>4. QED
      BY <3>3
  <2>2. QED
    BY <2>1
<1>12. Cardinality(ta) \in Nat /\ Cardinality(tb) \in Nat /\ Cardinality({}) = 0
  BY <1>6, FS_CardinalityType, FS_EmptySet
<1>13. Cardinality(ta \cup tb) = Cardinality(ta) + Cardinality(tb) - Cardinality(ta \cap tb)
  BY <1>6, FS_Union
<1>14. PICK m : m = Cardinality(ta)
  OBVIOUS
<1>15. PICK n : n = Cardinality(tb)
  OBVIOUS
<1>16. Cardinality(tc) = m + n - 0
  BY <1>10, <1>11, <1>12, <1>13, <1>14, <1>15
<1>17. m \in Nat /\ n \in Nat /\ m + n - 0 = m + n
  BY <1>12, <1>14, <1>15
<1>18. QED
  BY <1>4, <1>14, <1>15, <1>16, <1>17

LEMMA TotalOfOne ==
  ASSUME NEW c, NEW x, DOMAIN c = {x}, c[x] \in Nat
  PROVE  Total(c) = c[x]
<1>1. Total(c) = Cardinality({x} \X (1..c[x]))
  BY DEF Total
<1>2. IsFiniteSet({x}) /\ Cardinality({x}) = 1
  BY FS_Singleton
<1>3. IsFiniteSet(1..c[x]) /\ Cardinality(1..c[x]) = c[x]
  BY FS_Interval
<1>4. Cardinality({x} \X (1..c[x])) = Cardinality({x}) * Cardinality(1..c[x])
  BY <1>2, <1>3, FS_Product
<1>5. PICK n : n = c[x]
  OBVIOUS
<1>6. 1 * n = n
  BY <1>5
<1>7. QED
  BY <1>1, <1>2, <1>3, <1>4, <1>5, <1>6

\* The total of all but one, and that one.
LEMMA TotalWithOne ==
  ASSUME NEW c, IsFiniteSet(DOMAIN c), \A x \in DOMAIN c : c[x] \in Nat, NEW x \in DOMAIN c,
         NEW rest, DOMAIN rest = DOMAIN c \ {x}, \A y \in DOMAIN rest : rest[y] = c[y]
  PROVE  Total(rest) \in Nat /\ Total(c) = Total(rest) + c[x]
<1>1. PICK one : one = [y \in {x} |-> c[y]]
  OBVIOUS
<1>2. DOMAIN one = {x} /\ one[x] = c[x] /\ c[x] \in Nat
  BY <1>1
<1>3. Total(one) = c[x]
  BY <1>2, TotalOfOne
<1>4. Total(rest) \in Nat /\ Total(c) = Total(rest) + Total(one)
  BY <1>2, TotalSplits
<1>5. QED
  BY <1>3, <1>4

\* One value is changed.
LEMMA TotalWithOther ==
  ASSUME NEW c, IsFiniteSet(DOMAIN c), \A x \in DOMAIN c : c[x] \in Nat, NEW x \in DOMAIN c,
         NEW d, DOMAIN d = DOMAIN c, d[x] \in Nat, \A y \in DOMAIN c : y # x => d[y] = c[y]
  PROVE  \E n \in Nat : Total(c) = n + c[x] /\ Total(d) = n + d[x]
<1>1. PICK rest : rest = [y \in DOMAIN c \ {x} |-> c[y]]
  OBVIOUS
<1>2. DOMAIN rest = DOMAIN c \ {x} /\ \A y \in DOMAIN rest : rest[y] = c[y] /\ rest[y] = d[y]
  BY <1>1
<1>3. Total(rest) \in Nat /\ Total(c) = Total(rest) + c[x]
  BY <1>2, TotalWithOne
<1>4. \A y \in DOMAIN d : d[y] \in Nat
  OBVIOUS
<1>5. Total(d) = Total(rest) + d[x]
  BY <1>2, <1>4, TotalWithOne
<1>6. QED
  BY <1>3, <1>5

LEMMA TotalIsNat ==
  ASSUME NEW c, IsFiniteSet(DOMAIN c), \A x \in DOMAIN c : c[x] \in Nat
  PROVE  Total(c) \in Nat
<1>1. IsFiniteSet(Things(c, DOMAIN c))
  BY ThingsAreFinite
<1>2. QED
  BY <1>1, FS_CardinalityType DEF Total, Things

\* Nothing is counted where there is nothing.
LEMMA TotalOfNone ==
  ASSUME NEW c, DOMAIN c = {}
  PROVE  Total(c) = 0
<1>1. UNION {{x} \X (1..c[x]) : x \in DOMAIN c} = {}
  OBVIOUS
<1>2. QED
  BY <1>1, FS_EmptySet DEF Total

----------------------------------------------------------------------------
(* The counts add up *)

\* What reports and cached entries count.
InReports == [i \in DOMAIN reports |-> IF reports[i].dups > 0 THEN reports[i].dups - 1 ELSE 0]
InCache == [f \in Cached |-> cache[f].count]

CountsInv == suppressed \in Nat /\ forgotten \in Nat /\ CountsConserved

\* The totals are of finitely many natural numbers.
LEMMA CountsAreNat ==
  ASSUME DedupTypes, CacheBounded
  PROVE  /\ DOMAIN InCache = Cached /\ IsFiniteSet(DOMAIN InCache)
         /\ \A f \in DOMAIN InCache : InCache[f] = cache[f].count /\ InCache[f] \in Nat
         /\ DOMAIN InReports = 1..Len(reports) /\ IsFiniteSet(DOMAIN InReports) /\ Len(reports) \in Nat
         /\ \A i \in DOMAIN InReports : InReports[i] \in Nat
<1>1. DOMAIN InCache = Cached /\ IsFiniteSet(Cached)
  BY DEF InCache, CacheBounded
<1>2. \A f \in Cached : InCache[f] = cache[f].count /\ cache[f].count \in Nat
  BY DEF InCache, DedupTypes
<1>3. reports \in Seq(Stamp) /\ Len(reports) \in Nat /\ DOMAIN reports = 1..Len(reports)
  BY DEF DedupTypes
<1>4. DOMAIN InReports = 1..Len(reports)
  BY <1>3 DEF InReports
<1>5. IsFiniteSet(1..Len(reports))
  BY <1>3, FS_Interval
<1>6. ASSUME NEW i \in DOMAIN reports PROVE InReports[i] \in Nat
  <2>1. reports[i] \in Stamp
    BY <1>3
  <2>2. PICK d : d = reports[i].dups
    OBVIOUS
  <2>3. d \in Nat
    BY <2>1, <2>2 DEF Stamp
  <2>4. (IF d > 0 THEN d - 1 ELSE 0) \in Nat
    BY <2>3
  <2>5. QED
    BY <2>2, <2>4 DEF InReports
<1>7. QED
  BY <1>1, <1>2, <1>3, <1>4, <1>5, <1>6

\* A report adds to the reports' total what it carries.
LEMMA ReportCounted ==
  ASSUME DedupTypes, CacheBounded, NEW r \in Stamp, reports' = Append(reports, r)
  PROVE  /\ Total(InReports) \in Nat
         /\ Total(InReports') = Total(InReports) + (IF r.dups > 0 THEN r.dups - 1 ELSE 0)
<1>1. PICK n : n = Len(reports) + 1
  OBVIOUS
<1>2. /\ DOMAIN InReports = 1..Len(reports) /\ IsFiniteSet(DOMAIN InReports) /\ Len(reports) \in Nat
      /\ \A i \in DOMAIN InReports : InReports[i] \in Nat
  BY CountsAreNat
<1>3. n \in Nat /\ 1..Len(reports) = (1..n) \ {n} /\ n \in 1..n
  BY <1>1, <1>2
<1>4. /\ DOMAIN reports' = 1..n /\ reports'[n] = r
      /\ \A i \in (1..n) \ {n} : reports'[i] = reports[i]
  <2>1. reports \in Seq(Stamp)
    BY DEF DedupTypes
  <2>2. QED
    BY <1>1, <2>1
<1>5. PICK old : old = InReports
  OBVIOUS
<1>6. PICK new : new = InReports'
  OBVIOUS
<1>7. PICK v : v = (IF r.dups > 0 THEN r.dups - 1 ELSE 0)
  OBVIOUS
<1>8. v \in Nat
  <2>1. r.dups \in Nat
    BY DEF Stamp
  <2>2. QED
    BY <1>7, <2>1
<1>9. DOMAIN new = 1..n /\ new[n] = v
  BY <1>3, <1>4, <1>6, <1>7 DEF InReports
<1>10. DOMAIN old = DOMAIN new \ {n}
  BY <1>2, <1>3, <1>5, <1>9
<1>11. ASSUME NEW i \in DOMAIN old PROVE old[i] = new[i]
  <2>1. i \in (1..n) \ {n} /\ i \in DOMAIN reports
    BY <1>5, <1>9, <1>10 DEF InReports
  <2>2. reports'[i] = reports[i] /\ i \in DOMAIN reports'
    BY <1>4, <2>1
  <2>3. QED
    BY <1>5, <1>6, <2>1, <2>2 DEF InReports
<1>12. IsFiniteSet(DOMAIN new)
  BY <1>3, <1>9, FS_Interval
<1>13. \A i \in DOMAIN new : new[i] \in Nat
  <2>1. TAKE i \in DOMAIN new
  <2>2. CASE i = n
    BY <1>8, <1>9, <2>2
  <2>3. CASE i # n
    BY <1>2, <1>5, <1>10, <1>11, <2>3
  <2>4. QED
    BY <2>2, <2>3
<1>14. Total(old) \in Nat /\ Total(new) = Total(old) + new[n]
  BY <1>3, <1>9, <1>10, <1>11, <1>12, <1>13, TotalWithOne
<1>15. QED
  BY <1>5, <1>6, <1>7, <1>9, <1>14

\* A suppressed event is counted by its entry.
LEMMA SuppressedIsCounted ==
  ASSUME DedupTypes, CacheBounded, CountsInv, NEW f \in Fingerprint, FeedDuplicate(f)
  PROVE  CountsInv'
<1>1. PICK old : old = InCache
  OBVIOUS
<1>2. PICK new : new = InCache'
  OBVIOUS
<1>3. DOMAIN old = Cached /\ IsFiniteSet(DOMAIN old) /\ \A g \in DOMAIN old : old[g] = cache[g].count /\ old[g] \in Nat
  BY <1>1, CountsAreNat
<1>4. /\ f \in Cached /\ suppressed' = suppressed + 1 /\ reports' = reports /\ forgotten' = forgotten
      /\ cache' = [cache EXCEPT ![f].count = @ + 1, ![f].last = time]
  BY DEF FeedDuplicate
<1>5. DOMAIN cache' = Cached /\ \A g \in Cached : g # f => cache'[g] = cache[g]
  BY <1>4 DEF Cached
<1>6. cache'[f].count = cache[f].count + 1
  <2>1. PICK e \in [first : Nat, last : Nat, count : Nat] : cache[f] = e
    BY <1>4 DEF DedupTypes
  <2>2. time \in Nat /\ e.count + 1 \in Nat
    BY <2>1 DEF DedupTypes
  <2>3. PICK d : d = [e EXCEPT !.count = e.count + 1]
    OBVIOUS
  <2>4. d \in [first : Nat, last : Nat, count : Nat] /\ d.count = e.count + 1
    BY <2>2, <2>3
  <2>5. cache'[f] = [d EXCEPT !.last = time]
    BY <1>4, <2>1, <2>3 DEF Cached
  <2>6. QED
    BY <2>1, <2>4, <2>5
<1>7. /\ DOMAIN new = DOMAIN old /\ new[f] = old[f] + 1 /\ new[f] \in Nat
      /\ \A g \in DOMAIN old : g # f => new[g] = old[g]
  BY <1>2, <1>3, <1>4, <1>5, <1>6 DEF InCache, Cached
<1>8. PICK n \in Nat : Total(old) = n + old[f] /\ Total(new) = n + new[f]
  BY <1>3, <1>4, <1>7, TotalWithOther
<1>9. old[f] \in Nat
  BY <1>3, <1>4
<1>10. Total(new) = Total(old) + 1 /\ Total(old) \in Nat
  BY <1>7, <1>8, <1>9
<1>11. InReports' = InReports
  BY <1>4 DEF InReports
<1>12. PICK r : r = Total(InReports)
  OBVIOUS
<1>13. suppressed = r + Total(old) + forgotten /\ suppressed \in Nat /\ forgotten \in Nat
  BY <1>1, <1>12 DEF CountsInv, CountsConserved, InReports, InCache
<1>14. r \in Nat
  <2>1. \A i \in DOMAIN InReports : InReports[i] \in Nat
    BY CountsAreNat
  <2>2. IsFiniteSet(DOMAIN InReports)
    BY CountsAreNat
  <2>3. QED
    BY <1>12, <2>1, <2>2, TotalIsNat
<1>15. suppressed + 1 = r + Total(new) + forgotten /\ suppressed + 1 \in Nat
  BY <1>10, <1>13, <1>14
<1>16. suppressed' = Total(InReports') + Total(InCache') + forgotten'
  BY <1>2, <1>4, <1>11, <1>12, <1>15
<1>17. CountsConserved'
  BY <1>16 DEF CountsConserved, InReports, InCache
<1>18. QED
  BY <1>4, <1>13, <1>15, <1>17 DEF CountsInv

\* A report takes its entry's count with it.
LEMMA CarriedByTheReport ==
  ASSUME DedupTypes, CacheBounded, CountsInv, NEW f \in Fingerprint, FeedExpired(f)
  PROVE  CountsInv'
<1>1. PICK old : old = InCache
  OBVIOUS
<1>2. PICK new : new = InCache'
  OBVIOUS
<1>3. DOMAIN old = Cached /\ IsFiniteSet(DOMAIN old) /\ \A g \in DOMAIN old : old[g] = cache[g].count /\ old[g] \in Nat
  BY <1>1, CountsAreNat
<1>4. /\ f \in Cached /\ suppressed' = suppressed /\ forgotten' = forgotten
      /\ cache' = [cache EXCEPT ![f] = FreshEntry]
      /\ reports' = Append(reports, [fp |-> f, at |-> time, dups |-> cache[f].count + 1])
  BY DEF FeedExpired, PassOn
<1>5. /\ DOMAIN new = DOMAIN old /\ new[f] = 0 /\ new[f] \in Nat
      /\ \A g \in DOMAIN old : g # f => new[g] = old[g]
  BY <1>2, <1>3, <1>4 DEF InCache, Cached, FreshEntry
<1>6. PICK n \in Nat : Total(old) = n + old[f] /\ Total(new) = n + new[f]
  BY <1>3, <1>4, <1>5, TotalWithOther
<1>7. PICK v : v = old[f]
  OBVIOUS
<1>8. v \in Nat /\ v = cache[f].count
  BY <1>3, <1>4, <1>7
<1>9. PICK r : r = [fp |-> f, at |-> time, dups |-> v + 1]
  OBVIOUS
<1>10. r \in Stamp /\ r.dups = v + 1 /\ reports' = Append(reports, r)
  BY <1>4, <1>8, <1>9 DEF Stamp, DedupTypes
<1>11. Total(InReports) \in Nat /\ Total(InReports') = Total(InReports) + (IF r.dups > 0 THEN r.dups - 1 ELSE 0)
  BY <1>10, ReportCounted
<1>12. (IF r.dups > 0 THEN r.dups - 1 ELSE 0) = v
  <2>1. PICK d : d = r.dups
    OBVIOUS
  <2>2. d = v + 1
    BY <1>10, <2>1
  <2>3. (IF d > 0 THEN d - 1 ELSE 0) = v
    BY <1>8, <2>2
  <2>4. QED
    BY <2>1, <2>3
<1>13. PICK q : q = Total(InReports)
  OBVIOUS
<1>14. suppressed = q + Total(old) + forgotten /\ suppressed \in Nat /\ forgotten \in Nat
  BY <1>1, <1>13 DEF CountsInv, CountsConserved, InReports, InCache
<1>15. q \in Nat
  BY <1>11, <1>13
<1>16. suppressed = (q + v) + Total(new) + forgotten
  <2>1. Total(old) = n + v /\ Total(new) = n
    BY <1>5, <1>6, <1>7
  <2>2. q + (n + v) + forgotten = (q + v) + n + forgotten
    BY <1>8, <1>14, <1>15
  <2>3. QED
    BY <1>14, <2>1, <2>2
<1>17. suppressed' = Total(InReports') + Total(InCache') + forgotten'
  BY <1>2, <1>4, <1>11, <1>12, <1>13, <1>16
<1>18. CountsConserved'
  BY <1>17 DEF CountsConserved, InReports, InCache
<1>19. QED
  BY <1>4, <1>14, <1>18 DEF CountsInv

\* A first report carries nothing; what is evicted for it is forgotten with its count.
LEMMA ForgottenByEviction ==
  ASSUME DedupTypes, CacheBounded, CountsInv, NEW f \in Fingerprint, FeedNew(f)
  PROVE  CountsInv'
<1>1. PICK old : old = InCache
  OBVIOUS
<1>2. PICK new : new = InCache'
  OBVIOUS
<1>3. DOMAIN old = Cached /\ IsFiniteSet(DOMAIN old) /\ \A g \in DOMAIN old : old[g] = cache[g].count /\ old[g] \in Nat
  BY <1>1, CountsAreNat
<1>4. /\ f \notin Cached /\ suppressed' = suppressed
      /\ reports' = Append(reports, [fp |-> f, at |-> time, dups |-> 0])
  BY DEF FeedNew, PassOn
<1>5. PICK r : r = [fp |-> f, at |-> time, dups |-> 0]
  OBVIOUS
<1>6. r \in Stamp /\ r.dups = 0 /\ reports' = Append(reports, r)
  BY <1>4, <1>5 DEF Stamp, DedupTypes
<1>7. Total(InReports) \in Nat /\ Total(InReports') = Total(InReports) + (IF r.dups > 0 THEN r.dups - 1 ELSE 0)
  BY <1>6, ReportCounted
<1>8. Total(InReports') = Total(InReports)
  BY <1>6, <1>7
<1>9. PICK q : q = Total(InReports)
  OBVIOUS
<1>10. suppressed = q + Total(old) + forgotten /\ suppressed \in Nat /\ forgotten \in Nat /\ q \in Nat
  BY <1>1, <1>7, <1>9 DEF CountsInv, CountsConserved, InReports, InCache
<1>11. ASSUME NEW kept \in SUBSET Cached,
              cache' = [g \in kept \cup {f} |-> IF g = f THEN FreshEntry ELSE cache[g]],
              NEW mid, DOMAIN mid = kept, \A g \in kept : mid[g] = old[g]
       PROVE  Total(new) = Total(mid) /\ Total(mid) \in Nat
  <2>1. /\ DOMAIN new = kept \cup {f} /\ new[f] = 0
        /\ \A g \in kept : new[g] = mid[g] /\ mid[g] \in Nat
    <3>1. DOMAIN new = DOMAIN cache' /\ \A g \in DOMAIN cache' : new[g] = cache'[g].count
      BY <1>2 DEF InCache, Cached
    <3>2. DOMAIN cache' = kept \cup {f} /\ cache'[f] = FreshEntry /\ \A g \in kept : cache'[g] = cache[g]
      BY <1>4, <1>11
    <3>3. FreshEntry.count = 0
      BY DEF FreshEntry
    <3>4. DOMAIN new = kept \cup {f}
      BY <3>1, <3>2
    <3>5. new[f] = 0
      BY <3>1, <3>2, <3>3
    <3>6. ASSUME NEW g \in kept PROVE new[g] = mid[g] /\ mid[g] \in Nat
      <4>1. new[g] = cache[g].count
        BY <3>1, <3>2
      <4>2. mid[g] = old[g] /\ g \in DOMAIN old
        BY <1>3, <1>11
      <4>3. QED
        BY <1>3, <4>1, <4>2
    <3>7. QED
      BY <3>4, <3>5, <3>6
  <2>2. IsFiniteSet(kept)
    BY <1>3, FS_Subset
  <2>3. IsFiniteSet(DOMAIN new)
    BY <2>1, <2>2, FS_AddElement
  <2>4. f \in DOMAIN new /\ DOMAIN mid = DOMAIN new \ {f}
    BY <1>4, <1>11, <2>1
  <2>5. \A g \in DOMAIN new : new[g] \in Nat
    BY <2>1
  <2>6. \A g \in DOMAIN mid : mid[g] = new[g]
    BY <1>11, <2>1
  <2>7. Total(mid) \in Nat /\ Total(new) = Total(mid) + new[f]
    BY <2>3, <2>4, <2>5, <2>6, TotalWithOne
  <2>8. QED
    BY <2>1, <2>7
<1>12. CASE Cardinality(Cached) < MaxCacheSize
  <2>1. /\ cache' = [g \in Cached \cup {f} |-> IF g = f THEN FreshEntry ELSE cache[g]]
        /\ forgotten' = forgotten
    BY <1>12 DEF FeedNew
  <2>2. Total(new) = Total(old)
    BY <1>3, <1>11, <2>1
  <2>3. suppressed' = Total(InReports') + Total(InCache') + forgotten'
    BY <1>2, <1>4, <1>8, <1>9, <1>10, <2>1, <2>2
  <2>4. CountsConserved'
    BY <2>3 DEF CountsConserved, InReports, InCache
  <2>5. QED
    BY <1>4, <1>10, <2>1, <2>4 DEF CountsInv
<1>13. CASE ~ (Cardinality(Cached) < MaxCacheSize)
  <2>1. PICK victim \in OldestEntries :
           /\ cache' = [g \in (Cached \ {victim}) \cup {f} |-> IF g = f THEN FreshEntry ELSE cache[g]]
           /\ forgotten' = forgotten + cache[victim].count
    BY <1>13 DEF FeedNew
  <2>2. victim \in Cached
    BY DEF OldestEntries
  <2>3. PICK mid : mid = [g \in Cached \ {victim} |-> old[g]]
    OBVIOUS
  <2>4. DOMAIN mid = Cached \ {victim} /\ \A g \in Cached \ {victim} : mid[g] = old[g]
    BY <2>3
  <2>5. Total(new) = Total(mid) /\ Total(mid) \in Nat
    BY <1>11, <2>1, <2>4
  <2>6. PICK v : v = old[victim]
    OBVIOUS
  <2>7. v \in Nat /\ v = cache[victim].count
    BY <1>3, <2>2, <2>6
  <2>8. Total(old) = Total(mid) + v
    BY <1>3, <2>2, <2>4, <2>6, TotalWithOne
  <2>9. suppressed = q + Total(new) + (forgotten + v) /\ forgotten + v \in Nat
    BY <1>10, <2>5, <2>7, <2>8
  <2>10. suppressed' = Total(InReports') + Total(InCache') + forgotten'
    BY <1>2, <1>4, <1>8, <1>9, <2>1, <2>7, <2>9
  <2>11. CountsConserved'
    BY <2>10 DEF CountsConserved, InReports, InCache
  <2>12. QED
    BY <1>4, <1>10, <2>1, <2>7, <2>9, <2>11 DEF CountsInv
<1>14. QED
  BY <1>12, <1>13

\* What is collected is forgotten with its counts.
LEMMA ForgottenByCollection ==
  ASSUME DedupTypes, CacheBounded, CountsInv, Gc
  PROVE  CountsInv'
<1>1. PICK old : old = InCache
  OBVIOUS
<1>2. PICK new : new = InCache'
  OBVIOUS
<1>3. DOMAIN old = Cached /\ IsFiniteSet(DOMAIN old) /\ \A g \in DOMAIN old : old[g] = cache[g].count /\ old[g] \in Nat
  BY <1>1, CountsAreNat
<1>4. PICK expired : expired = {f \in Cached : time - cache[f].last > SuppressWindow}
  OBVIOUS
<1>5. PICK gone : gone = [f \in expired |-> cache[f].count]
  OBVIOUS
<1>6. /\ cache' = [f \in Cached \ expired |-> cache[f]] /\ forgotten' = forgotten + Total(gone)
      /\ suppressed' = suppressed /\ reports' = reports
  BY <1>4, <1>5 DEF Gc
<1>7. DOMAIN new = Cached \ expired /\ \A f \in DOMAIN new : new[f] = old[f]
  BY <1>2, <1>3, <1>6 DEF InCache, Cached
<1>8. DOMAIN gone = expired /\ expired \subseteq Cached /\ \A f \in DOMAIN gone : gone[f] = old[f]
  BY <1>3, <1>4, <1>5
<1>9. DOMAIN old = DOMAIN new \cup DOMAIN gone /\ DOMAIN new \cap DOMAIN gone = {}
  BY <1>3, <1>7, <1>8
<1>10. Total(new) \in Nat /\ Total(gone) \in Nat /\ Total(old) = Total(new) + Total(gone)
  BY <1>3, <1>7, <1>8, <1>9, TotalSplits
<1>11. InReports' = InReports
  BY <1>6 DEF InReports
<1>12. PICK q : q = Total(InReports)
  OBVIOUS
<1>13. suppressed = q + Total(old) + forgotten /\ suppressed \in Nat /\ forgotten \in Nat
  BY <1>1, <1>12 DEF CountsInv, CountsConserved, InReports, InCache
<1>14. q \in Nat
  <2>1. IsFiniteSet(DOMAIN InReports) /\ \A i \in DOMAIN InReports : InReports[i] \in Nat
    BY CountsAreNat
  <2>2. QED
    BY <1>12, <2>1, TotalIsNat
<1>15. suppressed = q + Total(new) + (forgotten + Total(gone)) /\ forgotten + Total(gone) \in Nat
  BY <1>10, <1>13, <1>14
<1>16. suppressed' = Total(InReports') + Total(InCache') + forgotten'
  BY <1>2, <1>6, <1>11, <1>12, <1>15
<1>17. CountsConserved'
  BY <1>16 DEF CountsConserved, InReports, InCache
<1>18. QED
  BY <1>6, <1>13, <1>15, <1>17 DEF CountsInv

LEMMA CountsAlways == DedupSpec => []SpacingInv /\ []CacheBounded /\ []CountsInv
<1>1. DedupInit => CountsInv
  <2>1. SUFFICES ASSUME DedupInit PROVE CountsInv
    OBVIOUS
  <2>2. /\ DOMAIN InCache = {} /\ DOMAIN InReports = {}
        /\ suppressed = 0 /\ forgotten = 0
    BY <2>1 DEF DedupInit, InCache, InReports, Cached
  <2>3. Total(InCache) = 0 /\ Total(InReports) = 0
    BY <2>2, TotalOfNone
  <2>4. CountsConserved
    BY <2>2, <2>3 DEF CountsConserved, InCache, InReports
  <2>5. QED
    BY <2>2, <2>4 DEF CountsInv
<1>2. SpacingInv /\ CacheBounded /\ CountsInv /\ [DedupNext]_dedupVars => CountsInv'
  <2>1. SUFFICES ASSUME SpacingInv, CacheBounded, CountsInv, [DedupNext]_dedupVars PROVE CountsInv'
    OBVIOUS
  <2>2. DedupTypes
    BY <2>1 DEF SpacingInv
  <2>3. CASE \E f \in Fingerprint : FeedDuplicate(f) \/ FeedExpired(f) \/ FeedNew(f)
    BY <2>1, <2>2, <2>3, SuppressedIsCounted, CarriedByTheReport, ForgottenByEviction
  <2>4. CASE Gc
    BY <2>1, <2>2, <2>4, ForgottenByCollection
  <2>5. CASE Elapse \/ Drain \/ FeedInfo \/ Stop \/ UNCHANGED dedupVars
    <3>1. cache' = cache /\ reports' = reports /\ suppressed' = suppressed /\ forgotten' = forgotten
      BY <2>5 DEF Elapse, Drain, FeedInfo, Stop, dedupVars
    <3>2. QED
      BY <2>1, <3>1 DEF CountsInv, CountsConserved, Cached
  <2>6. QED
    BY <2>1, <2>3, <2>4, <2>5 DEF DedupNext
<1>3. DedupSpec => []SpacingInv
  BY SpacingStart, SpacingStep, PTL DEF DedupSpec
<1>4. QED
  BY <1>1, <1>2, <1>3, CacheStaysBounded, PTL DEF DedupSpec

\* No suppressed event is lost from the counts or counted twice: each is in the count of
\* a report, of a cached entry, or of one that was evicted or collected, whatever the
\* order of Feed, gc and Stop.
THEOREM CountsAddUp == DedupSpec => []CountsConserved
<1>1. CountsInv => CountsConserved
  BY DEF CountsInv
<1>2. QED
  BY <1>1, CountsAlways, PTL

----------------------------------------------------------------------------
(***************************************************************************)
(* Types.  That a count stays within the calls of Feed that made it needs  *)
(* all three invariants: the entries are bounded by the calls (Calls), the *)
(* suppressed events too, and what was forgotten is part of them           *)
(* (CountsInv).                                                            *)
(***************************************************************************)
Output ==
  /\ passThru \in Seq(Fingerprint \cup {Bypass}) /\ Len(passThru) <= OutCap
  /\ life \in {"running", "stopping", "closed", "panicked"}

Calls ==
  /\ feeds \in Nat /\ feeds <= MaxFeeds
  /\ suppressed <= feeds
  /\ \A f \in Cached : cache[f].count <= feeds
  /\ \A i \in DOMAIN reports : reports[i].dups <= MaxFeeds

Times ==
  /\ time <= MaxTime
  /\ \A f \in Fingerprint : evictedAt[f] >= -1 /\ evictedAt[f] <= time

LEMMA OutputStep ==
  ASSUME Output, [DedupNext]_dedupVars
  PROVE  Output'
<1> USE DEF Output
<1>1. ASSUME NEW event \in Fingerprint \cup {Bypass}, SendOrDrop(event)
      PROVE  Output'
  <2>1. CASE life = "closed"
    BY <1>1, <2>1 DEF SendOrDrop
  <2>2. CASE life # "closed"
    <3>1. passThru' = (IF Len(passThru) < OutCap THEN Append(passThru, event) ELSE passThru) /\ life' = life
      BY <1>1, <2>2 DEF SendOrDrop
    <3>2. OutCap \in Nat /\ Len(passThru) \in Nat
      BY DedupAssumption DEF DedupAssumption
    <3>3. /\ Append(passThru, event) \in Seq(Fingerprint \cup {Bypass})
          /\ Len(Append(passThru, event)) = Len(passThru) + 1
      OBVIOUS
    <3>4. QED
      BY <3>1, <3>2, <3>3
  <2>3. QED
    BY <2>1, <2>2
<1>2. ASSUME NEW f \in Fingerprint, FeedExpired(f) \/ FeedNew(f)
      PROVE  Output'
  BY <1>1, <1>2 DEF FeedExpired, FeedNew, PassOn
<1>3. CASE FeedInfo
  BY <1>1, <1>3 DEF FeedInfo
<1>4. CASE Drain
  <2>1. passThru # <<>> /\ passThru' = Tail(passThru) /\ life' = life
    BY <1>4 DEF Drain
  <2>2. Tail(passThru) \in Seq(Fingerprint \cup {Bypass}) /\ Len(Tail(passThru)) = Len(passThru) - 1
    BY <2>1
  <2>3. OutCap \in Nat /\ Len(passThru) \in Nat
    BY DedupAssumption DEF DedupAssumption
  <2>4. QED
    BY <2>1, <2>2, <2>3
<1>5. CASE Stop
  BY <1>5 DEF Stop, Cancel, CloseOutput
<1>6. CASE Elapse \/ Gc \/ UNCHANGED dedupVars \/ \E f \in Fingerprint : FeedDuplicate(f)
  BY <1>6 DEF Elapse, Gc, FeedDuplicate, dedupVars
<1>7. QED
  BY <1>2, <1>3, <1>4, <1>5, <1>6 DEF DedupNext

LEMMA TimesStep ==
  ASSUME DedupTypes, Times, [DedupNext]_dedupVars
  PROVE  Times'
<1>1. ASSUME NEW f \in Fingerprint, FeedExpired(f) \/ FeedNew(f)
      PROVE  Times'
  <2>1. time' = time /\ \A g \in Fingerprint : evictedAt'[g] \in {evictedAt[g], time}
    BY <1>1, FeedReports
  <2>2. QED
    BY <2>1 DEF Times, DedupTypes
<1>2. CASE Elapse
  BY <1>2, DedupAssumption DEF Elapse, Times, DedupTypes, DedupAssumption
<1>3. CASE Drain \/ FeedInfo \/ Gc \/ Stop \/ UNCHANGED dedupVars \/ \E f \in Fingerprint : FeedDuplicate(f)
  <2>1. UNCHANGED <<time, evictedAt>>
    BY <1>3 DEF Drain, FeedInfo, Gc, Stop, FeedDuplicate, Fed, dedupVars
  <2>2. QED
    BY <2>1 DEF Times
<1>4. QED
  BY <1>1, <1>2, <1>3 DEF DedupNext

\* A call that reports carries a count that an earlier call made, and its own event.
LEMMA CallReports ==
  ASSUME DedupTypes, suppressed \in Nat, Calls, NEW f \in Fingerprint, FeedExpired(f) \/ FeedNew(f)
  PROVE  Calls'
<1>1. feeds \in Nat /\ feeds < MaxFeeds /\ feeds' = feeds + 1 /\ suppressed' = suppressed
  BY DEF FeedExpired, FeedNew, Fed, Calls
<1>2. PICK n \in 0..MaxFeeds : reports' = Append(reports, [fp |-> f, at |-> time, dups |-> n])
  <2>1. CASE FeedExpired(f)
    <3>1. f \in Cached /\ reports' = Append(reports, [fp |-> f, at |-> time, dups |-> cache[f].count + 1])
      BY <2>1 DEF FeedExpired, PassOn
    <3>2. cache[f].count \in Nat /\ cache[f].count <= feeds
      BY <3>1 DEF DedupTypes, Calls
    <3>3. cache[f].count + 1 \in 0..MaxFeeds
      BY <1>1, <3>2, DedupAssumption DEF DedupAssumption
    <3>4. QED
      BY <3>1, <3>3
  <2>2. CASE FeedNew(f)
    <3>1. reports' = Append(reports, [fp |-> f, at |-> time, dups |-> 0])
      BY <2>2 DEF FeedNew, PassOn
    <3>2. 0 \in 0..MaxFeeds
      BY DedupAssumption DEF DedupAssumption
    <3>3. QED
      BY <3>1, <3>2
  <2>3. QED
    BY <2>1, <2>2
<1>3. \A i \in DOMAIN reports' : reports'[i].dups <= MaxFeeds
  <2> DEFINE r == [fp |-> f, at |-> time, dups |-> n]
  <2>1. r.dups <= MaxFeeds
    BY DedupAssumption DEF DedupAssumption
  <2> HIDE DEF r
  <2>2. reports \in Seq(Stamp) /\ reports' = Append(reports, r)
    BY <1>2 DEF DedupTypes, r
  <2>3. \A i \in DOMAIN reports' : reports'[i] = r \/ (i \in DOMAIN reports /\ reports'[i] = reports[i])
    BY <2>2
  <2>4. QED
    BY <2>1, <2>3 DEF Calls
<1>4. \A g \in DOMAIN cache' : cache'[g].count <= feeds'
  <2>1. /\ DOMAIN cache' \subseteq Cached \cup {f} /\ cache'[f] = FreshEntry
        /\ \A g \in DOMAIN cache' : g # f => cache'[g] = cache[g]
    BY FeedReports
  <2>2. cache'[f].count <= feeds'
    BY <1>1, <2>1 DEF FreshEntry
  <2>3. \A g \in Cached : cache[g].count \in Nat /\ cache[g].count <= feeds'
    BY <1>1 DEF DedupTypes, Calls
  <2>4. QED
    BY <2>1, <2>2, <2>3
<1>5. feeds' <= MaxFeeds
  BY <1>1, DedupAssumption DEF DedupAssumption
<1>6. QED
  BY <1>1, <1>3, <1>4, <1>5 DEF Calls, Cached

LEMMA CallsStep ==
  ASSUME DedupTypes, suppressed \in Nat, Calls, [DedupNext]_dedupVars
  PROVE  Calls'
<1>1. ASSUME NEW f \in Fingerprint, FeedDuplicate(f)
      PROVE  Calls'
  <2>1. /\ feeds' = feeds + 1 /\ feeds < MaxFeeds /\ suppressed' = suppressed + 1 /\ reports' = reports
        /\ f \in Cached
        /\ cache' = [cache EXCEPT ![f] = [cache[f] EXCEPT !.count = @ + 1, !.last = time]]
    BY <1>1 DEF FeedDuplicate, Fed
  <2>2. DOMAIN cache' = Cached /\ \A g \in Cached : g # f => cache'[g] = cache[g]
    BY <2>1 DEF Cached
  <2>3. \A g \in Cached : cache[g].count \in Nat /\ cache[g].count <= feeds
    BY DEF DedupTypes, Calls
  <2>4. cache'[f].count = cache[f].count + 1
    <3>1. PICK e \in [first : Nat, last : Nat, count : Nat] : cache[f] = e
      BY <2>1 DEF DedupTypes
    <3>2. cache'[f] = [e EXCEPT !.count = @ + 1, !.last = time]
      BY <2>1, <3>1 DEF Cached
    <3>3. QED
      BY <3>1, <3>2
  <2>5. \A g \in DOMAIN cache' : cache'[g].count <= feeds'
    BY <2>1, <2>2, <2>3, <2>4 DEF Calls
  <2>6. QED
    BY <2>1, <2>5, DedupAssumption DEF Calls, Cached, DedupAssumption
<1>2. CASE FeedInfo
  <2>1. feeds' = feeds + 1 /\ feeds < MaxFeeds /\ UNCHANGED <<cache, suppressed, reports>>
    BY <1>2 DEF FeedInfo, Fed
  <2>2. \A g \in Cached : cache[g].count \in Nat /\ cache[g].count <= feeds
    BY DEF DedupTypes, Calls
  <2>3. QED
    BY <2>1, <2>2, DedupAssumption DEF Calls, Cached, DedupAssumption
<1>3. CASE Gc
  <2> DEFINE expired == {f \in Cached : time - cache[f].last > SuppressWindow}
  <2>1. cache' = [f \in Cached \ expired |-> cache[f]] /\ UNCHANGED <<feeds, suppressed, reports>>
    BY <1>3 DEF Gc
  <2>2. DOMAIN cache' \subseteq Cached /\ \A f \in DOMAIN cache' : cache'[f] = cache[f]
    BY <2>1
  <2>3. QED
    BY <2>1, <2>2 DEF Calls, Cached
<1>4. CASE Elapse \/ Drain \/ Stop \/ UNCHANGED dedupVars
  <2>1. UNCHANGED <<cache, feeds, suppressed, reports>>
    BY <1>4 DEF Elapse, Drain, Stop, dedupVars
  <2>2. QED
    BY <2>1 DEF Calls, Cached
<1>5. QED
  BY <1>1, <1>2, <1>3, <1>4, CallReports DEF DedupNext

\* Every variable of the deduplicator keeps its type: no count outgrows the
\* calls of Feed, and the output channel its capacity.
THEOREM DedupTypeCorrect == DedupSpec => []DedupTypeOK
<1>1. DedupInit => Output /\ Times /\ Calls
  <2> SUFFICES ASSUME DedupInit PROVE Output /\ Times /\ Calls
    OBVIOUS
  <2>1. Cached = {} /\ DOMAIN reports = {}
    BY DEF DedupInit, Cached
  <2>2. QED
    BY <2>1, DedupAssumption DEF DedupInit, Output, Times, Calls, DedupAssumption
<1>2. SpacingInv /\ CountsInv /\ Output /\ Times /\ Calls /\ [DedupNext]_dedupVars
        => Output' /\ Times' /\ Calls'
  BY OutputStep, TimesStep, CallsStep DEF SpacingInv, CountsInv
<1>3. ASSUME SpacingInv, CacheBounded, CountsInv, Output, Times, Calls
      PROVE  DedupTypeOK
  <2>1. DedupTypes /\ MaxTime \in Nat /\ MaxFeeds \in Nat
    BY <1>3, DedupAssumption DEF SpacingInv, DedupAssumption
  <2>2. ASSUME NEW f \in Cached PROVE cache[f] \in Entry
    <3>1. PICK e \in [first : Nat, last : Nat, count : Nat] : cache[f] = e
      BY <2>1 DEF DedupTypes
    <3>2. e.first <= e.last /\ e.last <= time /\ e.count <= feeds
      BY <1>3, <2>1, <3>1 DEF DedupTypes, Calls
    <3>3. e.first \in 0..MaxTime /\ e.last \in 0..MaxTime /\ e.count \in 0..MaxFeeds
      BY <1>3, <2>1, <3>2 DEF DedupTypes, Times, Calls
    <3>4. QED
      BY <3>1, <3>3 DEF Entry
  <2>3. reports \in Seq(Report)
    <3>1. reports \in Seq(Stamp)
      BY <2>1 DEF DedupTypes
    <3>2. ASSUME NEW i \in DOMAIN reports PROVE reports[i] \in Report
      <4>1. PICK r \in Stamp : reports[i] = r
        BY <3>1
      <4>2. r.at <= time /\ r.dups <= MaxFeeds
        BY <1>3, <2>1, <4>1 DEF DedupTypes, Calls
      <4>3. r.at \in 0..MaxTime /\ r.dups \in 0..MaxFeeds
        BY <1>3, <2>1, <4>2 DEF DedupTypes, Times, Stamp
      <4>4. QED
        BY <4>1, <4>3 DEF Report, Stamp
    <3>3. QED
      BY <3>1, <3>2
  <2>4. evictedAt \in [Fingerprint -> -1..MaxTime]
    BY <1>3, <2>1 DEF DedupTypes, Times
  <2>5. suppressed \in 0..MaxFeeds /\ feeds \in 0..MaxFeeds /\ time \in 0..MaxTime
    BY <1>3, <2>1 DEF CountsInv, Calls, Times, DedupTypes
  <2>6. forgotten \in 0..MaxFeeds
    <3>1. /\ Total(InReports) \in Nat /\ Total(InCache) \in Nat
      BY <1>3, <2>1, CountsAreNat, TotalIsNat
    <3>2. suppressed = Total(InReports) + Total(InCache) + forgotten /\ forgotten \in Nat
      BY <1>3 DEF CountsInv, CountsConserved, InReports, InCache
    <3>3. QED
      BY <2>1, <2>5, <3>1, <3>2
  <2>7. QED
    BY <1>3, <2>1, <2>2, <2>3, <2>4, <2>5, <2>6
       DEF DedupTypeOK, DedupTypes, CacheBounded, Output
<1>4. QED
  BY <1>1, <1>2, <1>3, CountsAlways, PTL DEF DedupSpec
=============================================================================
