--------------------------------- MODULE Dedup ---------------------------------
(***************************************************************************)
(* internal/dedup/dedup.go: one row per fingerprint and suppression        *)
(* window.  Feed, gc and evictOldest hold Deduplicator.mu, so each is one  *)
(* step.  A fingerprint is a value; two events with the same one are the   *)
(* same alert.  The server does not start a Deduplicator: its callers are  *)
(* any goroutines that use it as its comments say.                         *)
(***************************************************************************)
EXTENDS Integers, Sequences, SequencesExt, FiniteSetsExt

CONSTANTS
  Fingerprint,
  SuppressWindow,  \* ticks
  MaxCacheSize,
  OutCap,          \* capacity of passThru (2048 in the code)
  MaxTime,         \* bound: the clock stops here
  MaxFeeds         \* bound: calls of Feed

ASSUME DedupAssumption ==
  /\ SuppressWindow \in Nat \ {0}
  /\ MaxCacheSize \in Nat \ {0}
  /\ OutCap \in Nat \ {0}
  /\ MaxTime \in Nat /\ MaxFeeds \in Nat

VARIABLES
  time,
  cache,        \* fingerprint -> entry, for the cached ones
  passThru,     \* what the DB writer has not taken yet
  suppressed,   \* totalSuppressed
  feeds,
  life,         \* "running", "stopping" (ctx cancelled), "closed" (passThru is), or
                \* "panicked": a Feed has sent on the closed channel
  \* History
  reports,      \* every event Feed sent or, on a full channel, dropped
  evictedAt,    \* per fingerprint: when it was last evicted, -1 for never
  forgotten     \* suppressed events whose entry was dropped with its count

dedupVars == <<time, cache, passThru, suppressed, feeds, life, reports, evictedAt, forgotten>>

Entry == [first : 0..MaxTime, last : 0..MaxTime, count : 0..MaxFeeds]
Report == [fp : Fingerprint, at : 0..MaxTime, dups : 0..MaxFeeds]
Cached == DOMAIN cache

\* The sum of counts, as the number of the things counted: the k-th one of each x.
Total(counts) == Cardinality(UNION {{x} \X (1..counts[x]) : x \in DOMAIN counts})

\* An INFO event without a technique, which bypasses the cache.
Bypass == "info"

DedupTypeOK ==
  /\ time \in 0..MaxTime
  /\ Cached \subseteq Fingerprint /\ \A f \in Cached : cache[f] \in Entry
  /\ Cardinality(Cached) <= MaxCacheSize
  /\ passThru \in Seq(Fingerprint \cup {Bypass}) /\ Len(passThru) <= OutCap
  /\ suppressed \in 0..MaxFeeds
  /\ feeds \in 0..MaxFeeds
  /\ life \in {"running", "stopping", "closed", "panicked"}
  /\ reports \in Seq(Report)
  /\ evictedAt \in [Fingerprint -> -1..MaxTime]
  /\ forgotten \in 0..MaxFeeds

DedupInit ==
  /\ time = 0
  /\ cache = [f \in {} |-> 0]
  /\ passThru = <<>>
  /\ suppressed = 0 /\ feeds = 0
  /\ life = "running"
  /\ reports = <<>>
  /\ evictedAt = [f \in Fingerprint |-> -1]
  /\ forgotten = 0

Elapse ==
  /\ time < MaxTime
  /\ time' = time + 1
  /\ UNCHANGED <<cache, passThru, suppressed, feeds, life, reports, evictedAt, forgotten>>

Drain ==
  /\ passThru # <<>>
  /\ passThru' = Tail(passThru)
  /\ UNCHANGED <<time, cache, suppressed, feeds, life, reports, evictedAt, forgotten>>

----------------------------------------------------------------------------
(* Feed *)

\* select with a default: a full channel drops the event, a closed one panics.
SendOrDrop(event) ==
  IF life = "closed"
    THEN life' = "panicked" /\ UNCHANGED passThru
    ELSE /\ passThru' = IF Len(passThru) < OutCap THEN Append(passThru, event) ELSE passThru
         /\ UNCHANGED life

\* The send at the end of Feed: when the event is dropped, the cache entry that
\* suppresses its duplicates stays.
PassOn(f, dups) ==
  /\ reports' = Append(reports, [fp |-> f, at |-> time, dups |-> dups])
  /\ SendOrDrop(f)

Fed == life # "panicked" /\ feeds < MaxFeeds /\ feeds' = feeds + 1 /\ UNCHANGED time

FeedInfo ==
  /\ Fed
  /\ SendOrDrop(Bypass)
  /\ UNCHANGED <<cache, suppressed, reports, evictedAt, forgotten>>

FreshEntry == [first |-> time, last |-> time, count |-> 0]

FeedDuplicate(f) ==
  /\ Fed
  /\ f \in Cached /\ time - cache[f].first < SuppressWindow
  /\ cache' = [cache EXCEPT ![f].count = @ + 1, ![f].last = time]
  /\ suppressed' = suppressed + 1
  /\ UNCHANGED <<passThru, life, reports, evictedAt, forgotten>>

\* Mutant of FeedExpired: the count is not reset.
FeedExpiredKeepsCount(f) ==
  /\ Fed
  /\ f \in Cached /\ time - cache[f].first >= SuppressWindow
  /\ cache' = [cache EXCEPT ![f].first = time, ![f].last = time]
  /\ PassOn(f, cache[f].count + 1)
  /\ UNCHANGED <<suppressed, evictedAt, forgotten>>

FeedExpired(f) ==
  /\ Fed
  /\ f \in Cached /\ time - cache[f].first >= SuppressWindow
  /\ cache' = [cache EXCEPT ![f] = FreshEntry]
  /\ PassOn(f, cache[f].count + 1)
  /\ UNCHANGED <<suppressed, evictedAt, forgotten>>

\* evictOldest picks among equally old entries in map order.
OldestEntries == {f \in Cached : \A g \in Cached : cache[f].first <= cache[g].first}

FeedNew(f) ==
  /\ Fed
  /\ f \notin Cached
  /\ IF Cardinality(Cached) < MaxCacheSize
       THEN /\ cache' = [g \in Cached \cup {f} |-> IF g = f THEN FreshEntry ELSE cache[g]]
            /\ UNCHANGED <<evictedAt, forgotten>>
       ELSE \E victim \in OldestEntries :
              /\ cache' = [g \in (Cached \ {victim}) \cup {f} |->
                             IF g = f THEN FreshEntry ELSE cache[g]]
              /\ evictedAt' = [evictedAt EXCEPT ![victim] = time]
              /\ forgotten' = forgotten + cache[victim].count
  /\ PassOn(f, 0)
  /\ UNCHANGED suppressed

----------------------------------------------------------------------------
(* gcLoop: the ticker may fire at any time, and may be chosen once more after  *)
(* the cancellation                                                            *)

Collecting == life \in {"running", "stopping"}

\* Mutant of Gc: the cutoff is half a window away.
GcTooEarly ==
  LET expired == {f \in Cached : 2 * (time - cache[f].last) >= SuppressWindow}
  IN  /\ Collecting /\ expired # {}
      /\ cache' = [f \in Cached \ expired |-> cache[f]]
      /\ forgotten' = forgotten + Total([f \in expired |-> cache[f].count])
      /\ UNCHANGED <<time, passThru, suppressed, feeds, life, reports, evictedAt>>

Gc ==
  LET expired == {f \in Cached : time - cache[f].last > SuppressWindow}
  IN  /\ Collecting /\ expired # {}
      /\ cache' = [f \in Cached \ expired |-> cache[f]]
      /\ forgotten' = forgotten + Total([f \in expired |-> cache[f].count])
      /\ UNCHANGED <<time, passThru, suppressed, feeds, life, reports, evictedAt>>

----------------------------------------------------------------------------
(* Stop, which does not wait for callers of Feed *)

Cancel == life = "running" /\ life' = "stopping"

CloseOutput == life = "stopping" /\ life' = "closed"

Stop ==
  /\ Cancel \/ CloseOutput
  /\ UNCHANGED <<time, cache, passThru, suppressed, feeds, reports, evictedAt, forgotten>>

----------------------------------------------------------------------------

DedupNext ==
  \/ Elapse \/ Drain
  \/ FeedInfo
  \/ \E f \in Fingerprint : FeedDuplicate(f) \/ FeedExpired(f) \/ FeedNew(f)
  \/ Gc \/ Stop

(* Properties *)

\* Two rows of one fingerprint are at least a suppression window apart, garbage
\* collection or not; only an eviction in between lets one through earlier.
ReportsSpaced ==
  \A i, j \in DOMAIN reports :
    i < j /\ reports[i].fp = reports[j].fp =>
      \/ reports[j].at - reports[i].at >= SuppressWindow
      \/ evictedAt[reports[i].fp] >= reports[i].at

\* A suppressed event is in exactly one place: the count of a report, the count
\* of a cached entry, or an entry that was collected or evicted with its count.
\* The report's own event is counted with them (Count + 1).
CountsConserved ==
  suppressed = Total([i \in DOMAIN reports |-> IF reports[i].dups > 0 THEN reports[i].dups - 1 ELSE 0])
               + Total([f \in Cached |-> cache[f].count])
               + forgotten
=============================================================================
