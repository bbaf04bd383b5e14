---------------------------- MODULE CircuitBreaker ----------------------------
(***************************************************************************)
(* internal/llmwatcher/ollama.go, circuitBreaker: two atomics, no lock.    *)
(* The two Analyze goroutines of a window share one breaker, so each       *)
(* atomic operation is a step of its own.  A caller's place is its pc.     *)
(***************************************************************************)
EXTENDS Naturals

CONSTANTS
  Caller,      \* goroutines that may be in Analyze at the same time
  Threshold,   \* failures that open the breaker (3 in the code)
  OpenTicks    \* how long it stays open

\* One failure alone does not open the breaker: with a threshold of 1 a success that
\* is being recorded could close it again behind the failure of the other caller.
ASSUME BreakerAssumption ==
  /\ Threshold \in Nat \ {0, 1}
  /\ OpenTicks \in Nat

VARIABLES
  failures,    \* consecutive failures
  openUntil,   \* end of the open period, 0 when closed
  call         \* per caller: where it is in Analyze

breakerVars == <<failures, openUntil, call>>

CallPlaces == {"none", "check", "reset", "resetCount", "request", "failed", "open",
               "succeeded", "close", "answer", "error"}

BreakerTypeOK ==
  /\ failures \in Nat
  /\ openUntil \in Nat
  /\ call \in [Caller -> CallPlaces]

BreakerInit ==
  /\ failures = 0
  /\ openUntil = 0
  /\ call = [c \in Caller |-> "none"]

\* Analyze has returned, or was not called.
Returned == {"none", "answer", "error"}

At(c, place) == call[c] = place
To(c, place) == call' = [call EXCEPT ![c] = place]

\* OllamaClient.IsAvailable, called while nobody is in Analyze: IsOpen in one
\* step, and whether it said "closed".
IsAvailable(time, available) ==
  /\ available = (openUntil = 0 \/ time > openUntil)
  /\ openUntil' = IF available THEN 0 ELSE openUntil
  /\ failures' = IF available /\ openUntil # 0 THEN 0 ELSE failures

\* IsOpen: load, and if the period is over reset both.
CheckClosed(c) ==
  /\ At(c, "check") /\ openUntil = 0
  /\ To(c, "request")
  /\ UNCHANGED <<failures, openUntil>>

CheckExpired(c, time) ==
  /\ At(c, "check") /\ openUntil # 0 /\ time > openUntil
  /\ To(c, "reset")
  /\ UNCHANGED <<failures, openUntil>>

\* Analyze returns "circuit open" without a request.
CheckOpen(c, time) ==
  /\ At(c, "check") /\ openUntil # 0 /\ time <= openUntil
  /\ To(c, "error")
  /\ UNCHANGED <<failures, openUntil>>

Reset(c) ==
  /\ At(c, "reset")
  /\ openUntil' = 0
  /\ To(c, "resetCount")
  /\ UNCHANGED failures

ResetCount(c) ==
  /\ At(c, "resetCount")
  /\ failures' = 0
  /\ To(c, "request")
  /\ UNCHANGED openUntil

\* The HTTP request is answered with JSON, or it fails: transport, status,
\* body or JSON, every one of which ends in RecordFailure.
RequestDone(c) ==
  /\ At(c, "request")
  /\ To(c, "succeeded") \/ To(c, "failed")
  /\ UNCHANGED <<failures, openUntil>>

\* Mutant of RecordFailure: n > threshold.
RecordFailureOffByOne(c) ==
  /\ At(c, "failed")
  /\ failures' = failures + 1
  /\ To(c, IF failures' > Threshold THEN "open" ELSE "error")
  /\ UNCHANGED openUntil

\* RecordFailure: n := failures.Add(1), then perhaps openUntil.Store.
RecordFailure(c) ==
  /\ At(c, "failed")
  /\ failures' = failures + 1
  /\ To(c, IF failures' >= Threshold THEN "open" ELSE "error")
  /\ UNCHANGED openUntil

Open(c, time) ==
  /\ At(c, "open")
  /\ openUntil' = time + OpenTicks
  /\ To(c, "error")
  /\ UNCHANGED failures

\* RecordSuccess: failures.Store(0), then openUntil.Store(0).
RecordSuccess(c) ==
  /\ At(c, "succeeded")
  /\ failures' = 0
  /\ To(c, "close")
  /\ UNCHANGED openUntil

Close(c) ==
  /\ At(c, "close")
  /\ openUntil' = 0
  /\ To(c, "answer")
  /\ UNCHANGED failures

Analyze(c, time) ==
  \/ CheckClosed(c) \/ CheckExpired(c, time) \/ CheckOpen(c, time)
  \/ Reset(c) \/ ResetCount(c)
  \/ RequestDone(c)
  \/ RecordFailure(c) \/ Open(c, time)
  \/ RecordSuccess(c) \/ Close(c)
=============================================================================
