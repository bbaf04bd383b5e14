----------------------------- MODULE AtLeastOnce -----------------------------
(***************************************************************************)
(* What an ingest pipeline promises (uls-detection-server/README.md,       *)
(* section 3.2, "at-least-once delivery behavior"): an accepted message    *)
(* stays pending until its events are stored, or it is found malformed.    *)
(* It may be stored more than once, but only while it is pending.          *)
(***************************************************************************)
EXTENDS Naturals

CONSTANTS
  Message,
  Rejectable,  \* messages that may be dropped: they cannot be parsed
  Blank        \* messages that carry nothing to store

VARIABLES
  published,   \* messages accepted so far
  pending,     \* messages the system still owes an outcome
  rows         \* how many times a message has been stored

vars == <<published, pending, rows>>

Init ==
  /\ published = {}
  /\ pending = {}
  /\ rows = [m \in Message |-> 0]

Accept(m) ==
  /\ m \notin published
  /\ published' = published \cup {m}
  /\ pending' = pending \cup {m}
  /\ UNCHANGED rows

\* One transaction stores a set of pending messages.
Store(S) ==
  /\ rows' \in [Message -> Nat]
  /\ \A m \in S : rows'[m] > rows[m]
  /\ \A m \in Message \ S : rows'[m] = rows[m]
  /\ UNCHANGED <<published, pending>>

Finish(m) ==
  /\ m \in Rejectable \/ m \in Blank \/ rows[m] > 0
  /\ pending' = pending \ {m}
  /\ UNCHANGED <<published, rows>>

Next ==
  \/ \E m \in Message : Accept(m)
  \/ \E S \in SUBSET (pending \ Rejectable) : Store(S)
  \/ \E m \in pending : Finish(m)

Spec == Init /\ [][Next]_vars
=============================================================================
