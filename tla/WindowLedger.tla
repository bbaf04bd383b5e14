----------------------------- MODULE WindowLedger -----------------------------
(***************************************************************************)
(* What correlation_windows promises (uls-detection-server/README.md,      *)
(* section 4.6): each tumbling window has one owner, ever, and the owner   *)
(* marks it done or failed.  A window that was closed is never opened      *)
(* again.  An owner may disappear; its window then stays open.             *)
(***************************************************************************)
CONSTANTS Window, Worker

VARIABLES
  status,   \* Window -> "absent", "processing", "done" or "failed"
  owner     \* Window -> the workers that have ever owned it

vars == <<status, owner>>

Init ==
  /\ status = [w \in Window |-> "absent"]
  /\ owner = [w \in Window |-> {}]

Claim(w, s) ==
  /\ status[w] = "absent"
  /\ status' = [status EXCEPT ![w] = "processing"]
  /\ owner' = [owner EXCEPT ![w] = {s}]

\* The claim is written but its writer does not learn of it.
ClaimUnheard(w) ==
  /\ status[w] = "absent"
  /\ status' = [status EXCEPT ![w] = "processing"]
  /\ UNCHANGED owner

MarkDone(w) ==
  /\ status[w] = "processing"
  /\ owner[w] # {}
  /\ status' = [status EXCEPT ![w] = "done"]
  /\ UNCHANGED owner

\* Also after a "done" whose writer does not learn that it was written.
MarkFailed(w) ==
  /\ status[w] \in {"processing", "done"}
  /\ owner[w] # {}
  /\ status' = [status EXCEPT ![w] = "failed"]
  /\ UNCHANGED owner

Next ==
  \E w \in Window :
    \/ \E s \in Worker : Claim(w, s)
    \/ ClaimUnheard(w)
    \/ MarkDone(w)
    \/ MarkFailed(w)

Spec == Init /\ [][Next]_vars
=============================================================================
