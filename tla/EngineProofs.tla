----------------------------- MODULE EngineProofs -----------------------------
(***************************************************************************)
(* Proofs about CorrEngine for every set of servers and rows, any number   *)
(* of windows and incident candidates, and every bound on faults.          *)
(***************************************************************************)
EXTENDS CorrEngine, TLAPS

(***************************************************************************)
(* Type correctness, in parts small enough for the provers.  It is not     *)
(* inductive alone: a server that cannot record a failure adds its window  *)
(* to "lost", which is a window only because a working server owns one     *)
(* (OwnsWindow).                                                           *)
(***************************************************************************)
FlagsOK ==
  /\ others \in [Server -> BOOLEAN]
  /\ cancelled \in [Server -> BOOLEAN]

TablesOK ==
  /\ clock \in 0..MaxWindow
  /\ status \in [Window -> {"absent", "processing", "done", "failed"}]
  /\ passRows \subseteq Row /\ decisions \subseteq Row
  /\ incidents \in [Window -> Nat]
  /\ stopCount \in 0..MaxStops /\ crashCount \in 0..MaxCrashes

LocalsOK ==
  /\ pc \in [Server -> {"off", "idle"} \cup Working]
  /\ win \in [Server -> 0..MaxWindow]
  /\ fetched \in [Server -> SUBSET Row]
  /\ todo \in [Server -> SUBSET Row]
  /\ malicious \in [Server -> SUBSET Row]
  /\ toSave \in [Server -> 0..MaxCandidates]

HistoryOK ==
  /\ owner \in [Window -> SUBSET Server]
  /\ candidates \in [Window -> 0..MaxCandidates]
  /\ consulted \subseteq Window /\ lost \subseteq Window

OwnsWindow == \A s \in Server : pc[s] \in Working <=> win[s] # 0

TypeInv == FlagsOK /\ TablesOK /\ LocalsOK /\ HistoryOK /\ OwnsWindow

LEMMA TypeParts == TypeOK <=> FlagsOK /\ TablesOK /\ LocalsOK /\ HistoryOK
BY Zenon DEF TypeOK, FlagsOK, TablesOK, LocalsOK, HistoryOK

\* The window of a working server is a window.
LEMMA WorkingWindow ==
  ASSUME LocalsOK, OwnsWindow, NEW s \in Server
  PROVE  /\ win[s] \in Nat
         /\ win[s] # 0 => win[s] \in Window
         /\ pc[s] \in Working => win[s] \in Window
BY EngineAssumption DEF EngineAssumption, LocalsOK, OwnsWindow, Window

LEMMA InitTypeInv == Init => TypeInv
<1> SUFFICES ASSUME Init PROVE TypeInv
  OBVIOUS
<1>1. FlagsOK
  BY DEF Init, FlagsOK
<1>2. TablesOK /\ LocalsOK /\ HistoryOK
  BY EngineAssumption DEF EngineAssumption, Init, TablesOK, LocalsOK, HistoryOK, Window
<1>3. OwnsWindow
  BY DEF Init, OwnsWindow, Working
<1>4. QED
  BY <1>1, <1>2, <1>3 DEF TypeInv

LEMMA FlagsStep ==
  ASSUME FlagsOK, Next
  PROVE  FlagsOK'
<1> USE DEF FlagsOK, locals
<1>1. CASE CloseWindow \/ \E r \in Row : InsertPassRow(r)
  BY <1>1, Zenon DEF CloseWindow, InsertPassRow
<1>2. ASSUME NEW s \in Server, Start(s) \/ Stop(s) \/ LoopReturns(s) \/ Acquire(s) \/ AcquireError(s)
      PROVE  FlagsOK'
  BY <1>2, Zenon DEF Start, Stop, LoopReturns, Acquire, AcquireError
<1>3. ASSUME NEW s \in Server, Crash(s) \/ MarkDone(s) \/ MarkFailed(s) \/ MarkFailedError(s)
      PROVE  FlagsOK'
  BY <1>3, Zenon DEF Crash, MarkDone, MarkFailed, MarkFailedError, Forget
<1>4. ASSUME NEW s \in Server, FetchWindows(s) \/ ClassifyDone(s) \/ Reads(s) \/ HealthyByDefault(s)
      PROVE  FlagsOK'
  BY <1>4, Zenon DEF FetchWindows, ClassifyDone, Reads, HealthyByDefault
<1>5. ASSUME NEW s \in Server, NEW r \in todo[s], Classify(s, r) \/ ClassifyError(s, r)
      PROVE  FlagsOK'
  BY <1>5, Zenon DEF Classify, ClassifyError
<1>6. ASSUME NEW s \in Server, Correlate(s) \/ SaveIncident(s) \/ SaveDone(s)
      PROVE  FlagsOK'
  BY <1>6, Zenon DEF Correlate, SaveIncident, SaveDone
<1>7. ASSUME NEW s \in Server, StepError(s) \/ SaveError(s) \/ MarkDoneError(s)
      PROVE  FlagsOK'
  BY <1>7, Zenon DEF StepError, SaveError, MarkDoneError
<1>8. QED
  BY <1>1, <1>2, <1>3, <1>4, <1>5, <1>6, <1>7 DEF Next, ProcessWindow

LEMMA TablesStep ==
  ASSUME TypeInv, Next
  PROVE  TablesOK'
<1> USE EngineAssumption DEF EngineAssumption, TypeInv, TablesOK, tables
<1>1. CASE CloseWindow
  BY <1>1 DEF CloseWindow
<1>2. ASSUME NEW r \in Row, InsertPassRow(r)
      PROVE  TablesOK'
  BY <1>2 DEF InsertPassRow
<1>3. ASSUME NEW s \in Server, Stop(s) \/ Crash(s)
      PROVE  TablesOK'
  BY <1>3 DEF Stop, Crash
<1>4. ASSUME NEW s \in Server, Acquire(s) \/ AcquireError(s)
      PROVE  TablesOK'
  BY <1>4 DEF Acquire, AcquireError
<1>5. ASSUME NEW s \in Server, NEW r \in todo[s], Classify(s, r) \/ ClassifyError(s, r)
      PROVE  TablesOK'
  <2>1. r \in Row
    BY DEF LocalsOK
  <2>2. QED
    BY <1>5, <2>1 DEF Classify, ClassifyError
<1>6. ASSUME NEW s \in Server, SaveIncident(s) \/ SaveError(s)
      PROVE  TablesOK'
  BY <1>6 DEF SaveIncident, SaveError
<1>7. ASSUME NEW s \in Server, MarkDone(s) \/ MarkDoneError(s) \/ MarkFailed(s)
      PROVE  TablesOK'
  BY <1>7 DEF MarkDone, MarkDoneError, MarkFailed
<1>8. ASSUME NEW s \in Server,
             \/ Start(s) \/ LoopReturns(s) \/ FetchWindows(s) \/ ClassifyDone(s) \/ Reads(s)
             \/ HealthyByDefault(s) \/ Correlate(s) \/ SaveDone(s) \/ StepError(s)
             \/ MarkFailedError(s)
      PROVE  TablesOK'
  <2>1. UNCHANGED <<clock, tables, stopCount, crashCount>>
    BY <1>8 DEF Start, LoopReturns, FetchWindows, ClassifyDone, Reads, HealthyByDefault,
                Correlate, SaveDone, StepError, MarkFailedError
  <2>2. QED
    BY <2>1
<1>9. QED
  BY <1>1, <1>2, <1>3, <1>4, <1>5, <1>6, <1>7, <1>8 DEF Next, ProcessWindow

LEMMA LocalsStep ==
  ASSUME TypeInv, Next
  PROVE  LocalsOK' /\ OwnsWindow'
<1> USE EngineAssumption DEF TypeInv, LocalsOK, OwnsWindow, Working, Goto, locals
<1>1. CASE CloseWindow \/ \E r \in Row : InsertPassRow(r)
  BY <1>1 DEF CloseWindow, InsertPassRow
<1>2. ASSUME NEW s \in Server, Start(s) \/ Stop(s) \/ LoopReturns(s) \/ AcquireError(s)
      PROVE  LocalsOK' /\ OwnsWindow'
  BY <1>2 DEF Start, Stop, LoopReturns, AcquireError
<1>3. ASSUME NEW s \in Server, Crash(s) \/ MarkDone(s) \/ MarkFailed(s) \/ MarkFailedError(s)
      PROVE  LocalsOK' /\ OwnsWindow'
  <2>1. Forget(s) /\ (pc' = [pc EXCEPT ![s] = "off"] \/ pc' = [pc EXCEPT ![s] = "idle"])
    BY <1>3 DEF Crash, MarkDone, MarkFailed, MarkFailedError
  <2>2. QED
    BY <2>1 DEF Forget, EngineAssumption
<1>4. ASSUME NEW s \in Server, Acquire(s)
      PROVE  LocalsOK' /\ OwnsWindow'
  BY <1>4 DEF Acquire, TablesOK
<1>5. ASSUME NEW s \in Server, FetchWindows(s)
      PROVE  LocalsOK' /\ OwnsWindow'
  BY <1>5 DEF FetchWindows, TablesOK
<1>6. ASSUME NEW s \in Server, NEW r \in todo[s], Classify(s, r)
      PROVE  LocalsOK' /\ OwnsWindow'
  BY <1>6 DEF Classify
<1>7. ASSUME NEW s \in Server, Correlate(s)
      PROVE  LocalsOK' /\ OwnsWindow'
  BY <1>7 DEF Correlate
<1>8. ASSUME NEW s \in Server, SaveIncident(s)
      PROVE  LocalsOK' /\ OwnsWindow'
  BY <1>8 DEF SaveIncident, EngineAssumption
<1>9. ASSUME NEW s \in Server,
             \/ ClassifyDone(s) \/ Reads(s) \/ HealthyByDefault(s) \/ SaveDone(s) \/ StepError(s)
             \/ SaveError(s) \/ MarkDoneError(s) \/ \E r \in todo[s] : ClassifyError(s, r)
      PROVE  LocalsOK' /\ OwnsWindow'
  <2>1. /\ pc[s] \in Working
        /\ \E place \in Working : pc' = [pc EXCEPT ![s] = place]
        /\ UNCHANGED <<win, fetched, todo, malicious, toSave>>
    BY <1>9 DEF ClassifyDone, Reads, HealthyByDefault, SaveDone, StepError, SaveError,
                MarkDoneError, ClassifyError
  <2>2. QED
    BY <2>1
<1>10. QED
  BY <1>1, <1>2, <1>3, <1>4, <1>5, <1>6, <1>7, <1>8, <1>9 DEF Next, ProcessWindow

LEMMA HistoryStep ==
  ASSUME TypeInv, Next
  PROVE  HistoryOK'
<1> USE EngineAssumption DEF TypeInv, HistoryOK, history
<1>1. ASSUME NEW s \in Server, Crash(s)
      PROVE  HistoryOK'
  BY <1>1 DEF Crash
<1>2. ASSUME NEW s \in Server, Acquire(s) \/ AcquireError(s)
      PROVE  HistoryOK'
  <2>1. clock \in Window
    BY <1>2 DEF Acquire, AcquireError, TablesOK, Window, EngineAssumption
  <2>2. QED
    BY <1>2, <2>1 DEF Acquire, AcquireError
<1>3. ASSUME NEW s \in Server, Correlate(s) \/ MarkFailedError(s)
      PROVE  HistoryOK'
  <2>1. win[s] \in Window
    BY <1>3, WorkingWindow DEF Correlate, MarkFailedError, Working
  <2>2. QED
    BY <1>3, <2>1 DEF Correlate, MarkFailedError
<1>4. CASE CloseWindow \/ \E r \in Row : InsertPassRow(r)
  BY <1>4 DEF CloseWindow, InsertPassRow
<1>5. ASSUME NEW s \in Server,
             \/ Start(s) \/ Stop(s) \/ LoopReturns(s) \/ FetchWindows(s) \/ ClassifyDone(s)
             \/ Reads(s) \/ HealthyByDefault(s) \/ SaveIncident(s) \/ SaveDone(s) \/ MarkDone(s)
             \/ StepError(s) \/ SaveError(s) \/ MarkDoneError(s) \/ MarkFailed(s)
             \/ \E r \in todo[s] : Classify(s, r) \/ ClassifyError(s, r)
      PROVE  HistoryOK'
  <2>1. UNCHANGED history
    BY <1>5 DEF Start, Stop, LoopReturns, FetchWindows, ClassifyDone, Reads, HealthyByDefault,
                SaveIncident, SaveDone, MarkDone, StepError, SaveError, MarkDoneError,
                MarkFailed, Classify, ClassifyError
  <2>2. QED
    BY <2>1
<1>6. QED
  BY <1>1, <1>2, <1>3, <1>4, <1>5 DEF Next, ProcessWindow

LEMMA TypeStep ==
  ASSUME TypeInv, [Next]_vars
  PROVE  TypeInv'
<1>1. CASE Next
  BY <1>1, FlagsStep, TablesStep, LocalsStep, HistoryStep DEF TypeInv
<1>2. CASE UNCHANGED vars
  <2>1. FlagsOK' /\ OwnsWindow'
    BY <1>2, Zenon DEF TypeInv, FlagsOK, OwnsWindow, vars, locals
  <2>2. TablesOK' /\ LocalsOK' /\ HistoryOK'
    BY <1>2 DEF TypeInv, TablesOK, LocalsOK, HistoryOK, vars, tables, locals, history
  <2>3. QED
    BY <2>1, <2>2 DEF TypeInv
<1>3. QED
  BY <1>1, <1>2

----------------------------------------------------------------------------
(***************************************************************************)
(* The inductive invariant.  A window is claimed by inserting its row, so  *)
(* a window without a row has no owner and no results (Untouched), and one *)
(* with a row cannot be claimed again.  While a server works on a window   *)
(* the row stays "processing" (Claimed; "done" is possible only after a    *)
(* MarkDone that returned an error), so what the server counts is what     *)
(* the tables hold (Progress), and what it has classified is what it has   *)
(* recorded (Classified).                                                  *)
(***************************************************************************)
Claimed ==
  \A s \in Server : win[s] # 0 =>
    /\ s \in owner[win[s]]
    /\ \/ status[win[s]] = "processing"
       \/ pc[s] = "markFailed" /\ status[win[s]] = "done"

Unowned == \A w \in Window : status[w] = "absent" => owner[w] = {}

Untouched == \A w \in Window : status[w] = "absent" => incidents[w] = 0 /\ candidates[w] = 0

Progress ==
  \A s \in Server :
    /\ pc[s] \in {"fetch", "classify", "reads", "correlate"} =>
         incidents[win[s]] = 0 /\ candidates[win[s]] = 0
    /\ pc[s] = "save" => incidents[win[s]] + toSave[s] = candidates[win[s]]
    /\ pc[s] = "markDone" => incidents[win[s]] = candidates[win[s]]

Classified ==
  \A s \in Server :
    /\ pc[s] = "classify" => fetched[s] \ todo[s] \subseteq decisions
    /\ pc[s] = "save" => win[s] \in consulted

Ownership == Claimed /\ Unowned /\ OpenHasOwner
Counts == Untouched /\ Progress /\ DoneIsComplete
Decisions == Classified /\ DecisionsRecorded

EngineInv == TypeInv /\ Ownership /\ Counts /\ Decisions

LEMMA InitEngineInv == Init => EngineInv
<1> SUFFICES ASSUME Init PROVE EngineInv
  OBVIOUS
<1>1. TypeInv
  BY InitTypeInv
<1>2. Ownership
  BY DEF Init, Ownership, Claimed, Unowned, OpenHasOwner
<1>3. Counts
  BY DEF Init, Counts, Untouched, Progress, DoneIsComplete
<1>4. Decisions
  BY DEF Init, Decisions, Classified, DecisionsRecorded
<1>5. QED
  BY <1>1, <1>2, <1>3, <1>4 DEF EngineInv

\* A step that touches no window's row or owner preserves Ownership, whatever
\* a server does that is not past a failed MarkDone.
LEMMA OwnershipQuiet ==
  ASSUME Ownership, UNCHANGED <<status, owner, win, lost>>,
         \A s \in Server : pc[s] = "markFailed" => pc'[s] = "markFailed"
  PROVE  Ownership'
BY DEF Ownership, Claimed, Unowned, OpenHasOwner

LEMMA OwnershipStep ==
  ASSUME TypeInv, Ownership, Next
  PROVE  Ownership'
<1> USE DEF TypeInv, LocalsOK, Goto
<1>1. CASE CloseWindow \/ \E r \in Row : InsertPassRow(r)
  BY <1>1, OwnershipQuiet DEF CloseWindow, InsertPassRow, tables, locals, history
<1>2. ASSUME NEW s \in Server, Crash(s)
      PROVE  Ownership'
  <2>1. /\ win' = [win EXCEPT ![s] = 0] /\ pc' = [pc EXCEPT ![s] = "off"]
        /\ lost' = lost \cup (Window \cap {win[s]})
        /\ UNCHANGED <<status, owner>>
    BY <1>2 DEF Crash, Forget, tables
  <2>2. QED
    BY <2>1, WorkingWindow DEF Ownership, Claimed, Unowned, OpenHasOwner
<1>3. ASSUME NEW s \in Server, Acquire(s)
      PROVE  Ownership'
  <2>1. /\ clock > 0 /\ status[clock] = "absent" /\ pc[s] = "idle"
        /\ status' = [status EXCEPT ![clock] = "processing"]
        /\ owner' = [owner EXCEPT ![clock] = @ \cup {s}]
        /\ win' = [win EXCEPT ![s] = clock] /\ pc' = [pc EXCEPT ![s] = "fetch"]
        /\ UNCHANGED lost
    BY <1>3 DEF Acquire
  <2>2. clock \in Window /\ clock # 0
    BY <2>1, EngineAssumption DEF TablesOK, Window, EngineAssumption
  <2>3. win[s] = 0
    BY <2>1 DEF OwnsWindow, Working
  <2>4. \A t \in Server : win[t] # clock
    BY <2>1, <2>2 DEF Ownership, Claimed
  <2>5. Claimed'
    BY <2>1, <2>2, <2>4, WorkingWindow DEF Ownership, Claimed, TablesOK, HistoryOK
  <2>6. Unowned'
    BY <2>1, <2>2 DEF Ownership, Unowned, TablesOK, HistoryOK
  <2>7. OpenHasOwner'
    <3>1. win'[s] = clock /\ \A t \in Server \ {s} : win'[t] = win[t]
      BY <2>1
    <3>2. \A w \in Window \ {clock} : status'[w] = status[w]
      BY <2>1 DEF TablesOK
    <3>3. ASSUME NEW w \in Window, status'[w] = "processing"
          PROVE  w \in lost' \/ \E t \in Server : win'[t] = w
      <4>1. w # 0 /\ lost' = lost
        BY <2>1 DEF Window
      <4>2. CASE w = clock
        BY <3>1, <4>2
      <4>3. CASE w # clock
        BY <2>3, <3>1, <3>2, <3>3, <4>1, <4>3 DEF Ownership, OpenHasOwner
      <4>4. QED
        BY <4>2, <4>3
    <3>4. \A t, u \in Server : win'[t] # 0 /\ win'[t] = win'[u] => t = u
      BY <2>2, <2>4, <3>1 DEF Ownership, OpenHasOwner
    <3>5. QED
      BY <3>3, <3>4 DEF OpenHasOwner
  <2>8. QED
    BY <2>5, <2>6, <2>7 DEF Ownership
<1>4. ASSUME NEW s \in Server, AcquireError(s)
      PROVE  Ownership'
  <2>1. /\ clock \in Window /\ clock # 0 /\ status[clock] = "absent"
        /\ status' = [status EXCEPT ![clock] = "processing"]
        /\ lost' = lost \cup {clock}
        /\ UNCHANGED <<owner, win, pc>>
    BY <1>4, EngineAssumption DEF AcquireError, TablesOK, Window, EngineAssumption, locals
  <2>2. \A t \in Server : win[t] # clock
    BY <2>1 DEF Ownership, Claimed
  <2>3. QED
    BY <2>1, <2>2, WorkingWindow DEF Ownership, Claimed, Unowned, OpenHasOwner, TablesOK, HistoryOK
<1>5. ASSUME NEW s \in Server, MarkDone(s) \/ MarkFailed(s)
      PROVE  Ownership'
  <2>1. /\ win[s] \in Window /\ win[s] # 0
        /\ \E o \in {"done", "failed"} : status' = [status EXCEPT ![win[s]] = o]
        /\ win' = [win EXCEPT ![s] = 0] /\ pc' = [pc EXCEPT ![s] = "idle"]
        /\ UNCHANGED <<owner, lost>>
    BY <1>5, WorkingWindow DEF MarkDone, MarkFailed, Forget, history, Working, OwnsWindow
  <2>2. QED
    BY <2>1, WorkingWindow DEF Ownership, Claimed, Unowned, OpenHasOwner, TablesOK, HistoryOK
<1>6. ASSUME NEW s \in Server, MarkDoneError(s)
      PROVE  Ownership'
  <2>1. /\ win[s] \in Window /\ win[s] # 0 /\ pc[s] = "markDone"
        /\ UNCHANGED status \/ status' = [status EXCEPT ![win[s]] = "done"]
        /\ pc' = [pc EXCEPT ![s] = "markFailed"]
        /\ UNCHANGED <<owner, lost, win>>
    BY <1>6, WorkingWindow DEF MarkDoneError, history, locals, Working, OwnsWindow
  <2>2. QED
    BY <2>1, WorkingWindow DEF Ownership, Claimed, Unowned, OpenHasOwner, TablesOK, HistoryOK
<1>7. ASSUME NEW s \in Server, MarkFailedError(s)
      PROVE  Ownership'
  <2>1. /\ win' = [win EXCEPT ![s] = 0] /\ pc' = [pc EXCEPT ![s] = "idle"]
        /\ lost' = lost \cup {win[s]}
        /\ UNCHANGED <<status, owner>>
    BY <1>7 DEF MarkFailedError, Forget, tables
  <2>2. QED
    BY <2>1, WorkingWindow DEF Ownership, Claimed, Unowned, OpenHasOwner
<1>8. ASSUME NEW s \in Server,
             \/ Start(s) \/ Stop(s) \/ LoopReturns(s) \/ FetchWindows(s) \/ ClassifyDone(s)
             \/ Reads(s) \/ HealthyByDefault(s) \/ Correlate(s) \/ SaveIncident(s) \/ SaveDone(s)
             \/ StepError(s) \/ SaveError(s) \/ \E r \in todo[s] : Classify(s, r) \/ ClassifyError(s, r)
      PROVE  Ownership'
  <2>1. /\ UNCHANGED <<status, owner, win, lost>>
        /\ UNCHANGED pc \/ (pc[s] # "markFailed" /\ \E place : pc' = [pc EXCEPT ![s] = place])
    BY <1>8 DEF Start, Stop, LoopReturns, FetchWindows, ClassifyDone, Reads, HealthyByDefault,
                Correlate, SaveIncident, SaveDone, StepError, SaveError, Classify, ClassifyError,
                tables, locals, history
  <2>2. QED
    BY <2>1, OwnershipQuiet
<1>9. QED
  BY <1>1, <1>2, <1>3, <1>4, <1>5, <1>6, <1>7, <1>8 DEF Next, ProcessWindow

\* A step that touches neither the counts nor who works on what preserves
\* Counts if every server stays where its counts are known, or leaves.
LEMMA CountsQuiet ==
  ASSUME Counts, UNCHANGED <<status, incidents, candidates, win, toSave>>,
         \A s \in Server :
           \/ pc'[s] = pc[s] \/ pc'[s] \in {"off", "idle", "markFailed"}
           \/ {pc[s], pc'[s]} \subseteq {"fetch", "classify", "reads", "correlate"}
  PROVE  Counts'
<1>1. Untouched' /\ DoneIsComplete'
  BY DEF Counts, Untouched, DoneIsComplete
<1>2. Progress'
  BY DEF Counts, Progress
<1>3. QED
  BY <1>1, <1>2 DEF Counts

LEMMA CountsStep ==
  ASSUME TypeInv, Ownership, Counts, Next
  PROVE  Counts'
<1> USE DEF TypeInv, LocalsOK, Goto
<1>1. CASE CloseWindow \/ \E r \in Row : InsertPassRow(r)
  BY <1>1, CountsQuiet DEF CloseWindow, InsertPassRow, tables, locals, history
<1>2. ASSUME NEW s \in Server, Crash(s) \/ MarkFailedError(s)
      PROVE  Counts'
  <2>1. /\ \E place \in {"off", "idle"} : pc' = [pc EXCEPT ![s] = place]
        /\ win' = [win EXCEPT ![s] = 0] /\ toSave' = [toSave EXCEPT ![s] = 0]
        /\ UNCHANGED <<status, incidents, candidates>>
    BY <1>2 DEF Crash, MarkFailedError, Forget, tables
  <2>2. Untouched' /\ DoneIsComplete'
    BY <2>1 DEF Counts, Untouched, DoneIsComplete
  <2>3. Progress'
    BY <2>1 DEF Counts, Progress
  <2>4. QED
    BY <2>2, <2>3 DEF Counts
<1>3. ASSUME NEW s \in Server, Acquire(s)
      PROVE  Counts'
  <2>1. /\ status[clock] = "absent" /\ clock \in Window
        /\ status' = [status EXCEPT ![clock] = "processing"]
        /\ win' = [win EXCEPT ![s] = clock] /\ pc' = [pc EXCEPT ![s] = "fetch"]
        /\ UNCHANGED <<incidents, candidates, toSave>>
    BY <1>3, EngineAssumption DEF Acquire, TablesOK, Window, EngineAssumption
  <2>2. Untouched' /\ DoneIsComplete'
    BY <2>1 DEF Counts, Untouched, DoneIsComplete, TablesOK
  <2>3. Progress'
    BY <2>1 DEF Counts, Untouched, Progress
  <2>4. QED
    BY <2>2, <2>3 DEF Counts
<1>4. ASSUME NEW s \in Server, AcquireError(s)
      PROVE  Counts'
  <2>1. /\ status' = [status EXCEPT ![clock] = "processing"]
        /\ UNCHANGED <<incidents, candidates, toSave, win, pc>>
    BY <1>4 DEF AcquireError, locals
  <2>2. Untouched' /\ DoneIsComplete'
    BY <2>1 DEF Counts, Untouched, DoneIsComplete, TablesOK
  <2>3. Progress'
    BY <2>1 DEF Counts, Progress
  <2>4. QED
    BY <2>2, <2>3 DEF Counts
<1>5. ASSUME NEW s \in Server, Correlate(s)
      PROVE  Counts'
  <2>1. PICK n \in 0..MaxCandidates :
          /\ toSave' = [toSave EXCEPT ![s] = n]
          /\ candidates' = [candidates EXCEPT ![win[s]] = n]
    BY <1>5 DEF Correlate
  <2>2. /\ pc[s] = "correlate" /\ pc' = [pc EXCEPT ![s] = "save"]
        /\ UNCHANGED <<status, incidents, win>>
    BY <1>5 DEF Correlate, tables
  <2>3. win[s] \in Window /\ win[s] # 0 /\ n \in Nat
    BY <2>2, EngineAssumption, WorkingWindow DEF EngineAssumption, OwnsWindow, Working
  <2>4. status[win[s]] = "processing" /\ incidents[win[s]] = 0
    BY <2>2, <2>3 DEF Ownership, Claimed, Counts, Progress
  <2>5. \A t \in Server \ {s} : win[t] # win[s] /\ pc'[t] = pc[t] /\ toSave'[t] = toSave[t]
    BY <2>1, <2>2, <2>3 DEF Ownership, OpenHasOwner
  <2>6. Untouched' /\ DoneIsComplete'
    BY <2>1, <2>2, <2>3, <2>4 DEF Counts, Untouched, DoneIsComplete, HistoryOK
  <2>7. Progress'
    BY <2>1, <2>2, <2>3, <2>4, <2>5, WorkingWindow DEF Counts, Progress, HistoryOK
  <2>8. QED
    BY <2>6, <2>7 DEF Counts
<1>6. ASSUME NEW s \in Server, SaveIncident(s) \/ SaveError(s)
      PROVE  Counts'
  <2>1. /\ pc[s] = "save" /\ toSave[s] > 0
        /\ UNCHANGED <<status, candidates, win>>
        /\ \/ incidents' = [incidents EXCEPT ![win[s]] = @ + 1]
           \/ UNCHANGED incidents /\ pc' = [pc EXCEPT ![s] = "markFailed"]
        /\ \/ UNCHANGED pc /\ toSave' = [toSave EXCEPT ![s] = @ - 1]
           \/ pc' = [pc EXCEPT ![s] = "markFailed"] /\ UNCHANGED toSave
    BY <1>6 DEF SaveIncident, SaveError, tables, locals, history
  <2>2. win[s] \in Window /\ win[s] # 0
    BY <2>1, WorkingWindow DEF OwnsWindow, Working
  <2>3. /\ status[win[s]] = "processing"
        /\ incidents[win[s]] + toSave[s] = candidates[win[s]]
    BY <2>1, <2>2 DEF Ownership, Claimed, Counts, Progress
  <2>4. \A t \in Server \ {s} : win[t] # win[s] /\ pc'[t] = pc[t] /\ toSave'[t] = toSave[t]
    BY <2>1, <2>2 DEF Ownership, OpenHasOwner
  <2>5. /\ incidents[win[s]] \in Nat /\ toSave[s] \in Nat /\ candidates[win[s]] \in Nat
        /\ \A w \in Window \ {win[s]} : incidents'[w] = incidents[w]
        /\ incidents'[win[s]] \in {incidents[win[s]], incidents[win[s]] + 1}
    BY <2>1, <2>2, EngineAssumption DEF EngineAssumption, TablesOK, HistoryOK
  <2>6. Untouched' /\ DoneIsComplete'
    BY <2>1, <2>2, <2>3, <2>5 DEF Counts, Untouched, DoneIsComplete
  <2>7. ASSUME NEW t \in Server \ {s}
        PROVE  pc'[t] \in Working => incidents'[win[t]] = incidents[win[t]]
    BY <2>4, <2>5, <2>7, WorkingWindow
  <2>8. pc'[s] = "save" => incidents'[win[s]] + toSave'[s] = candidates[win[s]]
    BY <2>1, <2>2, <2>3, <2>5 DEF TablesOK
  <2>9. Progress'
    BY <2>1, <2>4, <2>7, <2>8 DEF Counts, Progress, Working
  <2>10. QED
    BY <2>6, <2>9 DEF Counts
<1>7. ASSUME NEW s \in Server, SaveDone(s) \/ HealthyByDefault(s)
      PROVE  Counts'
  <2>1. /\ pc[s] = "correlate" \/ (pc[s] = "save" /\ toSave[s] = 0)
        /\ pc' = [pc EXCEPT ![s] = "markDone"]
        /\ UNCHANGED <<status, incidents, candidates, win, toSave>>
    BY <1>7 DEF SaveDone, HealthyByDefault, tables, locals, history
  <2>2. win[s] \in Window
    BY <2>1, WorkingWindow DEF Working
  <2>3. incidents[win[s]] \in Nat /\ incidents[win[s]] = candidates[win[s]]
    BY <2>1, <2>2 DEF Counts, Progress, TablesOK
  <2>4. Untouched' /\ DoneIsComplete'
    BY <2>1 DEF Counts, Untouched, DoneIsComplete
  <2>5. Progress'
    BY <2>1, <2>3 DEF Counts, Progress
  <2>6. QED
    BY <2>4, <2>5 DEF Counts
<1>8. ASSUME NEW s \in Server, MarkDone(s) \/ MarkDoneError(s) \/ MarkFailed(s)
      PROVE  Counts'
  <2>1. /\ \/ UNCHANGED status
           \/ pc[s] = "markDone" /\ status' = [status EXCEPT ![win[s]] = "done"]
           \/ status' = [status EXCEPT ![win[s]] = "failed"]
        /\ \E place \in {"idle", "markFailed"} : pc' = [pc EXCEPT ![s] = place]
        /\ UNCHANGED win \/ win' = [win EXCEPT ![s] = 0]
        /\ UNCHANGED toSave \/ toSave' = [toSave EXCEPT ![s] = 0]
        /\ UNCHANGED <<incidents, candidates>>
    BY <1>8 DEF MarkDone, MarkDoneError, MarkFailed, Forget, locals, history
  <2>2. Untouched' /\ DoneIsComplete'
    BY <2>1 DEF Counts, Untouched, DoneIsComplete, Progress, TablesOK
  <2>3. Progress'
    BY <2>1 DEF Counts, Progress
  <2>4. QED
    BY <2>2, <2>3 DEF Counts
<1>9. ASSUME NEW s \in Server,
             \/ Start(s) \/ Stop(s) \/ LoopReturns(s) \/ FetchWindows(s) \/ ClassifyDone(s)
             \/ Reads(s) \/ StepError(s) \/ \E r \in todo[s] : Classify(s, r) \/ ClassifyError(s, r)
      PROVE  Counts'
  <2>1. /\ UNCHANGED <<status, incidents, candidates, win, toSave>>
        /\ \/ UNCHANGED pc
           \/ \E place \in {"off", "idle", "markFailed"} : pc' = [pc EXCEPT ![s] = place]
           \/ /\ pc[s] \in {"fetch", "classify", "reads"}
              /\ \E place \in {"classify", "reads", "correlate"} : pc' = [pc EXCEPT ![s] = place]
    BY <1>9 DEF Start, Stop, LoopReturns, FetchWindows, ClassifyDone, Reads, StepError,
                Classify, ClassifyError, tables, locals, history
  <2>2. QED
    BY <2>1, CountsQuiet
<1>10. QED
  BY <1>1, <1>2, <1>3, <1>4, <1>5, <1>6, <1>7, <1>8, <1>9 DEF Next, ProcessWindow

\* Nothing an engine takes for malicious, and nothing it has read, can become
\* unrecorded by a step that only moves it outside the checked places.
LEMMA DecisionsQuiet ==
  ASSUME Decisions, decisions \subseteq decisions', consulted \subseteq consulted',
         UNCHANGED <<win, fetched, todo, malicious, others>>,
         \A s \in Server : pc'[s] = pc[s] \/ pc'[s] \in {"off", "idle", "fetch", "markFailed"}
  PROVE  Decisions'
<1>1. Classified'
  BY DEF Decisions, Classified
<1>2. \A s \in Server : malicious'[s] \subseteq decisions'
  BY DEF Decisions, DecisionsRecorded
<1>3. \A s \in Server :
        pc'[s] \in {"reads", "correlate", "save", "markDone"} => fetched'[s] \subseteq decisions'
  BY DEF Decisions, DecisionsRecorded
<1>4. \A s \in Server : pc'[s] = "markDone" /\ SomethingToCorrelate(s)' => win'[s] \in consulted'
  <2>1. \A s \in Server : SomethingToCorrelate(s)' <=> SomethingToCorrelate(s)
    BY DEF SomethingToCorrelate
  <2>2. QED
    BY <2>1 DEF Decisions, DecisionsRecorded
<1>5. QED
  BY <1>1, <1>2, <1>3, <1>4 DEF Decisions, DecisionsRecorded

LEMMA DecisionsStep ==
  ASSUME TypeInv, Decisions, Next
  PROVE  Decisions'
<1> USE DEF TypeInv, LocalsOK, Goto
<1>1. CASE CloseWindow \/ \E r \in Row : InsertPassRow(r)
  BY <1>1, DecisionsQuiet DEF CloseWindow, InsertPassRow, tables, locals, history
<1>2. ASSUME NEW s \in Server,
             \/ Start(s) \/ Stop(s) \/ LoopReturns(s) \/ AcquireError(s) \/ SaveIncident(s)
             \/ StepError(s) \/ SaveError(s) \/ MarkDoneError(s) \/ \E r \in todo[s] : ClassifyError(s, r)
      PROVE  Decisions'
  <2>1. /\ decisions \subseteq decisions' /\ UNCHANGED consulted
        /\ UNCHANGED <<win, fetched, todo, malicious, others>>
        /\ UNCHANGED pc \/ \E place \in {"off", "idle", "markFailed"} : pc' = [pc EXCEPT ![s] = place]
    BY <1>2 DEF Start, Stop, LoopReturns, AcquireError, SaveIncident, StepError, SaveError,
                MarkDoneError, ClassifyError, tables, locals, history
  <2>2. QED
    BY <2>1, DecisionsQuiet
<1>3. ASSUME NEW s \in Server, Acquire(s)
      PROVE  Decisions'
  <2>1. /\ pc' = [pc EXCEPT ![s] = "fetch"] /\ win' = [win EXCEPT ![s] = clock]
        /\ UNCHANGED <<decisions, consulted, fetched, todo, malicious, others>>
    BY <1>3 DEF Acquire
  <2>2. \A t \in Server : SomethingToCorrelate(t)' <=> SomethingToCorrelate(t)
    BY <2>1 DEF SomethingToCorrelate
  <2>3. QED
    BY <2>1, <2>2 DEF Decisions, Classified, DecisionsRecorded
<1>4. ASSUME NEW s \in Server, Crash(s) \/ MarkDone(s) \/ MarkFailed(s) \/ MarkFailedError(s)
      PROVE  Decisions'
  <2>1. /\ \E place \in {"off", "idle"} : pc' = [pc EXCEPT ![s] = place]
        /\ UNCHANGED <<decisions, consulted>>
    BY <1>4 DEF Crash, MarkDone, MarkFailed, MarkFailedError, tables, history
  <2>2. Forget(s)
    BY <1>4 DEF Crash, MarkDone, MarkFailed, MarkFailedError
  <2>3. malicious'[s] = {} /\ pc'[s] \in {"off", "idle"}
    BY <2>1, <2>2 DEF Forget
  <2>4. \A t \in Server \ {s} :
          /\ pc'[t] = pc[t] /\ win'[t] = win[t] /\ fetched'[t] = fetched[t]
          /\ todo'[t] = todo[t] /\ malicious'[t] = malicious[t]
    BY <2>1, <2>2 DEF Forget
  <2>5. \A t \in Server \ {s} : others'[t] = others[t]
    BY <2>2, Zenon DEF Forget, FlagsOK
  <2>6. \A t \in Server \ {s} : SomethingToCorrelate(t)' <=> SomethingToCorrelate(t)
    BY <2>4, <2>5 DEF SomethingToCorrelate
  <2>7. QED
    BY <2>1, <2>3, <2>4, <2>6 DEF Decisions, Classified, DecisionsRecorded
<1>5. ASSUME NEW s \in Server, FetchWindows(s)
      PROVE  Decisions'
  <2>1. /\ \E rs \in SUBSET passRows :
             fetched' = [fetched EXCEPT ![s] = rs] /\ todo' = [todo EXCEPT ![s] = rs]
        /\ malicious' = [malicious EXCEPT ![s] = {}] /\ pc' = [pc EXCEPT ![s] = "classify"]
        /\ UNCHANGED <<decisions, consulted, win, others>>
    BY <1>5 DEF FetchWindows, tables, history
  <2>2. \A t \in Server \ {s} : SomethingToCorrelate(t)' <=> SomethingToCorrelate(t)
    BY <2>1 DEF SomethingToCorrelate
  <2>3. QED
    BY <2>1, <2>2 DEF Decisions, Classified, DecisionsRecorded
<1>6. ASSUME NEW s \in Server, NEW r \in todo[s], Classify(s, r)
      PROVE  Decisions'
  <2>1. /\ pc[s] = "classify" /\ decisions' = decisions \cup {r}
        /\ todo' = [todo EXCEPT ![s] = @ \ {r}]
        /\ UNCHANGED malicious \/ malicious' = [malicious EXCEPT ![s] = @ \cup {r}]
        /\ UNCHANGED <<pc, consulted, win, fetched, others>>
    BY <1>6 DEF Classify, history
  <2>2. \A t \in Server \ {s} : SomethingToCorrelate(t)' <=> SomethingToCorrelate(t)
    BY <2>1 DEF SomethingToCorrelate
  <2>3. Classified'
    BY <2>1 DEF Decisions, Classified
  <2>4. DecisionsRecorded'
    BY <2>1, <2>2 DEF Decisions, DecisionsRecorded
  <2>5. QED
    BY <2>3, <2>4 DEF Decisions
<1>7. ASSUME NEW s \in Server, ClassifyDone(s) \/ Reads(s)
      PROVE  Decisions'
  <2>1. /\ \/ pc[s] = "classify" /\ todo[s] = {} /\ pc' = [pc EXCEPT ![s] = "reads"]
           \/ pc[s] = "reads" /\ pc' = [pc EXCEPT ![s] = "correlate"]
        /\ UNCHANGED <<decisions, consulted, win, fetched, todo, malicious>>
    BY <1>7 DEF ClassifyDone, Reads, tables, locals, history
  <2>2. \A t \in Server \ {s} : others'[t] = others[t]
    BY <1>7, Zenon DEF ClassifyDone, Reads, FlagsOK, locals
  <2>3. \A t \in Server \ {s} : SomethingToCorrelate(t)' <=> SomethingToCorrelate(t)
    BY <2>1, <2>2 DEF SomethingToCorrelate
  <2>4. Classified'
    BY <2>1 DEF Decisions, Classified
  <2>5. DecisionsRecorded'
    BY <2>1, <2>3 DEF Decisions, Classified, DecisionsRecorded
  <2>6. QED
    BY <2>4, <2>5 DEF Decisions
<1>8. ASSUME NEW s \in Server, HealthyByDefault(s) \/ SaveDone(s)
      PROVE  Decisions'
  <2>1. /\ ~SomethingToCorrelate(s) \/ win[s] \in consulted
        /\ pc[s] \in {"correlate", "save"} /\ pc' = [pc EXCEPT ![s] = "markDone"]
        /\ UNCHANGED <<decisions, consulted, win, fetched, todo, malicious, others>>
    BY <1>8 DEF HealthyByDefault, SaveDone, Decisions, Classified, tables, locals, history
  <2>2. \A t \in Server : SomethingToCorrelate(t)' <=> SomethingToCorrelate(t)
    BY <2>1 DEF SomethingToCorrelate
  <2>3. QED
    BY <2>1, <2>2 DEF Decisions, Classified, DecisionsRecorded
<1>9. ASSUME NEW s \in Server, Correlate(s)
      PROVE  Decisions'
  <2>1. /\ consulted' = consulted \cup {win[s]}
        /\ pc[s] = "correlate" /\ pc' = [pc EXCEPT ![s] = "save"]
        /\ UNCHANGED <<decisions, win, fetched, todo, malicious, others>>
    BY <1>9 DEF Correlate, tables
  <2>2. \A t \in Server : SomethingToCorrelate(t)' <=> SomethingToCorrelate(t)
    BY <2>1 DEF SomethingToCorrelate
  <2>3. QED
    BY <2>1, <2>2 DEF Decisions, Classified, DecisionsRecorded
<1>10. QED
  BY <1>1, <1>2, <1>3, <1>4, <1>5, <1>6, <1>7, <1>8, <1>9 DEF Next, ProcessWindow

LEMMA EngineInvStep == EngineInv /\ [Next]_vars => EngineInv'
<1> SUFFICES ASSUME EngineInv, [Next]_vars PROVE EngineInv'
  OBVIOUS
<1>1. TypeInv'
  BY TypeStep DEF EngineInv
<1>2. CASE Next
  BY <1>1, <1>2, OwnershipStep, CountsStep, DecisionsStep DEF EngineInv
<1>3. CASE UNCHANGED vars
  BY <1>1, <1>3, OwnershipQuiet, CountsQuiet, DecisionsQuiet
     DEF EngineInv, vars, tables, locals, history
<1>4. QED
  BY <1>2, <1>3

LEMMA EngineInvAlways == Spec => []EngineInv
BY InitEngineInv, EngineInvStep, PTL DEF Spec

\* The engine never leaves its types: every server is at a statement of its
\* loop, and what it works on is a window, or nothing.
THEOREM EngineTypeCorrect == Spec => []TypeOK
<1>1. EngineInv => TypeOK
  BY TypeParts DEF EngineInv, TypeInv
<1>2. QED
  BY <1>1, EngineInvAlways, PTL

\* A window marked "done" holds every incident of the LLM's answer, once, and
\* no window ever holds more.
THEOREM WindowDoneIsComplete == Spec => []DoneIsComplete
<1>1. EngineInv => DoneIsComplete
  BY DEF EngineInv, Counts
<1>2. QED
  BY <1>1, EngineInvAlways, PTL

\* A verdict is only used once its BART decision is saved, and a window with
\* something malicious is not closed without asking the LLM.
THEOREM VerdictsAreRecorded == Spec => []DecisionsRecorded
<1>1. EngineInv => DecisionsRecorded
  BY DEF EngineInv, Decisions
<1>2. QED
  BY <1>1, EngineInvAlways, PTL

\* One owner per window, and an open window has its owner unless that owner
\* died or could not record the outcome.
THEOREM OneOwnerPerWindow == Spec => []OpenHasOwner
<1>1. EngineInv => OpenHasOwner
  BY DEF EngineInv, Ownership
<1>2. QED
  BY <1>1, EngineInvAlways, PTL

----------------------------------------------------------------------------
(* correlation_windows implements the ledger *)

LEMMA LedgerClaim ==
  ASSUME EngineInv, NEW s \in Server, Acquire(s) \/ AcquireError(s)
  PROVE  Ledger!Next
<1>1. clock \in Window /\ status[clock] = "absent"
  BY EngineAssumption DEF Acquire, AcquireError, EngineInv, TypeInv, TablesOK, Window, EngineAssumption
<1>2. CASE Acquire(s)
  <2>1. owner[clock] = {}
    BY <1>1 DEF EngineInv, Ownership, Unowned
  <2>2. status' = [status EXCEPT ![clock] = "processing"] /\ owner' = [owner EXCEPT ![clock] = {s}]
    BY <1>2, <2>1 DEF Acquire
  <2>3. Ledger!Claim(clock, s)
    BY <1>1, <2>2 DEF Ledger!Claim
  <2>4. QED
    BY <1>1, <2>3 DEF Ledger!Next
<1>3. CASE AcquireError(s)
  <2>1. Ledger!ClaimUnheard(clock)
    BY <1>1, <1>3 DEF AcquireError, Ledger!ClaimUnheard
  <2>2. QED
    BY <1>1, <2>1 DEF Ledger!Next
<1>4. QED
  BY <1>2, <1>3

\* A server may mark its window because the window is still its own.
LEMMA LedgerMark ==
  ASSUME EngineInv, NEW s \in Server, MarkDone(s) \/ MarkDoneError(s) \/ MarkFailed(s)
  PROVE  [Ledger!Next]_(Ledger!vars)
<1>1. /\ win[s] \in Window /\ win[s] # 0 /\ owner[win[s]] # {}
      /\ status[win[s]] = "processing" \/ (pc[s] = "markFailed" /\ status[win[s]] = "done")
  <2>1. win[s] \in Window /\ win[s] # 0
    BY WorkingWindow DEF EngineInv, TypeInv, OwnsWindow, Working, MarkDone, MarkDoneError, MarkFailed
  <2>2. QED
    BY <2>1 DEF EngineInv, Ownership, Claimed
<1>2. CASE MarkDone(s) \/ MarkDoneError(s)
  <2>1. pc[s] = "markDone" /\ UNCHANGED owner
    BY <1>2 DEF MarkDone, MarkDoneError, history
  <2>2. CASE status' = [status EXCEPT ![win[s]] = "done"]
    <3>1. Ledger!MarkDone(win[s])
      BY <1>1, <2>1, <2>2 DEF Ledger!MarkDone
    <3>2. QED
      BY <1>1, <3>1 DEF Ledger!Next
  <2>3. CASE UNCHANGED status
    BY <2>1, <2>3 DEF Ledger!vars
  <2>4. QED
    BY <1>2, <2>2, <2>3 DEF MarkDone, MarkDoneError
<1>3. CASE MarkFailed(s)
  <2>1. Ledger!MarkFailed(win[s])
    BY <1>1, <1>3 DEF MarkFailed, Ledger!MarkFailed, history
  <2>2. QED
    BY <1>1, <2>1 DEF Ledger!Next
<1>4. QED
  BY <1>2, <1>3

LEMMA LedgerStep ==
  ASSUME EngineInv, [Next]_vars
  PROVE  [Ledger!Next]_(Ledger!vars)
<1>1. ASSUME NEW s \in Server, Acquire(s) \/ AcquireError(s)
      PROVE  Ledger!Next
  BY <1>1, LedgerClaim
<1>2. ASSUME NEW s \in Server, MarkDone(s) \/ MarkDoneError(s) \/ MarkFailed(s)
      PROVE  [Ledger!Next]_(Ledger!vars)
  BY <1>2, LedgerMark
<1>3. ASSUME NEW s \in Server,
             \/ Start(s) \/ Stop(s) \/ LoopReturns(s) \/ Crash(s) \/ FetchWindows(s)
             \/ ClassifyDone(s) \/ Reads(s) \/ HealthyByDefault(s) \/ Correlate(s)
             \/ SaveIncident(s) \/ SaveDone(s) \/ StepError(s) \/ SaveError(s) \/ MarkFailedError(s)
             \/ \E r \in todo[s] : Classify(s, r) \/ ClassifyError(s, r)
      PROVE  UNCHANGED Ledger!vars
  BY <1>3 DEF Start, Stop, LoopReturns, Crash, FetchWindows, ClassifyDone, Reads,
              HealthyByDefault, Correlate, SaveIncident, SaveDone, StepError, SaveError,
              MarkFailedError, Classify, ClassifyError, tables, history, Ledger!vars
<1>4. CASE CloseWindow \/ \E r \in Row : InsertPassRow(r)
  BY <1>4 DEF CloseWindow, InsertPassRow, tables, history, Ledger!vars
<1>5. CASE UNCHANGED vars
  BY <1>5 DEF vars, tables, history, Ledger!vars
<1>6. QED
  BY <1>1, <1>2, <1>3, <1>4, <1>5 DEF Next, ProcessWindow

\* correlation_windows, as any number of engines use it, is the abstract
\* ledger: one claim per window, ever, and only an owner closes it.
THEOREM EngineImplementsLedger == Spec => ImplementsLedger
<1>1. Init => Ledger!Init
  BY DEF Init, Ledger!Init
<1>2. EngineInv /\ [Next]_vars => [Ledger!Next]_(Ledger!vars)
  BY LedgerStep
<1>3. QED
  BY <1>1, <1>2, EngineInvAlways, PTL DEF Spec, ImplementsLedger, Ledger!Spec

----------------------------------------------------------------------------
(***************************************************************************)
(* What is asked once, and what no longer changes.  That a window's rows   *)
(* go to the LLM once needs both halves of the claim: the window of a      *)
(* server that has yet to ask was not asked about (NotAsked), which a new  *)
(* owner inherits from a window without a row (Unconsulted).               *)
(***************************************************************************)
BeforeAsking == {"fetch", "classify", "reads", "correlate"}

NotAsked == \A s \in Server : pc[s] \in BeforeAsking => win[s] \notin consulted

Unconsulted == \A w \in Window : status[w] = "absent" => w \notin consulted

AskedInv == NotAsked /\ Unconsulted

LEMMA InitAskedInv == Init => AskedInv
BY DEF Init, AskedInv, NotAsked, Unconsulted

\* A step that asks nothing preserves AskedInv unless it takes a server back
\* before the call, or to another window.
LEMMA AskedQuiet ==
  ASSUME AskedInv, UNCHANGED consulted,
         \A w \in Window : status'[w] = "absent" => status[w] = "absent",
         \A s \in Server : pc'[s] \in BeforeAsking => pc[s] \in BeforeAsking /\ win'[s] = win[s]
  PROVE  AskedInv'
BY DEF AskedInv, NotAsked, Unconsulted

LEMMA AskedStep ==
  ASSUME EngineInv, AskedInv, Next
  PROVE  AskedInv'
<1> USE DEF EngineInv, TypeInv, LocalsOK, Goto
<1>1. CASE CloseWindow \/ \E r \in Row : InsertPassRow(r)
  BY <1>1, AskedQuiet DEF CloseWindow, InsertPassRow, tables, locals, history
<1>2. ASSUME NEW s \in Server, Acquire(s)
      PROVE  AskedInv'
  <2>1. /\ clock \in Window /\ status[clock] = "absent"
        /\ status' = [status EXCEPT ![clock] = "processing"]
        /\ win' = [win EXCEPT ![s] = clock] /\ pc' = [pc EXCEPT ![s] = "fetch"]
        /\ UNCHANGED consulted
    BY <1>2, EngineAssumption DEF Acquire, TablesOK, Window, EngineAssumption
  <2>2. NotAsked'
    BY <2>1 DEF AskedInv, NotAsked, Unconsulted
  <2>3. Unconsulted'
    BY <2>1 DEF AskedInv, Unconsulted, TablesOK
  <2>4. QED
    BY <2>2, <2>3 DEF AskedInv
<1>3. ASSUME NEW s \in Server, Correlate(s)
      PROVE  AskedInv'
  <2>1. /\ pc[s] = "correlate" /\ pc' = [pc EXCEPT ![s] = "save"]
        /\ consulted' = consulted \cup {win[s]}
        /\ UNCHANGED <<status, win>>
    BY <1>3 DEF Correlate, tables
  <2>2. win[s] \in Window /\ win[s] # 0
    BY <2>1, WorkingWindow DEF OwnsWindow, Working
  <2>3. status[win[s]] # "absent"
    BY <2>1, <2>2 DEF Ownership, Claimed
  <2>4. \A t \in Server \ {s} : win[t] # win[s]
    BY <2>2 DEF Ownership, OpenHasOwner
  <2>5. NotAsked'
    BY <2>1, <2>4 DEF AskedInv, NotAsked, BeforeAsking
  <2>6. Unconsulted'
    BY <2>1, <2>3 DEF AskedInv, Unconsulted
  <2>7. QED
    BY <2>5, <2>6 DEF AskedInv
<1>4. ASSUME NEW s \in Server, MarkDone(s) \/ MarkFailed(s) \/ MarkDoneError(s)
      PROVE  AskedInv'
  <2>1. /\ UNCHANGED consulted
        /\ \E place \in {"idle", "markFailed"} : pc' = [pc EXCEPT ![s] = place]
        /\ UNCHANGED win \/ win' = [win EXCEPT ![s] = 0]
        /\ UNCHANGED status \/ \E o \in {"done", "failed"} : status' = [status EXCEPT ![win[s]] = o]
    BY <1>4 DEF MarkDone, MarkFailed, MarkDoneError, Forget, locals, history
  <2>2. \A w \in Window : status'[w] = "absent" => status[w] = "absent"
    BY <2>1 DEF TablesOK
  <2>3. QED
    BY <2>1, <2>2, AskedQuiet DEF BeforeAsking
<1>5. ASSUME NEW s \in Server, AcquireError(s)
      PROVE  AskedInv'
  <2>1. /\ UNCHANGED <<consulted, pc, win>>
        /\ status' = [status EXCEPT ![clock] = "processing"]
    BY <1>5 DEF AcquireError, locals
  <2>2. \A w \in Window : status'[w] = "absent" => status[w] = "absent"
    BY <2>1 DEF TablesOK
  <2>3. QED
    BY <2>1, <2>2, AskedQuiet
<1>6. ASSUME NEW s \in Server,
             \/ Start(s) \/ Stop(s) \/ LoopReturns(s) \/ Crash(s) \/ MarkFailedError(s)
             \/ FetchWindows(s) \/ ClassifyDone(s) \/ Reads(s) \/ HealthyByDefault(s)
             \/ SaveIncident(s) \/ SaveDone(s) \/ StepError(s) \/ SaveError(s)
             \/ \E r \in todo[s] : Classify(s, r) \/ ClassifyError(s, r)
      PROVE  AskedInv'
  <2>1. /\ UNCHANGED <<status, consulted>>
        /\ \/ UNCHANGED pc
           \/ \E place \in {"off", "idle", "markDone", "markFailed"} : pc' = [pc EXCEPT ![s] = place]
           \/ /\ pc[s] \in BeforeAsking
              /\ \E place \in BeforeAsking : pc' = [pc EXCEPT ![s] = place]
        /\ \/ UNCHANGED win
           \/ win' = [win EXCEPT ![s] = 0] /\ pc'[s] \in {"off", "idle"}
    BY <1>6 DEF Start, Stop, LoopReturns, Crash, MarkFailedError, FetchWindows, ClassifyDone,
                Reads, HealthyByDefault, SaveIncident, SaveDone, StepError, SaveError, Classify,
                ClassifyError, Forget, BeforeAsking, tables, locals, history
  <2>2. QED
    BY <2>1, AskedQuiet DEF BeforeAsking
<1>7. QED
  BY <1>1, <1>2, <1>3, <1>4, <1>5, <1>6 DEF Next, ProcessWindow

LEMMA AskedInvAlways == Spec => []AskedInv
<1>1. EngineInv /\ AskedInv /\ [Next]_vars => AskedInv'
  <2> SUFFICES ASSUME EngineInv, AskedInv, [Next]_vars PROVE AskedInv'
    OBVIOUS
  <2>1. CASE Next
    BY <2>1, AskedStep
  <2>2. CASE UNCHANGED vars
    BY <2>2, AskedQuiet DEF vars, tables, locals, history
  <2>3. QED
    BY <2>1, <2>2
<1>2. QED
  BY <1>1, InitAskedInv, EngineInvAlways, PTL DEF Spec

\* No server asks the LLM about a window that any server has had an answer
\* for: not after a crash, nor after a claim it never heard of.
THEOREM AskedOncePerWindow ==
  Spec => [][\A s \in Server : Correlate(s) => win[s] \notin consulted]_vars
<1>1. AskedInv => \A s \in Server : Correlate(s) => win[s] \notin consulted
  BY DEF AskedInv, NotAsked, BeforeAsking, Correlate
<1>2. QED
  BY <1>1, AskedInvAlways, PTL

LEMMA OutcomeStays ==
  ASSUME EngineInv, Next, NEW w \in Window, status[w] \in {"done", "failed"}
  PROVE  incidents'[w] = incidents[w] /\ candidates'[w] = candidates[w]
<1>1. ASSUME NEW s \in Server, Correlate(s) \/ SaveIncident(s) \/ SaveError(s)
      PROVE  incidents'[w] = incidents[w] /\ candidates'[w] = candidates[w]
  <2>1. /\ pc[s] \in {"correlate", "save"}
        /\ UNCHANGED incidents \/ incidents' = [incidents EXCEPT ![win[s]] = @ + 1]
        /\ UNCHANGED candidates \/ \E n \in 0..MaxCandidates : candidates' = [candidates EXCEPT ![win[s]] = n]
    BY <1>1 DEF Correlate, SaveIncident, SaveError, tables, history
  <2>2. win[s] # 0
    BY <2>1 DEF EngineInv, TypeInv, OwnsWindow, Working
  <2>3. win[s] # w
    BY <2>1, <2>2 DEF EngineInv, Ownership, Claimed
  <2>4. QED
    BY <2>1, <2>3 DEF EngineInv, TypeInv, TablesOK, HistoryOK
<1>2. ASSUME NEW s \in Server,
             \/ Start(s) \/ Stop(s) \/ LoopReturns(s) \/ Crash(s) \/ Acquire(s) \/ AcquireError(s)
             \/ FetchWindows(s) \/ ClassifyDone(s) \/ Reads(s) \/ HealthyByDefault(s) \/ SaveDone(s)
             \/ MarkDone(s) \/ StepError(s) \/ MarkDoneError(s) \/ MarkFailed(s) \/ MarkFailedError(s)
             \/ \E r \in todo[s] : Classify(s, r) \/ ClassifyError(s, r)
      PROVE  UNCHANGED <<incidents, candidates>>
  BY <1>2 DEF Start, Stop, LoopReturns, Crash, Acquire, AcquireError, FetchWindows, ClassifyDone,
              Reads, HealthyByDefault, SaveDone, MarkDone, StepError, MarkDoneError, MarkFailed,
              MarkFailedError, Classify, ClassifyError, tables, history
<1>3. CASE CloseWindow \/ \E r \in Row : InsertPassRow(r)
  BY <1>3 DEF CloseWindow, InsertPassRow, tables, history
<1>4. QED
  BY <1>1, <1>2, <1>3 DEF Next, ProcessWindow

\* Once a window is marked, done or failed, no server stores another incident
\* of it or gets another answer about it.
THEOREM OutcomeIsFinal ==
  Spec => [][\A w \in Window : status[w] \in {"done", "failed"} =>
               incidents'[w] = incidents[w] /\ candidates'[w] = candidates[w]]_vars
<1> DEFINE Final == \A w \in Window : status[w] \in {"done", "failed"} =>
                      incidents'[w] = incidents[w] /\ candidates'[w] = candidates[w]
<1>1. EngineInv /\ [Next]_vars => [Final]_vars
  BY OutcomeStays
<1>2. QED
  BY <1>1, EngineInvAlways, PTL DEF Spec
=============================================================================
