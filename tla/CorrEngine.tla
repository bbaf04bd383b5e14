------------------------------ MODULE CorrEngine ------------------------------
(***************************************************************************)
(* internal/correlationengine: engine.go, repository.go and window.go.     *)
(* Several servers run the engine against one database.  Every tick looks  *)
(* at the most recent closed window only, claims it by inserting its row   *)
(* in correlation_windows, and runs it through classification, the         *)
(* correlator LLM and persistence.  One action is one database statement   *)
(* or one call out, so that other servers, crashes and Stop() come between *)
(* any two.                                                                *)
(*                                                                         *)
(* A statement that returns an error may have been executed (the reply is  *)
(* what was lost): the "...Error" actions choose.  The firewall and SCADA  *)
(* reads and the process chain evidence only decide whether there is       *)
(* anything to correlate besides the malicious Windows rows.               *)
(***************************************************************************)
EXTENDS Naturals, FiniteSets

CONSTANTS
  Server,        \* detection servers, each with one Engine
  MaxWindow,     \* bound: windows are numbered 1..MaxWindow
  Row,           \* rows the watcher may write to llm_pass_1
  WindowOf,      \* the window a row's window_ts falls in
  MaxCandidates, \* bound: incident candidates in one LLM answer
  DbFaults,      \* TRUE: any statement may return an error
  MaxStops,      \* bound: Engine.Stop() calls
  MaxCrashes     \* bound: process crashes

Window == 1..MaxWindow

ASSUME EngineAssumption ==
  /\ MaxWindow \in Nat \ {0}
  /\ WindowOf \in [Row -> Window]
  /\ MaxCandidates \in Nat
  /\ DbFaults \in BOOLEAN
  /\ MaxStops \in Nat
  /\ MaxCrashes \in Nat

VARIABLES
  clock,       \* the most recent closed window (LastClosedWindow), 0 before the first
  status,      \* correlation_windows.status, "absent" without a row
  passRows,    \* llm_pass_1
  decisions,   \* rows with a decision in bart_event_decisions
  incidents,   \* per window: rows in correlation_incidents
  pc,          \* per server: where its loop is
  win,         \* per server: the window it owns, 0 for none
  fetched,     \* per server: the rows it read for its window
  todo,        \* per server: the rows still to classify
  malicious,   \* per server: rows classified malicious
  others,      \* per server: the window has firewall or SCADA events
  toSave,      \* per server: incident candidates not yet inserted
  cancelled,   \* per server: Engine.ctx is cancelled
  stopCount, crashCount,
  \* History
  owner,       \* per window: servers that were told they own it
  candidates,  \* per window: incident candidates the LLM returned
  consulted,   \* windows for which the LLM gave an answer
  lost         \* windows whose owner died, or could not record the outcome

tables == <<status, passRows, decisions, incidents>>
locals == <<win, fetched, todo, malicious, others, toSave>>
history == <<owner, candidates, consulted, lost>>
vars == <<clock, tables, pc, locals, cancelled, stopCount, crashCount, history>>

Working == {"fetch", "classify", "reads", "correlate", "save", "markDone", "markFailed"}

TypeOK ==
  /\ clock \in 0..MaxWindow
  /\ status \in [Window -> {"absent", "processing", "done", "failed"}]
  /\ passRows \subseteq Row
  /\ decisions \subseteq Row
  /\ incidents \in [Window -> Nat]
  /\ pc \in [Server -> {"off", "idle"} \cup Working]
  /\ win \in [Server -> 0..MaxWindow]
  /\ fetched \in [Server -> SUBSET Row]
  /\ todo \in [Server -> SUBSET Row]
  /\ malicious \in [Server -> SUBSET Row]
  /\ others \in [Server -> BOOLEAN]
  /\ toSave \in [Server -> 0..MaxCandidates]
  /\ cancelled \in [Server -> BOOLEAN]
  /\ stopCount \in 0..MaxStops
  /\ crashCount \in 0..MaxCrashes
  /\ owner \in [Window -> SUBSET Server]
  /\ candidates \in [Window -> 0..MaxCandidates]
  /\ consulted \subseteq Window
  /\ lost \subseteq Window

Init ==
  /\ clock = 0
  /\ status = [w \in Window |-> "absent"]
  /\ passRows = {} /\ decisions = {}
  /\ incidents = [w \in Window |-> 0]
  /\ pc = [s \in Server |-> "off"]
  /\ win = [s \in Server |-> 0]
  /\ fetched = [s \in Server |-> {}]
  /\ todo = [s \in Server |-> {}]
  /\ malicious = [s \in Server |-> {}]
  /\ others = [s \in Server |-> FALSE]
  /\ toSave = [s \in Server |-> 0]
  /\ cancelled = [s \in Server |-> FALSE]
  /\ stopCount = 0 /\ crashCount = 0
  /\ owner = [w \in Window |-> {}]
  /\ candidates = [w \in Window |-> 0]
  /\ consulted = {} /\ lost = {}

\* A statement of server s can succeed: its context is still alive.
Alive(s) == ~cancelled[s]
\* A statement of server s can return an error.
CanFail(s) == DbFaults \/ cancelled[s]

Goto(s, place) == pc' = [pc EXCEPT ![s] = place]

----------------------------------------------------------------------------
(* The world around the engines *)

\* A window closes.
CloseWindow ==
  /\ clock < MaxWindow
  /\ clock' = clock + 1
  /\ UNCHANGED <<tables, pc, locals, cancelled, stopCount, crashCount, history>>

\* The watcher writes a row of a window that has begun; it may come late.
InsertPassRow(r) ==
  /\ r \notin passRows
  /\ WindowOf[r] <= clock + 1
  /\ passRows' = passRows \cup {r}
  /\ UNCHANGED <<clock, status, decisions, incidents, pc, locals, cancelled,
                 stopCount, crashCount, history>>

----------------------------------------------------------------------------
(* Start, Stop, crash *)

\* Start(): the loop runs runOnce before its first tick.
Start(s) ==
  /\ pc[s] = "off"
  /\ Goto(s, "idle")
  /\ cancelled' = [cancelled EXCEPT ![s] = FALSE]
  /\ UNCHANGED <<clock, tables, locals, stopCount, crashCount, history>>

\* Stop() cancels the context, and waits for the loop.
Stop(s) ==
  /\ pc[s] # "off" /\ Alive(s)
  /\ stopCount < MaxStops
  /\ stopCount' = stopCount + 1
  /\ cancelled' = [cancelled EXCEPT ![s] = TRUE]
  /\ UNCHANGED <<clock, tables, pc, locals, crashCount, history>>

LoopReturns(s) ==
  /\ pc[s] = "idle" /\ cancelled[s]
  /\ Goto(s, "off")
  /\ UNCHANGED <<clock, tables, locals, cancelled, stopCount, crashCount, history>>

\* The process memory is lost.
Forget(s) ==
  /\ win' = [win EXCEPT ![s] = 0]
  /\ fetched' = [fetched EXCEPT ![s] = {}]
  /\ todo' = [todo EXCEPT ![s] = {}]
  /\ malicious' = [malicious EXCEPT ![s] = {}]
  /\ others' = [others EXCEPT ![s] = FALSE]
  /\ toSave' = [toSave EXCEPT ![s] = 0]

Crash(s) ==
  /\ pc[s] # "off"
  /\ crashCount < MaxCrashes
  /\ crashCount' = crashCount + 1
  /\ Goto(s, "off")
  /\ Forget(s)
  /\ lost' = lost \cup (Window \cap {win[s]})
  /\ UNCHANGED <<clock, tables, cancelled, stopCount, owner, candidates, consulted>>

----------------------------------------------------------------------------
(* runOnce: claim the last closed window *)

\* Mutant of Acquire: SELECT, then INSERT, without the UNIQUE constraint: a
\* window that is being processed is taken again.
AcquireUnlessClosed(s) ==
  /\ pc[s] = "idle" /\ Alive(s)
  /\ clock > 0 /\ status[clock] \in {"absent", "processing"}
  /\ status' = [status EXCEPT ![clock] = "processing"]
  /\ owner' = [owner EXCEPT ![clock] = @ \cup {s}]
  /\ win' = [win EXCEPT ![s] = clock]
  /\ Goto(s, "fetch")
  /\ UNCHANGED <<clock, passRows, decisions, incidents, fetched, todo, malicious,
                 others, toSave, cancelled, stopCount, crashCount, candidates,
                 consulted, lost>>

\* Mutant of Acquire: a failed window is taken again (ON CONFLICT DO UPDATE).
AcquireRetriesFailed(s) ==
  /\ pc[s] = "idle" /\ Alive(s)
  /\ clock > 0 /\ status[clock] \in {"absent", "failed"}
  /\ status' = [status EXCEPT ![clock] = "processing"]
  /\ owner' = [owner EXCEPT ![clock] = @ \cup {s}]
  /\ win' = [win EXCEPT ![s] = clock]
  /\ Goto(s, "fetch")
  /\ UNCHANGED <<clock, passRows, decisions, incidents, fetched, todo, malicious,
                 others, toSave, cancelled, stopCount, crashCount, candidates,
                 consulted, lost>>

\* tryStartWindow: INSERT ... ON CONFLICT DO NOTHING RETURNING id.  With a
\* row already there the tick does nothing.
Acquire(s) ==
  /\ pc[s] = "idle" /\ Alive(s)
  /\ clock > 0 /\ status[clock] = "absent"
  /\ status' = [status EXCEPT ![clock] = "processing"]
  /\ owner' = [owner EXCEPT ![clock] = @ \cup {s}]
  /\ win' = [win EXCEPT ![s] = clock]
  /\ Goto(s, "fetch")
  /\ UNCHANGED <<clock, passRows, decisions, incidents, fetched, todo, malicious,
                 others, toSave, cancelled, stopCount, crashCount, candidates,
                 consulted, lost>>

\* The row was inserted but runOnce sees an error and gives the window up.
AcquireError(s) ==
  /\ pc[s] = "idle" /\ DbFaults
  /\ clock > 0 /\ status[clock] = "absent"
  /\ status' = [status EXCEPT ![clock] = "processing"]
  /\ lost' = lost \cup {clock}
  /\ UNCHANGED <<clock, passRows, decisions, incidents, pc, locals, cancelled,
                 stopCount, crashCount, owner, candidates, consulted>>

----------------------------------------------------------------------------
(* processWindow *)

\* fetchWindowsPassEvents: what is in the table now.
FetchWindows(s) ==
  /\ pc[s] = "fetch" /\ Alive(s)
  /\ LET rs == {r \in passRows : WindowOf[r] = win[s]} IN
       /\ fetched' = [fetched EXCEPT ![s] = rs]
       /\ todo' = [todo EXCEPT ![s] = rs]
  /\ malicious' = [malicious EXCEPT ![s] = {}]
  /\ Goto(s, "classify")
  /\ UNCHANGED <<clock, tables, win, others, toSave, cancelled, stopCount, crashCount, history>>

\* Mutant of Classify: the verdict is used without being saved.
ClassifyUnsaved(s, r) ==
  /\ pc[s] = "classify" /\ Alive(s)
  /\ r \in todo[s]
  /\ todo' = [todo EXCEPT ![s] = @ \ {r}]
  /\ \/ malicious' = [malicious EXCEPT ![s] = @ \cup {r}]
     \/ UNCHANGED malicious
  /\ UNCHANGED <<clock, tables, pc, win, fetched, others, toSave, cancelled,
                 stopCount, crashCount, history>>

\* One iteration of classifyWindowsEvents: BART answers, the decision is
\* saved, and only then does the verdict count.
Classify(s, r) ==
  /\ pc[s] = "classify" /\ Alive(s)
  /\ r \in todo[s]
  /\ decisions' = decisions \cup {r}
  /\ todo' = [todo EXCEPT ![s] = @ \ {r}]
  /\ \/ malicious' = [malicious EXCEPT ![s] = @ \cup {r}]
     \/ UNCHANGED malicious
  /\ UNCHANGED <<clock, status, passRows, incidents, pc, win, fetched, others,
                 toSave, cancelled, stopCount, crashCount, history>>

ClassifyDone(s) ==
  /\ pc[s] = "classify"
  /\ todo[s] = {}
  /\ Goto(s, "reads")
  /\ UNCHANGED <<clock, tables, locals, cancelled, stopCount, crashCount, history>>

\* fetchFirewallEvents, fetchScadaEvents and buildAndStoreProcessChains,
\* whose own failure is only logged.
Reads(s) ==
  /\ pc[s] = "reads" /\ Alive(s)
  /\ \E o \in BOOLEAN : others' = [others EXCEPT ![s] = o]
  /\ Goto(s, "correlate")
  /\ UNCHANGED <<clock, tables, win, fetched, todo, malicious, toSave, cancelled,
                 stopCount, crashCount, history>>

SomethingToCorrelate(s) == malicious[s] # {} \/ others[s]

\* totalForCorrelation = 0: healthy with confidence 1, no LLM call.
HealthyByDefault(s) ==
  /\ pc[s] = "correlate"
  /\ ~SomethingToCorrelate(s)
  /\ Goto(s, "markDone")
  /\ UNCHANGED <<clock, tables, locals, cancelled, stopCount, crashCount, history>>

\* The LLM answers with some incident candidates.
Correlate(s) ==
  /\ pc[s] = "correlate" /\ Alive(s)
  /\ SomethingToCorrelate(s)
  /\ consulted' = consulted \cup {win[s]}
  /\ \E n \in 0..MaxCandidates :
       /\ toSave' = [toSave EXCEPT ![s] = n]
       /\ candidates' = [candidates EXCEPT ![win[s]] = n]
  /\ Goto(s, "save")
  /\ UNCHANGED <<clock, tables, win, fetched, todo, malicious, others, cancelled,
                 stopCount, crashCount, owner, lost>>

\* One iteration of saveIncidents; the rows are not in a transaction.
SaveIncident(s) ==
  /\ pc[s] = "save" /\ Alive(s)
  /\ toSave[s] > 0
  /\ incidents' = [incidents EXCEPT ![win[s]] = @ + 1]
  /\ toSave' = [toSave EXCEPT ![s] = @ - 1]
  /\ UNCHANGED <<clock, status, passRows, decisions, pc, win, fetched, todo, malicious,
                 others, cancelled, stopCount, crashCount, history>>

SaveDone(s) ==
  /\ pc[s] = "save"
  /\ toSave[s] = 0
  /\ Goto(s, "markDone")
  /\ UNCHANGED <<clock, tables, locals, cancelled, stopCount, crashCount, history>>

\* markWindowDone; processWindow returns nil.
MarkDone(s) ==
  /\ pc[s] = "markDone" /\ Alive(s)
  /\ status' = [status EXCEPT ![win[s]] = "done"]
  /\ Goto(s, "idle")
  /\ Forget(s)
  /\ UNCHANGED <<clock, passRows, decisions, incidents, cancelled, stopCount, crashCount, history>>

----------------------------------------------------------------------------
(* Errors *)

\* Mutant of StepError: processWindow swallows the error.
StepErrorSwallowed(s) ==
  /\ \/ pc[s] \in {"fetch", "reads"} /\ CanFail(s)
     \/ pc[s] = "correlate" /\ SomethingToCorrelate(s)
  /\ Goto(s, "idle")
  /\ Forget(s)
  /\ UNCHANGED <<clock, tables, cancelled, stopCount, crashCount, history>>

\* A read fails, or the LLM does: processWindow returns the error.
StepError(s) ==
  /\ \/ pc[s] \in {"fetch", "reads"} /\ CanFail(s)
     \/ pc[s] = "correlate" /\ SomethingToCorrelate(s)
  /\ Goto(s, "markFailed")
  /\ UNCHANGED <<clock, tables, locals, cancelled, stopCount, crashCount, history>>

\* BART is unavailable or fails on a row (its failure is then recorded, if
\* that works), or the row's decision cannot be saved, executed or not.
ClassifyError(s, r) ==
  /\ pc[s] = "classify"
  /\ r \in todo[s]
  /\ \/ UNCHANGED decisions
     \/ decisions' = decisions \cup {r}
  /\ Goto(s, "markFailed")
  /\ UNCHANGED <<clock, status, passRows, incidents, locals, cancelled, stopCount,
                 crashCount, history>>

\* Mutant of SaveError: the failed INSERT is logged and the loop goes on.
SaveErrorLogged(s) ==
  /\ pc[s] = "save" /\ toSave[s] > 0 /\ CanFail(s)
  /\ toSave' = [toSave EXCEPT ![s] = @ - 1]
  /\ UNCHANGED <<clock, tables, pc, win, fetched, todo, malicious, others, cancelled,
                 stopCount, crashCount, history>>

\* An incident INSERT returns an error, executed or not.
SaveError(s) ==
  /\ pc[s] = "save" /\ toSave[s] > 0 /\ CanFail(s)
  /\ \/ UNCHANGED incidents
     \/ incidents' = [incidents EXCEPT ![win[s]] = @ + 1]
  /\ Goto(s, "markFailed")
  /\ UNCHANGED <<clock, status, passRows, decisions, locals, cancelled, stopCount,
                 crashCount, history>>

\* markWindowDone returns an error, executed or not.
MarkDoneError(s) ==
  /\ pc[s] = "markDone" /\ CanFail(s)
  /\ \/ UNCHANGED status
     \/ status' = [status EXCEPT ![win[s]] = "done"]
  /\ Goto(s, "markFailed")
  /\ UNCHANGED <<clock, passRows, decisions, incidents, locals, cancelled, stopCount,
                 crashCount, history>>

MarkFailed(s) ==
  /\ pc[s] = "markFailed" /\ Alive(s)
  /\ status' = [status EXCEPT ![win[s]] = "failed"]
  /\ Goto(s, "idle")
  /\ Forget(s)
  /\ UNCHANGED <<clock, passRows, decisions, incidents, cancelled, stopCount, crashCount, history>>

\* The error of markWindowFailed is discarded.  After Stop() the context is
\* cancelled, so it always fails.
MarkFailedError(s) ==
  /\ pc[s] = "markFailed" /\ CanFail(s)
  /\ Goto(s, "idle")
  /\ Forget(s)
  /\ lost' = lost \cup {win[s]}
  /\ UNCHANGED <<clock, tables, cancelled, stopCount, crashCount, owner, candidates, consulted>>

----------------------------------------------------------------------------

ProcessWindow(s) ==
  \/ FetchWindows(s)
  \/ \E r \in todo[s] : Classify(s, r) \/ ClassifyError(s, r)
  \/ ClassifyDone(s) \/ Reads(s)
  \/ HealthyByDefault(s) \/ Correlate(s)
  \/ SaveIncident(s) \/ SaveDone(s)
  \/ MarkDone(s)
  \/ StepError(s) \/ SaveError(s) \/ MarkDoneError(s)
  \/ MarkFailed(s) \/ MarkFailedError(s)

Next ==
  \/ CloseWindow
  \/ \E r \in Row : InsertPassRow(r)
  \/ \E s \in Server :
       \/ Start(s) \/ Stop(s) \/ LoopReturns(s) \/ Crash(s)
       \/ Acquire(s) \/ AcquireError(s)
       \/ ProcessWindow(s)

Spec == Init /\ [][Next]_vars

\* Server s is inside a call that has no deadline of its own: BART's stdin.Write
\* (bart_client.go:423), which not even Stop() ends, or a statement on Engine.ctx, which
\* only Stop() ends.  (The LLM request has the timeout of its HTTP client.)
InOpenCall(s) ==
  \/ pc[s] = "classify" /\ todo[s] # {}
  \/ /\ Alive(s)
     /\ \/ pc[s] \in {"fetch", "reads", "markDone", "markFailed"}
        \/ pc[s] = "save" /\ toSave[s] > 0

Supervised == \A s \in Server : WF_vars(Start(s)) /\ WF_vars(LoopReturns(s))

\* A running loop goes on, except that a call without a deadline may never return;
\* compose restarts a server.
FairSpec ==
  /\ Spec /\ Supervised
  /\ \A s \in Server : WF_vars(~InOpenCall(s) /\ ProcessWindow(s))

\* The same with a database and a BART child that always answer.
PromptSpec ==
  /\ Spec /\ Supervised
  /\ \A s \in Server : WF_vars(ProcessWindow(s))

----------------------------------------------------------------------------
(* Properties *)

\* A window is "done" only when the whole answer was stored: every incident candidate
\* has its row, once; and no incident is stored twice even when the window failed half way.
DoneIsComplete ==
  \A w \in Window :
    /\ incidents[w] <= candidates[w]
    /\ status[w] = "done" => incidents[w] = candidates[w]

\* The audit trail precedes the verdict: whatever an engine treats as
\* malicious has a saved BART decision, and by the time of the LLM call so has
\* every row it read.  A window that holds something malicious is only closed after
\* the LLM was asked, never "healthy by default".
DecisionsRecorded ==
  \A s \in Server :
    /\ malicious[s] \subseteq decisions
    /\ pc[s] \in {"reads", "correlate", "save", "markDone"} => fetched[s] \subseteq decisions
    /\ pc[s] = "markDone" /\ SomethingToCorrelate(s) => win[s] \in consulted

\* "Acquire one owner per window": a window row says "processing" only while somebody
\* works on it, or after its owner died or could not record the outcome, and two
\* servers never work on the same window.
OpenHasOwner ==
  /\ \A w \in Window :
       status[w] = "processing" => w \in lost \/ \E s \in Server : win[s] = w
  /\ \A s, t \in Server : win[s] # 0 /\ win[s] = win[t] => s = t

\* The ledger's transitions.
Ledger == INSTANCE WindowLedger WITH Worker <- Server

\* correlation_windows, as the engines use it, is the abstract ledger.
ImplementsLedger == Ledger!Spec

\* An open window is closed in the end, unless its owner died, could not record the
\* outcome, or stays for ever in a call that has no deadline.
OpenIsClosed ==
  \A w \in Window :
    status[w] = "processing" ~>
      \/ status[w] \in {"done", "failed"}
      \/ w \in lost
      \/ \E s \in Server : [](win[s] = w /\ InOpenCall(s))

\* "Mark window done/failed in correlation_windows" (README.md section 4.6),
\* without exception.
EveryOpenWindowIsMarked ==
  \A w \in Window : status[w] = "processing" ~> status[w] \in {"done", "failed"}
=============================================================================
