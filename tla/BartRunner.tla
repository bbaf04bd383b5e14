------------------------------ MODULE BartRunner ------------------------------
(***************************************************************************)
(* internal/correlationengine: bart_client.go and bart_runner.py.  The     *)
(* engine classifies one row at a time.  In-process, a row is a line       *)
(* written to a Python child, and the verdict the next line read from it:  *)
(* nothing in a line names the row it is about.                            *)
(*                                                                         *)
(* readLineWithTimeout reads in a goroutine of its own and, when the       *)
(* timeout comes first, leaves it behind in ReadString.  A second one in   *)
(* the same bufio.Reader is a data race: from then on a reader may return  *)
(* any line the child has written or a garbled one, or lose its line and   *)
(* go on waiting.                                                          *)
(***************************************************************************)
EXTENDS Naturals, Sequences

CONSTANTS
  Row,          \* rows of llm_pass_1 to classify
  HasURL,       \* ServiceURL is set: the HTTP fallback exists
  PipeRows      \* requests the child's stdin pipe holds before a write blocks

ASSUME BartAssumption ==
  /\ HasURL \in BOOLEAN
  /\ PipeRows \in Nat \ {0}

VARIABLES
  mode,         \* BARTClient.mode, "starting" inside NewBARTClient
  stdin,        \* requests in the child's stdin pipe
  working,      \* the requests, none or one, the child is classifying
  stdout,       \* answers nobody has read
  childAlive,   \* the child runs
  readers,      \* rows whose reader goroutine is in ReadString
  reply,        \* per row: what its reader put in its channel
  phase,        \* per row: where its Classify is
  verdict,      \* per row: the answer its Classify returned
  engineStop,   \* Engine.ctx is cancelled
  bartClosed,   \* Close() has run
  \* History
  spoken,       \* every answer the child has written
  raced         \* two readers have been in ReadString at once

bartVars == <<mode, stdin, working, stdout, childAlive, readers, reply, phase, verdict,
              engineStop, bartClosed, spoken, raced>>

Answer == [row : Row, kind : {"malicious", "benign", "error"}]

\* What a reader may hand over besides an answer: nothing yet, a line that does
\* not parse, the end of the file.
Outcome == [row : Row, kind : {"nothing", "garbled", "eof"}]
Nothing(r) == [row |-> r, kind |-> "nothing"]
Garbled(r) == [row |-> r, kind |-> "garbled"]
EndOfFile(r) == [row |-> r, kind |-> "eof"]

BartTypeOK ==
  /\ mode \in {"starting", "inprocess", "http", "unavailable"}
  /\ stdin \in Seq(Row) /\ Len(stdin) <= PipeRows
  /\ working \subseteq Row
  /\ stdout \in Seq(Answer)
  /\ childAlive \in BOOLEAN
  /\ readers \subseteq Row
  /\ reply \in [Row -> Answer \cup Outcome]
  /\ phase \in [Row -> {"todo", "writing", "reading", "decided", "failed"}]
  /\ verdict \in [Row -> Answer \cup Outcome]
  /\ engineStop \in BOOLEAN /\ bartClosed \in BOOLEAN
  /\ spoken \subseteq Answer
  /\ raced \in BOOLEAN

BartInit ==
  /\ mode = "starting"
  /\ stdin = <<>> /\ working = {} /\ stdout = <<>>
  /\ childAlive = FALSE
  /\ readers = {}
  /\ reply = [r \in Row |-> Nothing(r)]
  /\ phase = [r \in Row |-> "todo"]
  /\ verdict = [r \in Row |-> Nothing(r)]
  /\ engineStop = FALSE /\ bartClosed = FALSE
  /\ spoken = {} /\ raced = FALSE

BartMove(r, next) == phase' = [phase EXCEPT ![r] = next]

----------------------------------------------------------------------------
(* NewBARTClient *)

\* The child reports that it is ready; or it does not, is killed, and the
\* client falls back to HTTP if it can.
StartRunner ==
  /\ mode = "starting"
  /\ \/ mode' = "inprocess" /\ childAlive' = TRUE
     \/ mode' = (IF HasURL THEN "http" ELSE "unavailable") /\ UNCHANGED childAlive
  /\ UNCHANGED <<stdin, working, stdout, readers, reply, phase, verdict, engineStop,
                 bartClosed, spoken, raced>>

----------------------------------------------------------------------------
(* The child *)

ChildReads ==
  /\ childAlive /\ working = {} /\ stdin # <<>>
  /\ working' = {Head(stdin)}
  /\ stdin' = Tail(stdin)
  /\ UNCHANGED <<mode, stdout, childAlive, readers, reply, phase, verdict, engineStop,
                 bartClosed, spoken, raced>>

\* Mutant of ChildAnswers: the exception branch writes no line.
ChildAnswersNoError(r, kind) ==
  /\ childAlive /\ r \in working
  /\ stdout' = IF kind = "error" THEN stdout ELSE Append(stdout, [row |-> r, kind |-> kind])
  /\ spoken' = spoken \cup {[row |-> r, kind |-> kind]}
  /\ working' = {}
  /\ UNCHANGED <<mode, stdin, childAlive, readers, reply, phase, verdict, engineStop,
                 bartClosed, raced>>

\* Every request gets one line, an exception included.
ChildAnswers(r, kind) ==
  /\ childAlive /\ r \in working
  /\ stdout' = Append(stdout, [row |-> r, kind |-> kind])
  /\ spoken' = spoken \cup {[row |-> r, kind |-> kind]}
  /\ working' = {}
  /\ UNCHANGED <<mode, stdin, childAlive, readers, reply, phase, verdict, engineStop,
                 bartClosed, raced>>

ChildDies ==
  /\ childAlive
  /\ childAlive' = FALSE
  /\ stdin' = <<>> /\ working' = {}
  /\ UNCHANGED <<mode, stdout, readers, reply, phase, verdict, engineStop, bartClosed,
                 spoken, raced>>

----------------------------------------------------------------------------
(* readLineWithTimeout: the goroutine *)

\* Reader r is done with a result, which somebody reads or nobody.
ReaderReturns(r, result) ==
  /\ readers' = readers \ {r}
  /\ reply' = [reply EXCEPT ![r] = result]
  /\ UNCHANGED <<mode, stdin, working, childAlive, phase, verdict, engineStop, bartClosed,
                 spoken, raced>>

ReadLine(r) ==
  /\ r \in readers /\ stdout # <<>> /\ ~raced
  /\ stdout' = Tail(stdout)
  /\ ReaderReturns(r, Head(stdout))

\* The outcomes of the data race.
ReadRaced(r) ==
  /\ r \in readers /\ stdout # <<>> /\ raced
  /\ stdout' = Tail(stdout)
  /\ \E line \in spoken \cup {Garbled(r)} : ReaderReturns(r, line)

LineSwallowed(r) ==
  /\ r \in readers /\ stdout # <<>> /\ raced
  /\ stdout' = Tail(stdout)
  /\ UNCHANGED <<mode, stdin, working, childAlive, readers, reply, phase, verdict, engineStop,
                 bartClosed, spoken, raced>>

ReadEOF(r) ==
  /\ r \in readers /\ stdout = <<>> /\ ~childAlive
  /\ UNCHANGED stdout
  /\ ReaderReturns(r, EndOfFile(r))

----------------------------------------------------------------------------
(* Classify *)

Classifying(r) == phase[r] \in {"writing", "reading"}

\* Validate fails, or the context is already done.
ClassifyRefused(r) ==
  /\ phase[r] = "todo" /\ ~bartClosed /\ \A q \in Row : ~Classifying(q)
  /\ mode = "unavailable" \/ engineStop
  /\ BartMove(r, "failed")
  /\ UNCHANGED <<mode, stdin, working, stdout, childAlive, readers, reply, verdict, engineStop,
                 bartClosed, spoken, raced>>

\* The HTTP endpoint answers this request, or the request fails.
ClassifyHTTP(r) ==
  /\ phase[r] = "todo" /\ ~bartClosed /\ \A q \in Row : ~Classifying(q)
  /\ mode = "http" /\ ~engineStop
  /\ \/ \E kind \in {"malicious", "benign"} :
          /\ verdict' = [verdict EXCEPT ![r] = [row |-> r, kind |-> kind]]
          /\ BartMove(r, "decided")
     \/ BartMove(r, "failed") /\ UNCHANGED verdict
  /\ UNCHANGED <<mode, stdin, working, stdout, childAlive, readers, reply, engineStop,
                 bartClosed, spoken, raced>>

ClassifyInProcess(r) ==
  /\ phase[r] = "todo" /\ ~bartClosed /\ \A q \in Row : ~Classifying(q)
  /\ mode = "inprocess" /\ ~engineStop
  /\ BartMove(r, "writing")
  /\ UNCHANGED <<mode, stdin, working, stdout, childAlive, readers, reply, verdict, engineStop,
                 bartClosed, spoken, raced>>

\* stdin.Write blocks while the pipe is full; no timeout covers it.
WriteRequest(r) ==
  /\ phase[r] = "writing"
  /\ childAlive /\ Len(stdin) < PipeRows
  /\ stdin' = Append(stdin, r)
  /\ readers' = readers \cup {r}
  /\ raced' = (raced \/ readers # {})
  /\ BartMove(r, "reading")
  /\ UNCHANGED <<mode, working, stdout, childAlive, reply, verdict, engineStop, bartClosed,
                 spoken>>

WriteFails(r) ==
  /\ phase[r] = "writing"
  /\ ~childAlive
  /\ BartMove(r, "failed")
  /\ UNCHANGED <<mode, stdin, working, stdout, childAlive, readers, reply, verdict, engineStop,
                 bartClosed, spoken, raced>>

\* The reader's result, parsed: an answer with "error", a line that is no JSON
\* and an end of file are errors of Classify.
TakeReply(r) ==
  /\ phase[r] = "reading" /\ reply[r].kind # "nothing"
  /\ IF reply[r].kind \in {"malicious", "benign"}
       THEN BartMove(r, "decided") /\ verdict' = [verdict EXCEPT ![r] = reply[r]]
       ELSE BartMove(r, "failed") /\ UNCHANGED verdict
  /\ UNCHANGED <<mode, stdin, working, stdout, childAlive, readers, reply, engineStop,
                 bartClosed, spoken, raced>>

\* Mutant of ReadTimeout: the reader goes with its request.
ReadTimeoutStopsReader(r) ==
  /\ phase[r] = "reading"
  /\ BartMove(r, "failed")
  /\ readers' = readers \ {r}
  /\ UNCHANGED <<mode, stdin, working, stdout, childAlive, reply, verdict, engineStop,
                 bartClosed, spoken, raced>>

\* Mutant of ReadTimeout: no timeout.
ReadTimeoutNever(r) ==
  /\ FALSE
  /\ BartMove(r, "failed")
  /\ UNCHANGED <<mode, stdin, working, stdout, childAlive, readers, reply, verdict, engineStop,
                 bartClosed, spoken, raced>>

\* The timeout; the reader stays.
ReadTimeout(r) ==
  /\ phase[r] = "reading"
  /\ BartMove(r, "failed")
  /\ UNCHANGED <<mode, stdin, working, stdout, childAlive, readers, reply, verdict, engineStop,
                 bartClosed, spoken, raced>>

----------------------------------------------------------------------------
(* Engine.Stop *)

StopEngine ==
  /\ mode # "starting" /\ ~engineStop
  /\ engineStop' = TRUE
  /\ UNCHANGED <<mode, stdin, working, stdout, childAlive, readers, reply, phase, verdict,
                 bartClosed, spoken, raced>>

\* wg.Wait() returns when the loop has: then Close kills the child and the
\* pipes are closed under every reader that is left.
CloseClient ==
  /\ engineStop /\ ~bartClosed
  /\ \A r \in Row : ~Classifying(r)
  /\ bartClosed' = TRUE
  /\ childAlive' = FALSE
  /\ stdin' = <<>> /\ working' = {} /\ stdout' = <<>>
  /\ readers' = {}
  /\ UNCHANGED <<mode, reply, phase, verdict, engineStop, spoken, raced>>

----------------------------------------------------------------------------

Child ==
  \/ ChildReads
  \/ \E r \in Row, kind \in {"malicious", "benign", "error"} : ChildAnswers(r, kind)
  \/ ChildDies

Reader(r) == ReadLine(r) \/ ReadRaced(r) \/ LineSwallowed(r) \/ ReadEOF(r)

Classify(r) ==
  \/ ClassifyRefused(r) \/ ClassifyHTTP(r) \/ ClassifyInProcess(r)
  \/ WriteRequest(r) \/ WriteFails(r)
  \/ TakeReply(r) \/ ReadTimeout(r)

BartNext ==
  \/ StartRunner
  \/ Child
  \/ \E r \in Row : Reader(r) \/ Classify(r)
  \/ StopEngine \/ CloseClient

(***************************************************************************)
(* Fairness: a goroutine that can step does.  The child owes nothing: it   *)
(* may hang for ever.                                                      *)
(***************************************************************************)
BartFairness ==
  /\ \A r \in Row : WF_bartVars(WriteRequest(r) \/ WriteFails(r) \/ TakeReply(r) \/ ReadTimeout(r))
  /\ WF_bartVars(CloseClient)

----------------------------------------------------------------------------
(* Properties *)

\* A row's verdict is the child's answer to that row: a timeout does not shift
\* the answers by one, because the reader it leaves takes the late line.  Only
\* a second request issued before that line came can mix them up.
OwnVerdict ==
  \A r \in Row : phase[r] = "decided" /\ ~raced => verdict[r].row = r

\* The reason: while nothing has raced, the reader goroutines are those of the
\* requests whose answers are still to be read.
ReadersMatchAnswers ==
  childAlive /\ ~raced =>
    readers = {stdin[i] : i \in DOMAIN stdin} \cup working
                \cup {stdout[i].row : i \in DOMAIN stdout}

\* Engine.Stop returns, whatever the child does, unless a write is stuck on a
\* full pipe that the child no longer reads.
EngineStopReturns ==
  \/ engineStop ~> bartClosed
  \/ <>[](\E r \in Row : phase[r] = "writing" /\ Len(stdin) = PipeRows)
=============================================================================
