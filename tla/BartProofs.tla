------------------------------ MODULE BartProofs ------------------------------
(***************************************************************************)
(* Theorems about BartRunner: type correctness, and that verdicts belong   *)
(* to their rows until two readers race.                                   *)
(***************************************************************************)
EXTENDS BartRunner, TLAPS

BartSpec == BartInit /\ [][BartNext]_bartVars

----------------------------------------------------------------------------
(* The inductive invariant *)

\* Nothing is read or alive before NewBARTClient is done, and a child that does
\* not run holds no request.
NotStarted ==
  /\ mode = "starting" => readers = {} /\ ~childAlive
  /\ ~childAlive => stdin = <<>> /\ working = {}

\* While nothing has raced, one answer at most is owed: its request is in the
\* pipe, with the child, or it has been answered and not read.
OneOwed ==
  ~raced =>
    /\ stdin # <<>> => Len(stdin) = 1 /\ working = {} /\ stdout = <<>>
    /\ working # {} => stdout = <<>>
    /\ Len(stdout) <= 1
    /\ \A q, r \in working : q = r

\* It is owed to a reader, of which there is one at most.
OwedToReader ==
  ~raced =>
    /\ \A q, r \in readers : q = r
    /\ \A i \in DOMAIN stdin : stdin[i] \in readers
    /\ working \subseteq readers
    /\ \A i \in DOMAIN stdout : stdout[i].row \in readers

\* A reader waits for something that is owed.
ReaderIsOwed ==
  ~raced /\ childAlive /\ readers # {} =>
    stdin # <<>> \/ working # {} \/ stdout # <<>>

\* What a reader hands over, and what Classify makes of it, is about its row.
OwnReply ==
  ~raced => \A r \in Row : reply[r].row = r /\ verdict[r].row = r

BartInv == BartTypeOK /\ NotStarted /\ OneOwed /\ OwedToReader /\ ReaderIsOwed /\ OwnReply

----------------------------------------------------------------------------

LEMMA InitInv == BartInit => BartInv
<1> SUFFICES ASSUME BartInit PROVE BartInv
  OBVIOUS
<1>1. \A r \in Row : Nothing(r) \in Outcome /\ Nothing(r).row = r
  BY DEF Nothing, Outcome
<1>2. <<>> \in Seq(Row) /\ <<>> \in Seq(Answer) /\ Len(<<>>) = 0 /\ Len(<<>>) <= PipeRows
  BY BartAssumption DEF BartAssumption
<1>3. BartTypeOK
  BY <1>1, <1>2 DEF BartInit, BartTypeOK
<1>4. OneOwed /\ NotStarted /\ ReaderIsOwed
  BY <1>2 DEF BartInit, OneOwed, NotStarted, ReaderIsOwed
<1>5. OwedToReader
  BY <1>2 DEF BartInit, OwedToReader
<1>6. OwnReply
  BY <1>1 DEF BartInit, OwnReply
<1> QED BY <1>3, <1>4, <1>5, <1>6 DEF BartInv

\* Steps that leave the pipes, the readers and the child alone.
LEMMA QuietStep ==
  ASSUME BartInv, NEW r \in Row,
         ClassifyRefused(r) \/ ClassifyHTTP(r) \/ ClassifyInProcess(r)
           \/ WriteFails(r) \/ TakeReply(r) \/ ReadTimeout(r)
  PROVE  BartInv'
<1>1. UNCHANGED <<mode, stdin, working, stdout, childAlive, readers, reply, spoken, raced>>
  BY DEF ClassifyRefused, ClassifyHTTP, ClassifyInProcess, WriteFails, TakeReply, ReadTimeout
<1>2. phase' \in [Row -> {"todo", "writing", "reading", "decided", "failed"}]
  BY DEF BartInv, BartTypeOK, ClassifyRefused, ClassifyHTTP, ClassifyInProcess, WriteFails,
     TakeReply, ReadTimeout, BartMove
<1>3. verdict' \in [Row -> Answer \cup Outcome] /\ OwnReply'
  <2>1. CASE UNCHANGED verdict
    BY <1>1, <2>1 DEF BartInv, BartTypeOK, OwnReply
  <2>2. ASSUME NEW kind \in {"malicious", "benign"},
               verdict' = [verdict EXCEPT ![r] = [row |-> r, kind |-> kind]]
        PROVE  verdict' \in [Row -> Answer \cup Outcome] /\ OwnReply'
    <3>1. [row |-> r, kind |-> kind] \in Answer /\ [row |-> r, kind |-> kind].row = r
      BY DEF Answer
    <3> QED BY <1>1, <2>2, <3>1 DEF BartInv, BartTypeOK, OwnReply
  <2>3. CASE verdict' = [verdict EXCEPT ![r] = reply[r]]
    BY <1>1, <2>3 DEF BartInv, BartTypeOK, OwnReply
  <2> QED BY <2>1, <2>2, <2>3 DEF ClassifyRefused, ClassifyHTTP, ClassifyInProcess, WriteFails,
             TakeReply, ReadTimeout
<1>4. BartTypeOK'
  <2>1. UNCHANGED <<engineStop, bartClosed>>
    BY DEF ClassifyRefused, ClassifyHTTP, ClassifyInProcess, WriteFails, TakeReply, ReadTimeout
  <2> QED BY <1>1, <1>2, <1>3, <2>1 DEF BartInv, BartTypeOK
<1>5. NotStarted' /\ OneOwed' /\ OwedToReader' /\ ReaderIsOwed'
  BY <1>1 DEF BartInv, NotStarted, OneOwed, OwedToReader, ReaderIsOwed
<1> QED BY <1>3, <1>4, <1>5 DEF BartInv

\* Start, death and the end of the child.
LEMMA ChildLifeStep ==
  ASSUME BartInv, StartRunner \/ ChildDies \/ StopEngine \/ CloseClient
  PROVE  BartInv'
<1>1. <<>> \in Seq(Row) /\ <<>> \in Seq(Answer) /\ Len(<<>>) = 0 /\ Len(<<>>) <= PipeRows
      /\ DOMAIN <<>> = {}
  BY BartAssumption DEF BartAssumption
<1>2. CASE StartRunner \/ StopEngine
  <2>1. UNCHANGED <<stdin, working, stdout, readers, reply, phase, verdict, bartClosed, spoken, raced>>
    BY <1>2 DEF StartRunner, StopEngine
  <2>2. /\ mode' \in {"starting", "inprocess", "http", "unavailable"}
        /\ childAlive' \in BOOLEAN /\ engineStop' \in BOOLEAN
    BY <1>2 DEF BartInv, BartTypeOK, StartRunner, StopEngine
  <2>3. BartTypeOK'
    BY <2>1, <2>2 DEF BartInv, BartTypeOK
  <2>4. OneOwed' /\ OwedToReader' /\ OwnReply'
    BY <2>1 DEF BartInv, OneOwed, OwedToReader, OwnReply
  <2>5. NotStarted' /\ ReaderIsOwed'
    BY <1>2, <2>1 DEF BartInv, NotStarted, ReaderIsOwed, StartRunner, StopEngine
  <2> QED BY <2>3, <2>4, <2>5 DEF BartInv
<1>3. CASE ChildDies \/ CloseClient
  <2>1. BartTypeOK'
    BY <1>1, <1>3 DEF BartInv, BartTypeOK, ChildDies, CloseClient
  <2>2. OneOwed'
    BY <1>1, <1>3 DEF BartInv, OneOwed, ChildDies, CloseClient
  <2>3. OwedToReader'
    BY <1>1, <1>3 DEF BartInv, OwedToReader, ChildDies, CloseClient
  <2>4. NotStarted' /\ ReaderIsOwed' /\ OwnReply'
    BY <1>3 DEF BartInv, NotStarted, ReaderIsOwed, OwnReply, ChildDies, CloseClient
  <2> QED BY <2>1, <2>2, <2>3, <2>4 DEF BartInv
<1> QED BY <1>2, <1>3

\* The child takes a request, and answers it.
LEMMA ChildStep ==
  ASSUME BartInv,
         ChildReads \/ \E r \in Row, kind \in {"malicious", "benign", "error"} : ChildAnswers(r, kind)
  PROVE  BartInv'
<1>1. CASE ChildReads
  <2>1. /\ Head(stdin) \in Row /\ Tail(stdin) \in Seq(Row)
        /\ Len(Tail(stdin)) = Len(stdin) - 1
        /\ Head(stdin) = stdin[1] /\ 1 \in DOMAIN stdin
    <3>1. stdin \in Seq(Row) /\ stdin # <<>>
      BY <1>1 DEF ChildReads, BartInv, BartTypeOK
    <3>2. QED
      BY <3>1
  <2>2. BartTypeOK'
    BY <1>1, <2>1, BartAssumption DEF BartAssumption, ChildReads, BartInv, BartTypeOK
  <2>3. ~raced => Tail(stdin) = <<>>
    <3>1. ~raced => Len(stdin) = 1
      BY <1>1 DEF ChildReads, BartInv, OneOwed
    <3>2. PICK t \in Seq(Row) : t = Tail(stdin) /\ Len(t) = Len(stdin) - 1
      BY <2>1
    <3>3. ~raced => Len(t) = 0
      BY <3>1, <3>2
    <3>4. ~raced => t = <<>>
      BY <3>3
    <3>5. QED
      BY <3>2, <3>4
  <2>4. OneOwed'
    BY <1>1, <2>3 DEF ChildReads, BartInv, OneOwed
  <2>5. OwedToReader' /\ ReaderIsOwed'
    BY <1>1, <2>1, <2>3 DEF ChildReads, BartInv, OwedToReader, ReaderIsOwed
  <2>6. NotStarted' /\ OwnReply'
    BY <1>1 DEF ChildReads, BartInv, NotStarted, OwnReply
  <2> QED BY <2>2, <2>4, <2>5, <2>6 DEF BartInv
<1>2. ASSUME NEW r \in Row, NEW kind \in {"malicious", "benign", "error"}, ChildAnswers(r, kind)
      PROVE  BartInv'
  <2> DEFINE a == [row |-> r, kind |-> kind]
  <2>1. /\ a \in Answer /\ stdout' = Append(stdout, a) /\ stdout' \in Seq(Answer)
        /\ Len(stdout') = Len(stdout) + 1
    BY <1>2 DEF ChildAnswers, BartInv, BartTypeOK, Answer
  <2>2. BartTypeOK'
    BY <1>2, <2>1 DEF ChildAnswers, BartInv, BartTypeOK
  <2>3. ~raced => stdin = <<>> /\ stdout = <<>>
    BY <1>2 DEF ChildAnswers, BartInv, OneOwed
  <2>4. ~raced => stdout' = <<a>>
    BY <2>1, <2>3
  <2>5. OneOwed'
    BY <1>2, <2>3, <2>4 DEF ChildAnswers, OneOwed
  <2>6. OwedToReader' /\ ReaderIsOwed'
    <3>1. r \in working /\ working' = {} /\ UNCHANGED <<stdin, readers, raced>>
      BY <1>2 DEF ChildAnswers
    <3>2. ~raced => \A i \in DOMAIN stdout' : stdout'[i].row = r
      BY <2>4
    <3> QED BY <3>1, <3>2, <2>3, <2>4 DEF BartInv, OwedToReader, ReaderIsOwed
  <2>7. NotStarted' /\ OwnReply'
    BY <1>2 DEF ChildAnswers, BartInv, NotStarted, OwnReply
  <2> QED BY <2>2, <2>5, <2>6, <2>7 DEF BartInv
<1> QED BY <1>1, <1>2

\* A request is written, and its reader started.
LEMMA WriteStep ==
  ASSUME BartInv, NEW r \in Row, WriteRequest(r)
  PROVE  BartInv'
<1>1. /\ stdin' = Append(stdin, r) /\ stdin' \in Seq(Row)
      /\ Len(stdin') = Len(stdin) + 1
  BY DEF WriteRequest, BartInv, BartTypeOK
<1>2. BartTypeOK'
  BY <1>1, BartAssumption DEF BartAssumption, WriteRequest, BartInv, BartTypeOK, BartMove
<1>3. ~raced' => ~raced /\ readers = {}
  BY DEF WriteRequest, BartInv, BartTypeOK
<1>4. ~raced' => stdin = <<>> /\ working = {} /\ stdout = <<>>
  <2>1. ASSUME ~raced' PROVE DOMAIN stdin = {} /\ working = {} /\ DOMAIN stdout = {}
    BY <1>3, <2>1 DEF BartInv, OwedToReader
  <2> QED BY <2>1 DEF BartInv, BartTypeOK
<1>5. ~raced' => stdin' = <<r>>
  BY <1>1, <1>4
<1>6. OneOwed'
  BY <1>4, <1>5 DEF WriteRequest, OneOwed
<1>7. OwedToReader' /\ ReaderIsOwed'
  BY <1>3, <1>4, <1>5 DEF WriteRequest, OwedToReader, ReaderIsOwed
<1>8. NotStarted' /\ OwnReply'
  BY <1>3 DEF WriteRequest, BartInv, NotStarted, OwnReply
<1> QED BY <1>2, <1>6, <1>7, <1>8 DEF BartInv

\* A reader gets a line, or the end of the file.
LEMMA ReaderStep ==
  ASSUME BartInv, NEW r \in Row, Reader(r)
  PROVE  BartInv'
<1>1. ASSUME stdout # <<>>
      PROVE  /\ Tail(stdout) \in Seq(Answer) /\ Len(Tail(stdout)) = Len(stdout) - 1
             /\ Head(stdout) = stdout[1] /\ 1 \in DOMAIN stdout /\ Head(stdout) \in Answer
  BY <1>1 DEF BartInv, BartTypeOK
<1>2. CASE ReadLine(r)
  <2>1. ~raced => Tail(stdout) = <<>> /\ stdin = <<>> /\ working = {}
    BY <1>1, <1>2 DEF ReadLine, BartInv, BartTypeOK, OneOwed
  <2>2. readers' = {} /\ Head(stdout).row = r
    BY <1>1, <1>2 DEF ReadLine, ReaderReturns, BartInv, OwedToReader, BartTypeOK
  <2>3. BartTypeOK'
    <3>1. reply' \in [Row -> Answer \cup Outcome] /\ readers' \subseteq Row
      BY <1>1, <1>2 DEF ReadLine, ReaderReturns, BartInv, BartTypeOK
    <3>2. stdout' \in Seq(Answer)
      BY <1>1, <1>2 DEF ReadLine
    <3> QED BY <1>2, <3>1, <3>2 DEF ReadLine, ReaderReturns, BartInv, BartTypeOK
  <2>4. NotStarted' /\ OneOwed' /\ OwedToReader' /\ ReaderIsOwed'
    BY <1>2, <2>1, <2>2 DEF ReadLine, ReaderReturns, BartInv, NotStarted, OneOwed, OwedToReader,
       ReaderIsOwed
  <2>5. OwnReply'
    BY <1>2, <2>2 DEF ReadLine, ReaderReturns, BartInv, BartTypeOK, OwnReply
  <2> QED BY <2>3, <2>4, <2>5 DEF BartInv
<1>3. CASE ReadRaced(r) \/ LineSwallowed(r)
  <2>1. raced /\ raced'
    BY <1>3 DEF ReadRaced, LineSwallowed, ReaderReturns
  <2>2. Garbled(r) \in Outcome
    BY DEF Garbled, Outcome
  <2>3. BartTypeOK'
    <3>1. stdout' \in Seq(Answer)
      BY <1>1, <1>3 DEF ReadRaced, LineSwallowed
    <3>2. CASE ReadRaced(r)
      <4>1. PICK line \in spoken \cup {Garbled(r)} : ReaderReturns(r, line)
        BY <3>2 DEF ReadRaced
      <4>2. line \in Answer \cup Outcome
        BY <2>2 DEF BartInv, BartTypeOK
      <4> QED BY <3>1, <4>1, <4>2 DEF ReaderReturns, BartInv, BartTypeOK
    <3>3. CASE LineSwallowed(r)
      BY <3>1, <3>3 DEF LineSwallowed, BartInv, BartTypeOK
    <3> QED BY <1>3, <3>2, <3>3
  <2>4. NotStarted'
    BY <1>3 DEF ReadRaced, LineSwallowed, ReaderReturns, BartInv, NotStarted
  <2> QED BY <2>1, <2>3, <2>4 DEF BartInv, OneOwed, OwedToReader, ReaderIsOwed, OwnReply
<1>4. CASE ReadEOF(r)
  <2>1. EndOfFile(r) \in Outcome /\ EndOfFile(r).row = r
    BY DEF EndOfFile, Outcome
  <2>2. BartTypeOK'
    BY <1>4, <2>1 DEF ReadEOF, ReaderReturns, BartInv, BartTypeOK
  <2>3. NotStarted' /\ OneOwed' /\ ReaderIsOwed' /\ OwnReply'
    BY <1>4, <2>1 DEF ReadEOF, ReaderReturns, BartInv, BartTypeOK, NotStarted, OneOwed,
       ReaderIsOwed, OwnReply
  <2>4. OwedToReader'
    <3>1. stdin' = <<>> /\ working' = {} /\ stdout' = <<>> /\ DOMAIN <<>> = {}
      BY <1>4 DEF ReadEOF, ReaderReturns, BartInv, NotStarted
    <3> QED BY <1>4, <3>1 DEF ReadEOF, ReaderReturns, BartInv, OwedToReader
  <2> QED BY <2>2, <2>3, <2>4 DEF BartInv
<1> QED BY <1>2, <1>3, <1>4 DEF Reader

LEMMA NextInv ==
  ASSUME BartInv, [BartNext]_bartVars
  PROVE  BartInv'
<1>1. CASE BartNext
  BY <1>1, QuietStep, ChildLifeStep, ChildStep, WriteStep, ReaderStep
     DEF BartNext, Child, Classify
<1>2. CASE UNCHANGED bartVars
  BY <1>2 DEF bartVars, BartInv, BartTypeOK, NotStarted, OneOwed, OwedToReader, ReaderIsOwed,
     OwnReply
<1> QED BY <1>1, <1>2

LEMMA InvAlways == BartSpec => []BartInv
  BY InitInv, NextInv, PTL DEF BartSpec

----------------------------------------------------------------------------
(* The theorems *)

\* Type correctness of the BART client and its child.
THEOREM BartTypeCorrect == BartSpec => []BartTypeOK
<1>1. BartInv => BartTypeOK
  BY DEF BartInv
<1> QED BY <1>1, InvAlways, PTL

\* Until two readers race, every verdict is the child's answer to its own row,
\* for any number of rows, timeouts and any size of the pipe.
THEOREM VerdictsAreOwn == BartSpec => []OwnVerdict
<1>1. BartInv => OwnVerdict
  BY DEF BartInv, OwnReply, OwnVerdict
<1> QED BY <1>1, InvAlways, PTL

\* Until then, and while the child runs, the goroutines left in ReadString are
\* exactly those whose answers are still to come.
THEOREM ReadersAreOwed == BartSpec => []ReadersMatchAnswers
<1>1. BartInv => ReadersMatchAnswers
  <2> SUFFICES ASSUME BartInv, childAlive, ~raced
               PROVE  readers = {stdin[i] : i \in DOMAIN stdin} \cup working
                                  \cup {stdout[i].row : i \in DOMAIN stdout}
    BY DEF ReadersMatchAnswers
  <2> DEFINE owed == {stdin[i] : i \in DOMAIN stdin} \cup working
                       \cup {stdout[i].row : i \in DOMAIN stdout}
  <2>1. owed \subseteq readers
    BY DEF BartInv, OwedToReader
  <2>2. ASSUME readers # {} PROVE owed # {}
    <3>1. stdin # <<>> => 1 \in DOMAIN stdin
      BY DEF BartInv, BartTypeOK
    <3>2. stdout # <<>> => 1 \in DOMAIN stdout
      BY DEF BartInv, BartTypeOK
    <3> QED BY <2>2, <3>1, <3>2 DEF BartInv, ReaderIsOwed
  <2> QED BY <2>1, <2>2 DEF BartInv, OwedToReader
<1> QED BY <1>1, InvAlways, PTL
=============================================================================
