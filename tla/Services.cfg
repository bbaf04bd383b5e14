\* Three rows to classify over a one-request pipe; two valid requests and an invalid
\* one; four datagrams, one of which is no event; two lost channels and one rejected
\* message.
SPECIFICATION Spec
CONSTANTS
  r1 = r1
  r2 = r2
  r3 = r3
  q1 = q1
  q2 = q2
  q3 = q3
  rcv = rcv
  m1 = m1
  m2 = m2
  m3 = m3
  m4 = m4
  Row = {r1, r2, r3}
  HasURL = TRUE
  PipeRows = 1
  Request = {q1, q2, q3}
  Receiver = rcv
  Caller = {q1, q2, q3, rcv}
  Invalid = {q3}
  Message = {m1, m2, m3, m4}
  Entries <- MCEntries
  LineOf <- MCLineOf
  BatchSize = 2
  MaxLosses = 2
  MaxRejects = 1
  MaxAttempts = 2
INVARIANTS OwnVerdict ReadersMatchAnswers OkIsStored ConfirmsLag CountsTellTheTruth
PROPERTIES EngineStopReturns EveryRequestAnswered ReceiverStops
CHECK_DEADLOCK FALSE
