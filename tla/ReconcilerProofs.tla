--------------------------- MODULE ReconcilerProofs ---------------------------
(***************************************************************************)
(* Theorems about the reconcile loop, for all kinds of resources, values,  *)
(* failures, options and numbers of faults.                                *)
(***************************************************************************)
EXTENDS Reconciler, TLAPS

(***************************************************************************)
(* Errors and delays, for any width of a Duration and any second.          *)
(***************************************************************************)
\* Wrapping around stays within the width.
LEMMA WrappedFits ==
  ASSUME NEW x \in Int
  PROVE  Wrapped(x) \in Duration
<1>1. 2 * Half \in Nat \ {0}
  BY HalfAssumption
<1>2. (x + Half) % (2 * Half) \in 0..(2 * Half - 1)
  BY <1>1, HalfAssumption
<1> QED
  BY <1>2, HalfAssumption DEF Wrapped, Duration

\* What is in the width is left alone.
LEMMA WrappedSmall ==
  ASSUME NEW x \in Duration
  PROVE  Wrapped(x) = x
<1> DEFINE m == 2 * Half
           y == x + Half
<1>1. m \in Nat \ {0} /\ y \in 0..(m - 1)
  BY HalfAssumption DEF Duration
<1> HIDE DEF m, y
<1>2. y % m = y
  BY <1>1
<1>3. x = y - Half /\ x \in Int
  BY HalfAssumption DEF y, Duration
<1> QED
  BY <1>2, <1>3, HalfAssumption DEF Wrapped, m, y

\* A header is parsed into a Duration, whatever it says.
LEMMA ParsedFits ==
  ASSUME NEW h \in Headers
  PROVE  parseRetryAfter(h) \in Duration
<1>1. h.n \in Int /\ h.n * Second \in Int
  BY SecondAssumption DEF Headers
<1>2. Wrapped(h.n * Second) \in Duration
  BY <1>1, WrappedFits
<1>3. 0 \in Duration /\ Half - 1 \in Duration
  BY HalfAssumption DEF Duration
<1> QED
  BY <1>1, <1>2, <1>3 DEF parseRetryAfter, FitsInt

\* RetryAfter passes a delay on only when it is positive and a Duration, though
\* parseRetryAfter may have wrapped around to a negative one (client.go).
THEOREM DelayIsPositive ==
  ASSUME NEW err \in CallErrors
  PROVE  \/ RetryAfter(err) = [delay |-> 0, ok |-> FALSE]
         \/ /\ RetryAfter(err) = [delay |-> err.retryAfter, ok |-> TRUE]
            /\ err.retryAfter \in 1..(Half - 1)
<1>1. CASE err \in {NoError, OtherError, ErrNotFound}
  BY <1>1 DEF NoError, OtherError, ErrNotFound, RetryAfter
<1>2. CASE err \notin {NoError, OtherError, ErrNotFound}
  <2>1. PICK status \in 300..599, h \in Headers : err = newHTTPError(status, h)
    BY <1>2 DEF CallErrors
  <2>2. err.retryAfter = parseRetryAfter(h)
    BY <2>1 DEF newHTTPError
  <2>3. err.retryAfter \in Duration
    BY <2>2, ParsedFits
  <2> QED
    BY <2>3, HalfAssumption DEF RetryAfter, Duration
<1> QED
  BY <1>1, <1>2

\* A delay in seconds that a Duration can hold is passed on as it is.
LEMMA SecondsAsAsked ==
  ASSUME NEW status \in 300..599, NEW h \in Headers,
         h.form = "seconds", h.n > 0, h.n * Second < Half
  PROVE  RetryAfter(newHTTPError(status, h)).delay = h.n * Second
<1> DEFINE d == h.n * Second
<1>1. h.n \in Nat \ {0}
  BY DEF Headers
<1>2. d \in Nat /\ h.n <= d
  BY <1>1, SecondAssumption
<1> HIDE DEF d
<1>3. d \in Duration /\ FitsInt(h.n) /\ d > 0
  <2>1. d < Half
    BY DEF d
  <2> QED
    BY <1>1, <1>2, <2>1, HalfAssumption DEF Duration, FitsInt
<1>4. Wrapped(d) = d
  BY <1>3, WrappedSmall
<1>5. parseRetryAfter(h) = d
  BY <1>1, <1>3, <1>4 DEF parseRetryAfter, d
<1> QED
  BY <1>3, <1>5 DEF newHTTPError, RetryAfter, d

\* A delay falls short of what the server asked for only where time.Second times the
\* seconds overflows a Duration, and there it always does; a date is cut at the
\* longest Duration, and else kept (parseRetryAfter, RetryAfter of client.go).
THEOREM OverflowAloneFallsShort ==
  ASSUME NEW status \in 300..599, NEW h \in Headers, h.n > 0
  PROVE  /\ h.form = "seconds" /\ FitsInt(h.n) =>
              (RetryAfter(newHTTPError(status, h)).delay = h.n * Second <=> h.n * Second < Half)
         /\ h.form = "date" =>
              RetryAfter(newHTTPError(status, h)).delay = IF h.n < Half THEN h.n ELSE Half - 1
<1> DEFINE err == newHTTPError(status, h)
<1>1. err \in CallErrors
  BY DEF CallErrors
<1>2. RetryAfter(err).delay \in Int /\ RetryAfter(err).delay < Half
  <2>1. \/ RetryAfter(err) = [delay |-> 0, ok |-> FALSE]
        \/ /\ RetryAfter(err) = [delay |-> err.retryAfter, ok |-> TRUE]
           /\ err.retryAfter \in 1..(Half - 1)
    BY <1>1, DelayIsPositive
  <2>2. \/ RetryAfter(err).delay = 0
        \/ RetryAfter(err).delay = err.retryAfter /\ err.retryAfter \in 1..(Half - 1)
    BY <2>1
  <2> HIDE DEF err
  <2> QED
    BY <2>2, HalfAssumption
<1>3. ASSUME h.form = "seconds"
      PROVE  RetryAfter(err).delay = h.n * Second <=> h.n * Second < Half
  <2>1. h.n * Second < Half => RetryAfter(err).delay = h.n * Second
    BY <1>3, SecondsAsAsked
  <2>2. RetryAfter(err).delay = h.n * Second => h.n * Second < Half
    BY <1>2
  <2> QED
    BY <2>1, <2>2
<1>4. ASSUME h.form = "date"
      PROVE  RetryAfter(err).delay = IF h.n < Half THEN h.n ELSE Half - 1
  <2> DEFINE d == IF h.n < Half THEN h.n ELSE Half - 1
  <2>1. h.n \in Int
    BY DEF Headers
  <2>2. FitsInt(h.n) <=> h.n < Half
    BY <2>1, HalfAssumption DEF FitsInt, Duration
  <2>3. parseRetryAfter(h) = d
    BY <1>4, <2>2 DEF parseRetryAfter
  <2>4. err.kind = "http" /\ err.retryAfter = d
    BY <2>3 DEF newHTTPError
  <2>5. CASE d > 0
    <3> HIDE DEF err, d
    <3> QED
      BY <2>4, <2>5 DEF RetryAfter, d
  <2>6. CASE ~(d > 0)
    <3>1. d = 0
      BY <2>1, <2>6, HalfAssumption
    <3> HIDE DEF err, d
    <3> QED
      BY <2>4, <3>1 DEF RetryAfter, d
  <2> QED
    BY <2>5, <2>6
<1> QED
  BY <1>3, <1>4

\* What the caller sees of an error is in its types.
LEMMA CallErrorFits ==
  ASSUME NEW err \in CallErrors
  PROVE  /\ err.kind \in {"none", "http", "absent", "other"} /\ err.status \in 200..599
         /\ RetryAfter(err).delay \in Duration
<1>1. err.kind \in {"none", "http", "absent", "other"} /\ err.status \in 200..599
  <2>1. CASE err \in {NoError, OtherError, ErrNotFound}
    BY <2>1 DEF NoError, OtherError, ErrNotFound, StatusOK
  <2>2. CASE err \notin {NoError, OtherError, ErrNotFound}
    <3>1. PICK status \in 300..599, h \in Headers : err = newHTTPError(status, h)
      BY <2>2 DEF CallErrors
    <3>2. err.kind = "http" /\ err.status = status
      BY <3>1 DEF newHTTPError
    <3> QED
      BY <3>2
  <2> QED
    BY <2>1, <2>2
<1>2. \/ RetryAfter(err).delay = 0
      \/ RetryAfter(err).delay = err.retryAfter /\ err.retryAfter \in 1..(Half - 1)
  <2>1. \/ RetryAfter(err) = [delay |-> 0, ok |-> FALSE]
        \/ /\ RetryAfter(err) = [delay |-> err.retryAfter, ok |-> TRUE]
           /\ err.retryAfter \in 1..(Half - 1)
    BY DelayIsPositive
  <2> QED
    BY <2>1
<1>3. RetryAfter(err).delay \in Duration
  BY <1>2, HalfAssumption DEF Duration
<1> QED
  BY <1>1, <1>3

(***************************************************************************)
(* The inductive invariant.  Beside the types: a worker that is to create  *)
(* has found nothing, and whatever is there since came late; only what can *)
(* be deleted is; a payload carries no foreign field it could leave out;   *)
(* and what a worker gave up on is an answer that will not clear.          *)
(***************************************************************************)
CreatesFromNothing ==
    \A w \in Workers : pc[w] = "create" => w = Owner /\ (entities = <<>> \/ late)

DeletesWhatItMay ==
    /\ goal = "gone" => conf.kind.delete # "none"
    /\ \A w \in Workers : pc[w] = "delete" => conf.kind.delete # "none"

LeavesAlone(sent) ==
    \A f \in Workers : Class(f) # "always" => sent[f] \in {"absent", conf.want[f]}

PayloadsLeaveAlone ==
    /\ \A w \in Workers : LeavesAlone(payload[w])
    /\ pending # NoRequest => LeavesAlone(pending.payload)

ReconcilerInv ==
    /\ ReconcilerTypeOK
    /\ CreatesFromNothing
    /\ DeletesWhatItMay
    /\ PayloadsLeaveAlone
    /\ OneEntity
    /\ TerminalIsEarned

Writes == {"create", "update", "delete"}
WriteRequest == [op : Writes, payload : Payloads]

(***************************************************************************)
(* Operators.                                                              *)
(***************************************************************************)
LEMMA EmptyIsAValue == Empty \in Values /\ Unset \notin Values
  BY ValuesAssumption

\* What a worker sends is a payload, which carries a foreign field only if it
\* has to, and its own field as the worker wants it.
LEMMA PayloadFacts ==
  ASSUME ReconcilerTypeOK, NEW w \in Workers, NEW content \in Content
  PROVE  Payload(w, content) \in Payloads /\ LeavesAlone(Payload(w, content))
<1> DEFINE P == Payload(w, content)
<1>1. conf.want \in Content /\ conf.kind.send \in [Workers -> Classes]
  BY DEF ReconcilerTypeOK, Kind
<1>2. ASSUME NEW f \in Workers
      PROVE  /\ OnTheWire(Filled(w, content)[f]) \in Values
             /\ f = w => OnTheWire(Filled(w, content)[f]) = conf.want[f]
  BY <1>1, <1>2, EmptyIsAValue DEF Filled, OnTheWire, Content
<1>3. P \in Payloads
  BY <1>2 DEF Payload, Payloads
<1>4. ASSUME NEW f \in Workers, Class(f) # "always"
      PROVE  P[f] \in {"absent", conf.want[f]}
  <2>1. CASE f = w
    BY <1>2, <2>1 DEF Payload
  <2>2. CASE f # w
    <3>1. Filled(w, content)[f] = Unset
      BY <1>4, <2>2 DEF Filled
    <3>2. Class(f) # "none" => ~Sent(Class(f), Filled(w, content)[f])
      <4>1. Class(f) \in {"nonempty", "pointer", "none"}
        BY <1>1, <1>4 DEF Class, Classes
      <4> QED
        BY <3>1, <4>1 DEF Sent
    <3> QED
      BY <3>2 DEF Payload
  <2> QED
    BY <2>1, <2>2
<1> QED
  BY <1>3, <1>4 DEF LeavesAlone

LEMMA OverwrittenFits ==
  ASSUME NEW content \in Content, NEW sent \in Payloads,
         \A f \in Workers : sent[f] # "absent" => sent[f] \in Values
  PROVE  Overwritten(content, sent) \in Content
  BY DEF Overwritten, Content, Payloads

\* A write request leaves a sequence of entities behind.
LEMMA AfterFits ==
  ASSUME NEW req \in WriteRequest, NEW es \in Seq(Content)
  PROVE  After(req, es) \in Seq(Content)
<1>1. \A c \in Content : Overwritten(c, req.payload) \in Content
  BY OverwrittenFits DEF WriteRequest, Payloads
<1>2. NoFields \in Content
  BY EmptyIsAValue DEF NoFields, Content
<1>3. CASE ~Accepted(req, es)
  BY <1>3 DEF After
<1>4. CASE Accepted(req, es) /\ req.op = "create"
  <2>1. After(req, es) = Append(es, Overwritten(NoFields, req.payload))
    BY <1>4 DEF After
  <2> QED
    BY <1>1, <1>2, <2>1
<1>5. CASE Accepted(req, es) /\ req.op = "update"
  <2>1. es # <<>>
    BY <1>5 DEF Accepted
  <2>2. After(req, es) = [es EXCEPT ![1] = Overwritten(es[1], req.payload)]
    BY <1>5 DEF After
  <2>3. es[1] \in Content
    BY <2>1
  <2>4. Overwritten(es[1], req.payload) \in Content
    BY <1>1, <2>3
  <2> QED
    BY <2>1, <2>2, <2>4
<1>6. CASE Accepted(req, es) /\ req.op = "delete"
  <2>1. es # <<>> /\ After(req, es) = Tail(es)
    BY <1>6 DEF Accepted, After
  <2> QED
    BY <2>1
<1> QED
  BY <1>3, <1>4, <1>5, <1>6 DEF WriteRequest, Writes

\* How a write request changes how many entities there are.
LEMMA AfterCounts ==
  ASSUME NEW req \in WriteRequest, NEW es \in Seq(Content)
  PROVE  /\ Len(After(req, es)) > Len(es) =>
               req.op = "create" /\ (es = <<>> \/ conf.duplicate = "accepted")
         /\ Len(After(req, es)) <= Len(es) + 1
         /\ req.op # "create" /\ es = <<>> => After(req, es) = <<>>
<1>1. CASE ~Accepted(req, es)
  BY <1>1 DEF After
<1>2. CASE Accepted(req, es) /\ req.op = "create"
  <2>1. After(req, es) = Append(es, Overwritten(NoFields, req.payload))
    BY <1>2 DEF After
  <2>2. Len(After(req, es)) = Len(es) + 1
    BY <2>1
  <2> QED
    BY <1>2, <2>2 DEF Accepted
<1>3. CASE Accepted(req, es) /\ req.op = "update"
  <2>1. es # <<>> /\ After(req, es) = [es EXCEPT ![1] = Overwritten(es[1], req.payload)]
    BY <1>3 DEF After, Accepted
  <2>2. Len(After(req, es)) = Len(es)
    BY <2>1
  <2> QED
    BY <2>1, <2>2
<1>4. CASE Accepted(req, es) /\ req.op = "delete"
  <2>1. es # <<>> /\ After(req, es) = Tail(es)
    BY <1>4 DEF Accepted, After
  <2>2. Len(After(req, es)) = Len(es) - 1
    BY <2>1
  <2> QED
    BY <2>1, <2>2
<1> QED
  BY <1>1, <1>2, <1>3, <1>4 DEF WriteRequest, Writes

\* A field only moves to what its own worker wants, unless the payload has to
\* carry it, and only an update moves one without changing how many there are.
LEMMA AfterLeavesAlone ==
  ASSUME NEW req \in WriteRequest, NEW es \in Seq(Content), LeavesAlone(req.payload),
         NEW f \in Workers, Class(f) # "always", es # <<>>,
         Len(After(req, es)) = Len(es), After(req, es)[1][f] # es[1][f]
  PROVE  After(req, es)[1][f] = conf.want[f]
<1>1. Accepted(req, es)
  BY DEF After
<1>2. CASE req.op = "create"
  <2>1. After(req, es) = Append(es, Overwritten(NoFields, req.payload))
    BY <1>1, <1>2 DEF After
  <2>2. Len(After(req, es)) = Len(es) + 1
    BY <2>1
  <2> QED
    BY <2>2
<1>3. CASE req.op = "update"
  <2>1. After(req, es) = [es EXCEPT ![1] = Overwritten(es[1], req.payload)]
    BY <1>1, <1>3 DEF After
  <2>2. After(req, es)[1] = Overwritten(es[1], req.payload)
    BY <2>1
  <2>3. After(req, es)[1][f] = IF req.payload[f] = "absent" THEN es[1][f] ELSE req.payload[f]
    BY <2>2 DEF Overwritten
  <2> QED
    BY <2>3 DEF LeavesAlone
<1>4. CASE req.op = "delete"
  <2>1. After(req, es) = Tail(es)
    BY <1>1, <1>4 DEF After
  <2>2. Len(Tail(es)) = Len(es) - 1
    OBVIOUS
  <2> QED
    BY <2>1, <2>2
<1> QED
  BY <1>2, <1>3, <1>4 DEF WriteRequest, Writes

\* A worker that is to write sends a write request.
LEMMA RequestFacts ==
  ASSUME ReconcilerTypeOK, PayloadsLeaveAlone, NEW w \in Workers, pc[w] \in Writes
  PROVE  Request(w) \in WriteRequest /\ Request(w).op = pc[w] /\ LeavesAlone(Request(w).payload)
<1>1. NoFields \in Content
  BY EmptyIsAValue DEF NoFields, Content
<1>2. Payload(w, NoFields) \in Payloads /\ LeavesAlone(Payload(w, NoFields))
  BY <1>1, PayloadFacts
<1>3. payload[w] \in Payloads /\ LeavesAlone(payload[w])
  BY DEF ReconcilerTypeOK, PayloadsLeaveAlone
<1>4. Request(w).payload \in Payloads /\ LeavesAlone(Request(w).payload)
  BY <1>2, <1>3 DEF Request
<1> QED
  BY <1>4 DEF Request, WriteRequest

LEMMA NothingLeavesAlone == NoPayload \in Payloads /\ LeavesAlone(NoPayload)
  BY DEF NoPayload, Payloads, LeavesAlone

(***************************************************************************)
(* The switch on an error.                                                 *)
(***************************************************************************)
\* The errors of the loop are errors a call returns.
LEMMA LoopErrors ==
  /\ NoHeader \in Headers
  /\ OtherError \in CallErrors /\ ErrNotFound \in CallErrors
  /\ \A status \in 300..599, h \in Headers : newHTTPError(status, h) \in CallErrors
<1>1. NoHeader \in Headers
  BY DEF NoHeader, Header, Headers
<1>2. OtherError \in CallErrors /\ ErrNotFound \in CallErrors
  BY DEF CallErrors
<1>3. ASSUME NEW status \in 300..599, NEW h \in Headers
      PROVE  newHTTPError(status, h) \in CallErrors
  BY DEF CallErrors
<1> QED
  BY <1>1, <1>2, <1>3

Verdicts == {"create", "idle", "requeue", "read", "terminal"}

\* What the switch says.
LEMMA VerdictFacts ==
  ASSUME NEW w \in Workers, pc[w] \in Requests, NEW err
  PROVE  /\ Verdict(w, err) \in Verdicts
         /\ Verdict(w, err) = "create" => pc[w] = "read" /\ IsNotFound(err) /\ w = Owner
         /\ Verdict(w, err) = "terminal" => ~IsRetryable(err) /\ ~(pc[w] = "read" /\ IsNotFound(err))
         /\ Verdict(w, err) = "terminal" /\ pc[w] = "create" => ~IsAlreadyExists(err)
         /\ Verdict(w, err) = "terminal" /\ pc[w] = "update" => ~IsNotFound(err)
         /\ Verdict(w, err) = "terminal" /\ pc[w] \in {"update", "delete"} => ~IsConflict(err)
<1>1. CASE pc[w] = "read"
  <2>1. CASE IsNotFound(err)
    BY <1>1, <2>1 DEF Verdict, ReadVerdict, Verdicts
  <2>2. CASE ~IsNotFound(err) /\ IsRetryable(err)
    BY <1>1, <2>2 DEF Verdict, ReadVerdict, Verdicts
  <2>3. CASE ~IsNotFound(err) /\ ~IsRetryable(err)
    BY <1>1, <2>3 DEF Verdict, ReadVerdict, Verdicts
  <2> QED
    BY <2>1, <2>2, <2>3
<1>2. CASE pc[w] # "read"
  <2>1. CASE IsRetryable(err)
    BY <1>2, <2>1 DEF Verdict, WriteVerdict, Verdicts
  <2>2. CASE ~IsRetryable(err) /\ pc[w] = "create" /\ IsAlreadyExists(err)
    BY <1>2, <2>2 DEF Verdict, WriteVerdict, Verdicts
  <2>3. CASE /\ ~IsRetryable(err)
             /\ \/ pc[w] \in {"update", "delete"} /\ IsConflict(err)
                \/ pc[w] = "update" /\ IsNotFound(err)
    BY <1>2, <2>3 DEF Verdict, WriteVerdict, Verdicts
  <2>4. CASE /\ ~IsRetryable(err)
             /\ ~(pc[w] = "create" /\ IsAlreadyExists(err))
             /\ ~(pc[w] \in {"update", "delete"} /\ IsConflict(err))
             /\ ~(pc[w] = "update" /\ IsNotFound(err))
    BY <1>2, <2>4 DEF Verdict, WriteVerdict, Verdicts
  <2> QED
    BY <2>1, <2>2, <2>3, <2>4
<1> QED
  BY <1>1, <1>2

(***************************************************************************)
(* One step of a worker changes its own variables only, and leaves them as *)
(* the invariant has them.                                                 *)
(***************************************************************************)
OwnVariables(w, next) ==
    /\ pc' = [pc EXCEPT ![w] = next]
    /\ next \in Requests \union {"idle", "requeue", "terminal", "hung"}
    /\ payload' \in [Workers -> Payloads] /\ \A v \in Workers : LeavesAlone(payload'[v])
    /\ header' \in [Workers -> Headers] /\ delay' \in [Workers -> Duration]
    /\ ended' \in [Workers -> Endings]
    /\ \A v \in Workers : v # w => ended'[v] = ended[v]

LEMMA OwnTypes ==
  ASSUME ReconcilerInv
  PROVE  /\ payload \in [Workers -> Payloads] /\ header \in [Workers -> Headers]
         /\ delay \in [Workers -> Duration] /\ ended \in [Workers -> Endings]
         /\ pc \in [Workers -> Requests \union {"idle", "requeue", "terminal", "hung"}]
         /\ \A v \in Workers : LeavesAlone(payload[v])
  BY DEF ReconcilerInv, ReconcilerTypeOK, PayloadsLeaveAlone

\* A worker that goes on without an error.
LEMMA QuietStep ==
  ASSUME ReconcilerInv, NEW w \in Workers,
         NEW next \in Requests \union {"idle", "hung"}, pc' = [pc EXCEPT ![w] = next],
         NEW sent \in Payloads, LeavesAlone(sent),
         payload' = [payload EXCEPT ![w] = sent], UNCHANGED <<header, delay, ended>>
  PROVE  OwnVariables(w, next)
<1>1. payload' \in [Workers -> Payloads]
  BY OwnTypes
<1>2. \A v \in Workers : LeavesAlone(payload'[v])
  <2> TAKE v \in Workers
  <2>1. payload'[v] = IF v = w THEN sent ELSE payload[v]
    BY OwnTypes
  <2> QED
    BY <2>1, OwnTypes
<1> QED
  BY <1>1, <1>2, OwnTypes DEF OwnVariables

\* A worker that gets an error.
LEMMA FailingStep ==
  ASSUME ReconcilerInv, NEW w \in Workers, pc[w] \in Requests, NEW err \in CallErrors,
         NEW after \in Headers, NEW rejected \in BOOLEAN, Failing(w, err, after, rejected)
  PROVE  /\ OwnVariables(w, Verdict(w, err))
         /\ Verdict(w, err) = "terminal" => ended'[w] = Ending(pc[w], err, rejected)
<1> DEFINE next == Verdict(w, err)
           d == RetryAfter(err).delay
           e == Ending(pc[w], err, rejected)
<1>1. next \in Verdicts
  BY VerdictFacts
<1>2. pc' = [pc EXCEPT ![w] = next] /\ payload' = [payload EXCEPT ![w] = NoPayload]
  BY DEF Failing
<1>3. d \in Duration
  BY CallErrorFits
<1>4. /\ next = "requeue" => header' = [header EXCEPT ![w] = after] /\ delay' = [delay EXCEPT ![w] = d]
      /\ next # "requeue" => header' = header /\ delay' = delay
      /\ ended' = IF next = "terminal" THEN [ended EXCEPT ![w] = e] ELSE ended
  BY DEF Failing
<1>5. e \in Endings
  BY CallErrorFits DEF Ending, Endings
<1> HIDE DEF next, d, e
<1>6. payload' \in [Workers -> Payloads] /\ \A v \in Workers : LeavesAlone(payload'[v])
  <2>1. payload' \in [Workers -> Payloads]
    BY <1>2, OwnTypes, NothingLeavesAlone
  <2>2. \A v \in Workers : payload'[v] = IF v = w THEN NoPayload ELSE payload[v]
    BY <1>2, OwnTypes
  <2> QED
    BY <2>1, <2>2, OwnTypes, NothingLeavesAlone
<1>7. header' \in [Workers -> Headers] /\ delay' \in [Workers -> Duration]
  BY <1>3, <1>4, OwnTypes
<1>8. /\ ended' \in [Workers -> Endings]
      /\ \A v \in Workers : v # w => ended'[v] = ended[v]
      /\ next = "terminal" => ended'[w] = e
  BY <1>4, <1>5, OwnTypes
<1>9. OwnVariables(w, next)
  BY <1>1, <1>2, <1>6, <1>7, <1>8 DEF OwnVariables, Verdicts, Requests
<1> QED
  BY <1>8, <1>9 DEF next, e

(***************************************************************************)
(* The invariant, from what a step does to the server and to one worker.   *)
(***************************************************************************)
\* What a worker gave up on, e, is a reason to.
EarnedBy(e) ==
    \/ /\ e.kind = "http" /\ ~e.rejected
       /\ e.status \notin {429, 500, 502, 503, 504}
       /\ e.op # "read" => e.status # 409
    \/ /\ e.rejected /\ e.op = "delete" /\ e.status = 404
       /\ conf.kind.delete = "absentFails"
    \/ /\ e.rejected /\ e.op = "create" /\ e.status = 400
       /\ conf.duplicate = "bad request" /\ late

LEMMA EarnedIsEarnedBy ==
  TerminalIsEarned <=> \A v \in Workers : pc[v] = "terminal" => EarnedBy(ended[v])
  BY DEF TerminalIsEarned, EarnedBy, RefusedForGood, GoneBefore, DuplicateUnnamed

\* A response that will not clear is a reason.
LEMMA AnswerEarns ==
  ASSUME NEW e, NEW op, NEW status, e.kind = "http", ~e.rejected, e.op = op, e.status = status,
         status \notin {429, 500, 502, 503, 504}, op # "read" => status # 409
  PROVE  EarnedBy(e)
  BY Zenon DEF EarnedBy

\* What was a reason stays one.
LEMMA EarnedAgain ==
  ASSUME conf' = conf, late => late',
         \A v \in Workers : pc'[v] = "terminal" => EarnedBy(ended'[v])
  PROVE  TerminalIsEarned'
<1>1. ASSUME NEW v \in Workers, pc'[v] = "terminal"
      PROVE  (RefusedForGood(v) \/ GoneBefore(v) \/ DuplicateUnnamed(v))'
  <2> DEFINE e == ended'[v]
  <2>1. EarnedBy(e)
    BY <1>1
  <2> HIDE DEF e
  <2>2. \/ /\ e.kind = "http" /\ ~e.rejected
           /\ e.status \notin {429, 500, 502, 503, 504}
           /\ e.op # "read" => e.status # 409
        \/ /\ e.rejected /\ e.op = "delete" /\ e.status = 404
           /\ conf'.kind.delete = "absentFails"
        \/ /\ e.rejected /\ e.op = "create" /\ e.status = 400
           /\ conf'.duplicate = "bad request" /\ late'
    BY <2>1 DEF EarnedBy
  <2> QED
    BY Zenon, <2>2 DEF RefusedForGood, GoneBefore, DuplicateUnnamed, e
<1> QED
  BY <1>1 DEF TerminalIsEarned

\* What a step leaves the server with.
ServerFits(w) ==
    /\ conf' = conf /\ goal' = goal /\ late' = late
    /\ faults' \in 0..MaxFaults
    /\ entities' \in Seq(Content)
    /\ Len(entities') > 1 => conf.duplicate = "accepted" /\ late
    /\ pending' \in WriteRequest \union {NoRequest}
    /\ pending' # NoRequest => LeavesAlone(pending'.payload)
    /\ \A v \in Workers : v # w /\ pc[v] = "create" => entities' = <<>> \/ late

LEMMA StepKeepsInv ==
  ASSUME ReconcilerInv, NEW w \in Workers, NEW next, OwnVariables(w, next), ServerFits(w),
         next = "create" => w = Owner /\ (entities' = <<>> \/ late),
         next = "delete" => conf.kind.delete # "none",
         next = "terminal" => EarnedBy(ended'[w])
  PROVE  ReconcilerInv'
<1>1. pc \in [Workers -> Requests \union {"idle", "requeue", "terminal", "hung"}]
  BY DEF ReconcilerInv, ReconcilerTypeOK
<1>2. \A v \in Workers : pc'[v] = IF v = w THEN next ELSE pc[v]
  BY <1>1 DEF OwnVariables
<1>3. ReconcilerTypeOK'
  <2>1. pc' \in [Workers -> Requests \union {"idle", "requeue", "terminal", "hung"}]
    BY <1>1 DEF OwnVariables
  <2>2. ended' \in [Workers -> Endings]
    BY DEF OwnVariables
  <2>3. /\ conf' \in [kind : Kind, want : Content, duplicate : Duplicates,
                       failures : SUBSET Failures, asked : BOOLEAN, ends : BOOLEAN]
        /\ goal' \in {"present", "gone"} /\ late' \in BOOLEAN
    BY DEF ReconcilerInv, ReconcilerTypeOK, ServerFits
  <2>4. /\ entities' \in Seq(Content) /\ faults' \in 0..MaxFaults
        /\ pending' \in [op : {"create", "update", "delete"}, payload : Payloads] \union {NoRequest}
    BY DEF ServerFits, WriteRequest, Writes
  <2>5. payload' \in [Workers -> Payloads] /\ header' \in [Workers -> Headers]
           /\ delay' \in [Workers -> Duration]
    BY DEF OwnVariables
  <2> QED
    BY <2>1, <2>2, <2>3, <2>4, <2>5 DEF ReconcilerTypeOK
<1>4. CreatesFromNothing'
  <2>1. \A v \in Workers : pc[v] = "create" => v = Owner
    BY DEF ReconcilerInv, CreatesFromNothing
  <2>2. late' = late /\ \A v \in Workers : v # w /\ pc[v] = "create" => entities' = <<>> \/ late
    BY DEF ServerFits
  <2> QED
    BY <1>2, <2>1, <2>2 DEF CreatesFromNothing
<1>5. DeletesWhatItMay'
  BY <1>2 DEF ReconcilerInv, DeletesWhatItMay, ServerFits
<1>6. PayloadsLeaveAlone'
  <2>1. conf' = conf
    BY DEF ServerFits
  <2>2. \A v \in Workers : LeavesAlone(payload'[v])
    BY DEF OwnVariables
  <2>3. pending' # NoRequest => LeavesAlone(pending'.payload)
    BY DEF ServerFits
  <2> QED
    BY <2>1, <2>2, <2>3 DEF PayloadsLeaveAlone, LeavesAlone, Class
<1>7. OneEntity'
  BY DEF ServerFits, OneEntity
<1>8. TerminalIsEarned'
  <2>1. \A v \in Workers : pc[v] = "terminal" => EarnedBy(ended[v])
    BY EarnedIsEarnedBy DEF ReconcilerInv
  <2>2. \A v \in Workers : v # w => ended'[v] = ended[v]
    BY DEF OwnVariables
  <2>3. \A v \in Workers : pc'[v] = "terminal" => EarnedBy(ended'[v])
    BY <1>2, <2>1, <2>2
  <2>4. conf' = conf /\ late' = late
    BY DEF ServerFits
  <2> QED
    BY <2>3, <2>4, EarnedAgain
<1> QED
  BY <1>3, <1>4, <1>5, <1>6, <1>7, <1>8 DEF ReconcilerInv

\* A request that is carried out while its worker waits for the answer.
LEMMA WriteLands ==
  ASSUME ReconcilerInv, NEW w \in Workers, pc[w] \in Writes
  PROVE  LET es == After(Request(w), entities)
         IN /\ es \in Seq(Content)
            /\ Len(es) > 1 => conf.duplicate = "accepted" /\ late
            /\ \A v \in Workers : v # w /\ pc[v] = "create" => es = <<>> \/ late
<1> DEFINE es == After(Request(w), entities)
<1>1. Request(w) \in WriteRequest /\ Request(w).op = pc[w]
  BY RequestFacts DEF ReconcilerInv
<1>2. entities \in Seq(Content)
  BY DEF ReconcilerInv, ReconcilerTypeOK
<1>3. es \in Seq(Content)
  BY <1>1, <1>2, AfterFits
<1>4. /\ Len(es) > Len(entities) => pc[w] = "create" /\ (entities = <<>> \/ conf.duplicate = "accepted")
      /\ Len(es) <= Len(entities) + 1
      /\ pc[w] # "create" /\ entities = <<>> => es = <<>>
  BY <1>1, <1>2, AfterCounts
<1>5. /\ Len(entities) > 1 => conf.duplicate = "accepted" /\ late
      /\ \A v \in Workers : pc[v] = "create" => v = Owner /\ (entities = <<>> \/ late)
  BY DEF ReconcilerInv, OneEntity, CreatesFromNothing
<1> HIDE DEF es
<1>6. Len(es) > 1 => conf.duplicate = "accepted" /\ late
  <2>1. Len(entities) \in Nat /\ Len(es) \in Nat /\ (entities = <<>> => Len(entities) = 0)
    BY <1>2, <1>3
  <2> QED
    BY <1>4, <1>5, <2>1
<1>7. \A v \in Workers : v # w /\ pc[v] = "create" => es = <<>> \/ late
  BY <1>4, <1>5
<1> QED
  BY <1>3, <1>6, <1>7 DEF es

\* A step that leaves the entities alone.
LEMMA ServerRests ==
  ASSUME ReconcilerInv, NEW w \in Workers, UNCHANGED <<conf, serverVars, goal>>,
         faults' \in 0..MaxFaults
  PROVE  ServerFits(w)
<1>1. entities \in Seq(Content) /\ pending \in WriteRequest \union {NoRequest}
  BY DEF ReconcilerInv, ReconcilerTypeOK, WriteRequest, Writes
<1>2. /\ Len(entities) > 1 => conf.duplicate = "accepted" /\ late
      /\ \A v \in Workers : pc[v] = "create" => entities = <<>> \/ late
      /\ pending # NoRequest => LeavesAlone(pending.payload)
  BY DEF ReconcilerInv, OneEntity, CreatesFromNothing, PayloadsLeaveAlone
<1>3. entities' = entities /\ pending' = pending /\ late' = late /\ conf' = conf /\ goal' = goal
  BY DEF serverVars
<1> QED
  BY <1>1, <1>2, <1>3 DEF ServerFits

LEMMA FaultFacts ==
  ASSUME ReconcilerInv
  PROVE  /\ faults \in 0..MaxFaults
         /\ Fault => faults' \in 0..MaxFaults
  BY FaultsAssumption DEF ReconcilerInv, ReconcilerTypeOK, Fault

(***************************************************************************)
(* The actions.                                                            *)
(***************************************************************************)
LEMMA ReadsKeepInv ==
  ASSUME ReconcilerInv, NEW w \in Workers,
         Resync(w) \/ Requeue(w) \/ ReadFinds(w) \/ ReadFindsNothing(w)
  PROVE  ReconcilerInv'
<1>1. entities \in Seq(Content)
  BY DEF ReconcilerInv, ReconcilerTypeOK
<1>2. payload[w] \in Payloads /\ payload = [payload EXCEPT ![w] = payload[w]] /\ LeavesAlone(payload[w])
  BY OwnTypes
<1>3. CASE Resync(w)
  <2>1. OwnVariables(w, "read")
    BY <1>2, <1>3, QuietStep DEF Resync, Requests
  <2>2. ServerFits(w)
    BY <1>3, ServerRests, FaultFacts DEF Resync
  <2> QED
    BY <2>1, <2>2, StepKeepsInv
<1>4. CASE Requeue(w)
  <2>1. /\ pc' = [pc EXCEPT ![w] = "read"] /\ payload' = payload /\ ended' = ended
        /\ header' = [header EXCEPT ![w] = NoHeader] /\ delay' = [delay EXCEPT ![w] = 0]
    BY <1>4 DEF Requeue
  <2>2. 0 \in Duration
    BY HalfAssumption DEF Duration
  <2>3. header' \in [Workers -> Headers] /\ delay' \in [Workers -> Duration]
    BY <2>1, <2>2, OwnTypes, LoopErrors
  <2>4. OwnVariables(w, "read")
    BY <2>1, <2>3, OwnTypes DEF OwnVariables, Requests
  <2>5. ServerFits(w)
    BY <1>4, ServerRests, FaultFacts DEF Requeue
  <2> QED
    BY <2>4, <2>5, StepKeepsInv
<1>5. CASE ReadFinds(w)
  <2>1. ServerFits(w)
    BY <1>5, ServerRests, FaultFacts DEF ReadFinds
  <2>2. UNCHANGED <<header, delay, ended>>
    BY <1>5 DEF ReadFinds
  <2>3. CASE w = Owner /\ goal = "gone" /\ pc' = [pc EXCEPT ![w] = "delete"] /\ UNCHANGED payload
    <3>1. OwnVariables(w, "delete")
      BY <1>2, <2>2, <2>3, QuietStep DEF Requests
    <3>2. conf.kind.delete # "none"
      BY <2>3 DEF ReconcilerInv, DeletesWhatItMay
    <3> QED
      BY <2>1, <3>1, <3>2, StepKeepsInv
  <2>4. CASE pc' = [pc EXCEPT ![w] = "idle"] /\ UNCHANGED payload
    <3>1. OwnVariables(w, "idle")
      BY <1>2, <2>2, <2>4, QuietStep DEF Requests
    <3> QED
      BY <2>1, <3>1, StepKeepsInv
  <2>5. CASE /\ pc' = [pc EXCEPT ![w] = "update"]
             /\ payload' = [payload EXCEPT ![w] = Payload(w, entities[1])]
    <3>1. entities[1] \in Content
      <4>1. entities # <<>>
        BY <1>5 DEF ReadFinds
      <4> QED
        BY <1>1, <4>1
    <3>2. Payload(w, entities[1]) \in Payloads /\ LeavesAlone(Payload(w, entities[1]))
      BY <3>1, PayloadFacts DEF ReconcilerInv
    <3>3. OwnVariables(w, "update")
      BY <2>2, <2>5, <3>2, QuietStep DEF Requests
    <3> QED
      BY <2>1, <3>3, StepKeepsInv
  <2> QED
    BY <1>5, <2>3, <2>4, <2>5 DEF ReadFinds
<1>6. CASE ReadFindsNothing(w)
  <2>1. PICK err \in {newHTTPError(StatusNotFound, NoHeader), ErrNotFound} :
            Failing(w, err, NoHeader, FALSE)
    BY <1>6 DEF ReadFindsNothing
  <2>2. IsNotFound(err)
    BY <2>1 DEF newHTTPError, ErrNotFound, IsNotFound, IsNotFoundError, hasStatusCode
  <2>3. err \in CallErrors /\ NoHeader \in Headers
    <3>1. StatusNotFound \in 300..599
      BY DEF StatusNotFound
    <3> QED
      BY <2>1, <3>1, LoopErrors
  <2>4. pc[w] = "read" /\ pc[w] \in Requests /\ entities = <<>>
    BY <1>6 DEF ReadFindsNothing, Requests
  <2>5. OwnVariables(w, Verdict(w, err))
    BY <2>1, <2>3, <2>4, FailingStep
  <2>6. ServerFits(w) /\ entities' = entities
    BY <1>6, ServerRests, FaultFacts DEF ReadFindsNothing, serverVars
  <2>7. /\ Verdict(w, err) \in Verdicts
        /\ Verdict(w, err) = "create" => w = Owner
        /\ Verdict(w, err) # "terminal"
    BY <2>2, <2>4, VerdictFacts
  <2> QED
    BY <2>4, <2>5, <2>6, <2>7, StepKeepsInv DEF Verdicts
<1> QED
  BY <1>3, <1>4, <1>5, <1>6

LEMMA WritesKeepInv ==
  ASSUME ReconcilerInv, NEW w \in Workers,
         WriteAccepted(w) \/ WriteAckedBefore(w) \/ WriteRejected(w)
  PROVE  ReconcilerInv'
<1>1. pc[w] \in Writes
  <2>1. conf.kind.acked \subseteq {"update", "delete"}
    BY DEF ReconcilerInv, ReconcilerTypeOK, Kind
  <2> QED
    BY <2>1 DEF WriteAccepted, WriteAckedBefore, WriteRejected, Writes
<1>2. Request(w) \in WriteRequest /\ Request(w).op = pc[w] /\ LeavesAlone(Request(w).payload)
  BY <1>1, RequestFacts DEF ReconcilerInv
<1>3. ASSUME Succeeding(w), UNCHANGED ended
      PROVE  OwnVariables(w, "idle")
  BY <1>3, NothingLeavesAlone, QuietStep DEF Succeeding
<1>4. CASE WriteAccepted(w)
  <2>1. OwnVariables(w, "idle")
    BY <1>3, <1>4 DEF WriteAccepted
  <2>2. /\ entities' = After(Request(w), entities)
        /\ UNCHANGED <<conf, pending, late, goal, faults, ended>>
    BY <1>4 DEF WriteAccepted
  <2>3. /\ pending \in WriteRequest \union {NoRequest}
        /\ pending # NoRequest => LeavesAlone(pending.payload)
    BY DEF ReconcilerInv, ReconcilerTypeOK, PayloadsLeaveAlone, WriteRequest, Writes
  <2>4. ServerFits(w)
    BY <1>1, <2>2, <2>3, WriteLands, FaultFacts DEF ServerFits
  <2> QED
    BY <2>1, <2>4, StepKeepsInv
<1>5. CASE WriteAckedBefore(w)
  <2>1. OwnVariables(w, "idle")
    BY <1>3, <1>5 DEF WriteAckedBefore
  <2>2. pending' = Request(w) /\ UNCHANGED <<conf, entities, late, goal, faults, ended>>
    BY <1>5 DEF WriteAckedBefore
  <2>3. /\ entities \in Seq(Content)
        /\ Len(entities) > 1 => conf.duplicate = "accepted" /\ late
        /\ \A v \in Workers : pc[v] = "create" => entities = <<>> \/ late
    BY DEF ReconcilerInv, ReconcilerTypeOK, OneEntity, CreatesFromNothing
  <2>4. ServerFits(w)
    BY <1>2, <2>2, <2>3, FaultFacts DEF ServerFits
  <2> QED
    BY <2>1, <2>4, StepKeepsInv
<1>6. CASE WriteRejected(w)
  <2> DEFINE err == Rejection(Request(w))
  <2>1. ServerFits(w)
    BY <1>6, ServerRests, FaultFacts DEF WriteRejected
  <2>2. CASE Succeeding(w) /\ UNCHANGED ended
    <3>1. OwnVariables(w, "idle")
      BY <1>3, <2>2
    <3> QED
      BY <2>1, <3>1, StepKeepsInv
  <2>3. CASE /\ ~(pc[w] = "delete" /\ DeleteSettles(err))
             /\ Failing(w, err, NoHeader, TRUE)
    <3>1. PICK status \in {StatusNotFound, StatusConflict, StatusBadRequest} :
              /\ err = newHTTPError(status, NoHeader)
              /\ pc[w] # "create" => status = StatusNotFound
              /\ pc[w] = "create" /\ conf.duplicate = "conflict" => status = StatusConflict
              /\ pc[w] = "create" /\ conf.duplicate # "conflict" => status = StatusBadRequest
      BY <1>2 DEF Rejection
    <3>2. err \in CallErrors /\ NoHeader \in Headers
      <4>1. status \in 300..599
        BY DEF StatusNotFound, StatusConflict, StatusBadRequest
      <4> QED
        BY <3>1, <4>1, LoopErrors
    <3>3. pc[w] \in Requests /\ pc[w] # "read"
      BY <1>1 DEF Writes, Requests
    <3>4. /\ OwnVariables(w, Verdict(w, err))
          /\ Verdict(w, err) = "terminal" => ended'[w] = Ending(pc[w], err, TRUE)
      BY <2>3, <3>2, <3>3, FailingStep
    <3>5. /\ err.kind = "http" /\ err.status = status
      BY <3>1 DEF newHTTPError
    <3> HIDE DEF err
    <3>6. CASE pc[w] = "create"
      <4>1. Verdict(w, err) = "terminal" => conf.duplicate # "conflict"
        BY <3>1, <3>3, <3>5, <3>6, VerdictFacts DEF IsAlreadyExists, IsConflict, hasStatusCode
      <4>2. conf.duplicate # "accepted" /\ entities # <<>>
        BY <1>2, <1>6, <3>6 DEF WriteRejected, Accepted
      <4>3. late /\ conf.duplicate \in {"accepted", "conflict", "bad request"}
        BY <3>6, <4>2 DEF ReconcilerInv, ReconcilerTypeOK, CreatesFromNothing, Duplicates
      <4>4. Verdict(w, err) = "terminal" => EarnedBy(ended'[w])
        <5> SUFFICES ASSUME Verdict(w, err) = "terminal" PROVE EarnedBy(ended'[w])
          OBVIOUS
        <5>1. conf.duplicate = "bad request" /\ late
          BY <4>1, <4>2, <4>3
        <5>2. /\ ended'[w].op = "create" /\ ended'[w].rejected
              /\ ended'[w].status = 400
          BY <3>1, <3>4, <3>5, <3>6, <4>1 DEF Ending, StatusBadRequest
        <5> QED
          BY <5>1, <5>2 DEF EarnedBy
      <4>5. Verdict(w, err) # "create" /\ Verdict(w, err) # "delete"
        BY <3>3, VerdictFacts DEF Verdicts
      <4> QED
        BY <2>1, <3>4, <4>4, <4>5, StepKeepsInv
    <3>7. CASE pc[w] # "create"
      <4>1. IsNotFoundError(err) /\ IsNotFound(err)
        BY <3>1, <3>5, <3>7 DEF IsNotFoundError, IsNotFound, hasStatusCode
      <4>2. Verdict(w, err) = "terminal" => pc[w] = "delete"
        BY <1>1, <3>3, <3>7, <4>1, VerdictFacts DEF Writes
      <4>3. pc[w] = "delete" => conf.kind.delete = "absentFails"
        <5>1. conf.kind.delete \in {"absentOk", "absentFails", "none"}
          BY DEF ReconcilerInv, ReconcilerTypeOK, Kind
        <5>2. pc[w] = "delete" => conf.kind.delete # "none"
          BY DEF ReconcilerInv, DeletesWhatItMay
        <5>3. pc[w] = "delete" => conf.kind.delete # "absentOk"
          BY <2>3, <4>1 DEF DeleteSettles
        <5> QED
          BY <5>1, <5>2, <5>3
      <4>4. Verdict(w, err) = "terminal" => EarnedBy(ended'[w])
        <5> SUFFICES ASSUME Verdict(w, err) = "terminal" PROVE EarnedBy(ended'[w])
          OBVIOUS
        <5>1. /\ ended'[w].op = "delete" /\ ended'[w].rejected
              /\ ended'[w].status = 404
          BY <3>1, <3>4, <3>5, <3>7, <4>2 DEF Ending, StatusNotFound
        <5> QED
          BY <4>2, <4>3, <5>1 DEF EarnedBy
      <4>5. Verdict(w, err) # "create" /\ Verdict(w, err) # "delete"
        BY <3>3, VerdictFacts DEF Verdicts
      <4> QED
        BY <2>1, <3>4, <4>4, <4>5, StepKeepsInv
    <3> QED
      BY <3>6, <3>7
  <2> QED
    BY <1>6, <2>2, <2>3 DEF WriteRejected
<1> QED
  BY <1>4, <1>5, <1>6

LEMMA FaultsKeepInv ==
  ASSUME ReconcilerInv, NEW w \in Workers,
         RequestRefused(w) \/ RequestLost(w) \/ RequestHangs(w)
  PROVE  ReconcilerInv'
<1>1. faults' \in 0..MaxFaults /\ pc[w] \in Requests
  BY FaultFacts DEF RequestRefused, RequestLost, RequestHangs
<1>2. CASE RequestRefused(w)
  <2>1. PICK f \in conf.failures : Failing(w, newHTTPError(f.status, f.header), f.header, FALSE)
    BY <1>2 DEF RequestRefused
  <2> DEFINE err == newHTTPError(f.status, f.header)
  <2>2. f \in Failures
    BY DEF ReconcilerInv, ReconcilerTypeOK
  <2>3. f.status \in 300..599 /\ f.status # StatusNotFound /\ f.header \in Headers
    BY <2>2 DEF Failures
  <2>4. err \in CallErrors
    BY <2>3, LoopErrors
  <2>5. ServerFits(w)
    BY <1>1, <1>2, ServerRests DEF RequestRefused
  <2>6. ~IsNotFound(err)
    BY <2>3 DEF newHTTPError, IsNotFound, IsNotFoundError, hasStatusCode
  <2>7. Verdict(w, err) # "create" /\ Verdict(w, err) # "delete"
    BY <1>1, <2>6, VerdictFacts DEF Verdicts
  <2>8. err.kind = "http" /\ err.status = f.status
    BY DEF newHTTPError
  <2>9. Failing(w, err, f.header, FALSE)
    BY <2>1
  <2> HIDE DEF err
  <2>10. /\ OwnVariables(w, Verdict(w, err))
         /\ Verdict(w, err) = "terminal" => ended'[w] = Ending(pc[w], err, FALSE)
    BY <1>1, <2>3, <2>4, <2>9, FailingStep
  <2>11. ASSUME Verdict(w, err) = "terminal"
         PROVE  EarnedBy(ended'[w])
    <3> DEFINE e == ended'[w]
    <3>1. e.kind = "http" /\ ~e.rejected /\ e.op = pc[w] /\ e.status = err.status
      BY <2>8, <2>10, <2>11 DEF Ending
    <3>2. err.status \notin {429, 500, 502, 503, 504}
      <4>1. ~IsRetryable(err)
        BY <1>1, <2>11, VerdictFacts
      <4> QED
        BY <2>8, <4>1 DEF IsRetryable, StatusTooManyRequests, StatusInternalServerError,
                          StatusBadGateway, StatusServiceUnavailable, StatusGatewayTimeout
    <3>3. pc[w] # "read" => err.status # 409
      <4>1. /\ pc[w] = "create" => ~IsAlreadyExists(err)
            /\ pc[w] \in {"update", "delete"} => ~IsConflict(err)
        BY <1>1, <2>11, VerdictFacts
      <4>2. err.status = 409 => IsConflict(err) /\ IsAlreadyExists(err)
        BY <2>8 DEF IsAlreadyExists, IsConflict, hasStatusCode, StatusConflict
      <4> QED
        BY <1>1, <4>1, <4>2 DEF Requests
    <3> HIDE DEF e
    <3>4. EarnedBy(e)
      BY <3>1, <3>2, <3>3, AnswerEarns
    <3> QED
      BY <3>4 DEF e
  <2> QED
    BY <2>5, <2>7, <2>10, <2>11, StepKeepsInv
<1>3. CASE RequestLost(w)
  <2>1. Failing(w, OtherError, NoHeader, FALSE) /\ UNCHANGED <<conf, late, goal>>
    BY <1>3 DEF RequestLost
  <2>2. OwnVariables(w, Verdict(w, OtherError))
    BY <1>1, <2>1, LoopErrors, FailingStep
  <2>3. ~IsNotFound(OtherError) /\ IsRetryable(OtherError)
    BY DEF OtherError, IsNotFound, IsNotFoundError, hasStatusCode, IsRetryable
  <2>4. Verdict(w, OtherError) \notin {"create", "delete", "terminal"}
    BY <1>1, <2>3, VerdictFacts DEF Verdicts
  <2>5. /\ entities \in Seq(Content) /\ pending \in WriteRequest \union {NoRequest}
        /\ Len(entities) > 1 => conf.duplicate = "accepted" /\ late
        /\ \A v \in Workers : pc[v] = "create" => entities = <<>> \/ late
        /\ pending # NoRequest => LeavesAlone(pending.payload)
    BY DEF ReconcilerInv, ReconcilerTypeOK, OneEntity, CreatesFromNothing, PayloadsLeaveAlone,
           WriteRequest, Writes
  <2>6. CASE UNCHANGED <<entities, pending>>
    <3>1. ServerFits(w)
      BY <1>1, <2>1, <2>6, ServerRests DEF serverVars
    <3> QED
      BY <2>2, <2>4, <3>1, StepKeepsInv
  <2>7. CASE Accepted(Request(w), entities) /\ entities' = After(Request(w), entities) /\ UNCHANGED pending
    <3>1. pc[w] \in Writes
      BY <2>7 DEF Accepted, Request, Writes
    <3>2. ServerFits(w)
      BY <1>1, <2>1, <2>5, <2>7, <3>1, WriteLands DEF ServerFits
    <3> QED
      BY <2>2, <2>4, <3>2, StepKeepsInv
  <2>8. CASE pc[w] # "read" /\ pending' = Request(w) /\ UNCHANGED entities
    <3>1. pc[w] \in Writes
      BY <1>1, <2>8 DEF Requests, Writes
    <3>2. Request(w) \in WriteRequest /\ LeavesAlone(Request(w).payload)
      BY <3>1, RequestFacts DEF ReconcilerInv
    <3>3. ServerFits(w)
      BY <1>1, <2>1, <2>5, <2>8, <3>2 DEF ServerFits
    <3> QED
      BY <2>2, <2>4, <3>3, StepKeepsInv
  <2> QED
    BY <1>3, <2>6, <2>7, <2>8 DEF RequestLost
<1>4. CASE RequestHangs(w)
  <2>1. OwnVariables(w, "hung")
    BY <1>4, NothingLeavesAlone, QuietStep DEF RequestHangs
  <2>2. ServerFits(w)
    BY <1>1, <1>4, ServerRests DEF RequestHangs
  <2> QED
    BY <2>1, <2>2, StepKeepsInv
<1> QED
  BY <1>2, <1>3, <1>4

\* What happens without a worker.
LEMMA WorldKeepsInv ==
  ASSUME ReconcilerInv, UNCHANGED <<conf, workerVars, ended>>,
         goal' \in {goal, "gone"}, goal' = "gone" => conf.kind.delete # "none",
         faults' \in 0..MaxFaults, late' \in BOOLEAN, late => late',
         pending' \in {pending, NoRequest}, entities' \in Seq(Content),
         Len(entities') > 1 => conf.duplicate = "accepted" /\ late',
         entities = <<>> => entities' = <<>> \/ late'
  PROVE  ReconcilerInv'
<1>1. /\ pc' = pc /\ payload' = payload /\ header' = header /\ delay' = delay
      /\ conf' = conf /\ ended' = ended
  BY DEF workerVars
<1>2. ReconcilerTypeOK'
  BY <1>1 DEF ReconcilerInv, ReconcilerTypeOK
<1>3. CreatesFromNothing'
  BY <1>1 DEF ReconcilerInv, CreatesFromNothing
<1>4. DeletesWhatItMay'
  BY <1>1 DEF ReconcilerInv, DeletesWhatItMay
<1>5. PayloadsLeaveAlone'
  BY <1>1 DEF ReconcilerInv, PayloadsLeaveAlone, LeavesAlone, Class
<1>6. OneEntity'
  BY <1>1 DEF OneEntity
<1>7. TerminalIsEarned'
  <2>1. \A v \in Workers : pc'[v] = "terminal" => EarnedBy(ended'[v])
    BY <1>1, EarnedIsEarnedBy DEF ReconcilerInv
  <2> QED
    BY <1>1, <2>1, EarnedAgain
<1> QED
  BY <1>2, <1>3, <1>4, <1>5, <1>6, <1>7 DEF ReconcilerInv

LEMMA OthersKeepInv ==
  ASSUME ReconcilerInv, Land \/ Edit \/ Retire
  PROVE  ReconcilerInv'
<1>1. /\ entities \in Seq(Content) /\ late \in BOOLEAN /\ faults \in 0..MaxFaults
      /\ Len(entities) > 1 => conf.duplicate = "accepted" /\ late
      /\ goal = "gone" => conf.kind.delete # "none"
      /\ pending \in WriteRequest \union {NoRequest}
  BY DEF ReconcilerInv, ReconcilerTypeOK, OneEntity, DeletesWhatItMay, WriteRequest, Writes
<1>2. CASE Land
  <2> DEFINE es == After(pending, entities)
  <2>1. /\ pending \in WriteRequest /\ entities' = es /\ pending' = NoRequest
        /\ late' = (late \/ (pending.op = "create" /\ Accepted(pending, entities)))
        /\ UNCHANGED <<conf, goal, faults, workerVars, ended>>
    BY <1>1, <1>2 DEF Land
  <2>2. es \in Seq(Content)
    BY <1>1, <2>1, AfterFits
  <2>3. /\ Len(es) > Len(entities) =>
              pending.op = "create" /\ (entities = <<>> \/ conf.duplicate = "accepted")
        /\ Len(es) <= Len(entities) + 1
        /\ pending.op # "create" /\ entities = <<>> => es = <<>>
    BY <1>1, <2>1, AfterCounts
  <2>4. ~Accepted(pending, entities) => es = entities
    BY DEF After
  <2> HIDE DEF es
  <2>5. Len(entities) \in Nat /\ Len(es) \in Nat /\ (entities = <<>> => Len(entities) = 0)
    BY <1>1, <2>2
  <2>6. Len(es) > Len(entities) => late'
    <3>1. CASE Accepted(pending, entities)
      BY <2>1, <2>3, <3>1
    <3>2. CASE ~Accepted(pending, entities)
      BY <2>4, <2>5, <3>2
    <3> QED
      BY <3>1, <3>2
  <2>7. Len(es) > 1 => conf.duplicate = "accepted" /\ late'
    <3>1. CASE Len(es) > Len(entities)
      BY <2>3, <2>5, <2>6, <3>1
    <3>2. CASE ~(Len(es) > Len(entities))
      BY <1>1, <2>1, <2>5, <3>2
    <3> QED
      BY <3>1, <3>2
  <2>8. entities = <<>> => es = <<>> \/ late'
    BY <2>1, <2>3, <2>4
  <2>9. late' \in BOOLEAN /\ (late => late')
    BY <1>1, <2>1
  <2> QED
    BY <1>1, <2>1, <2>2, <2>7, <2>8, <2>9, WorldKeepsInv
<1>3. CASE Edit
  <2>1. PICK f \in Workers, v \in Values : entities' = [entities EXCEPT ![1][f] = v]
    BY <1>3 DEF Edit
  <2>2. entities # <<>> /\ UNCHANGED <<conf, pending, late, goal, workerVars, ended>>
    BY <1>3 DEF Edit
  <2>3. entities[1] \in Content
    BY <1>1, <2>2
  <2>4. [entities[1] EXCEPT ![f] = v] \in Content
    BY <2>3 DEF Content
  <2>5. entities' \in Seq(Content) /\ Len(entities') = Len(entities)
    BY <1>1, <2>1, <2>2, <2>4
  <2>6. faults' \in 0..MaxFaults
    BY <1>3, FaultFacts DEF Edit
  <2> QED
    BY <1>1, <2>2, <2>5, <2>6, WorldKeepsInv
<1>4. CASE Retire
  BY <1>1, <1>4, WorldKeepsInv DEF Retire, serverVars
<1> QED
  BY <1>2, <1>3, <1>4

LEMMA InvInitially ==
  ASSUME Init
  PROVE  ReconcilerInv
<1>1. PICK c \in Cases, want \in Content :
          conf = [kind |-> c.kind, want |-> want, duplicate |-> c.duplicate,
                  failures |-> c.failures, asked |-> AsksForTimeout(c.opts, GivenTimeouts),
                  ends |-> RequestsEnd(NewClient(c.opts, GivenTimeouts))]
  BY DEF Init
<1>2. AsksForTimeout(c.opts, GivenTimeouts) \in BOOLEAN
  BY DEF AsksForTimeout
<1>3. RequestsEnd(NewClient(c.opts, GivenTimeouts)) \in BOOLEAN
  BY DEF RequestsEnd
<1>4. c.kind \in Kind /\ c.duplicate \in Duplicates /\ c.failures \in SUBSET Failures
  BY CasesAssumption
<1>5. conf \in [kind : Kind, want : Content, duplicate : Duplicates,
                failures : SUBSET Failures, asked : BOOLEAN, ends : BOOLEAN]
  BY <1>1, <1>2, <1>3, <1>4
<1>6. entities \in Seq(Content) /\ Len(entities) <= 1
  <2>1. entities = <<>> \/ \E x \in Content : entities = <<x>>
    BY DEF Init
  <2>2. CASE entities = <<>>
    BY <2>2
  <2>3. CASE \E x \in Content : entities = <<x>>
    <3>1. PICK x \in Content : entities = <<x>>
      BY <2>3
    <3> QED
      BY <3>1
  <2> QED
    BY <2>1, <2>2, <2>3
<1>7. 0 \in Duration /\ 0 \in 0..MaxFaults
  BY HalfAssumption, FaultsAssumption DEF Duration
<1>8. /\ goal = "present" /\ pending = NoRequest /\ late = FALSE /\ faults = 0
      /\ pc = [w \in Workers |-> "idle"] /\ payload = [w \in Workers |-> NoPayload]
      /\ header = [w \in Workers |-> NoHeader] /\ delay = [w \in Workers |-> 0]
      /\ ended = [w \in Workers |-> NoEnding]
  BY DEF Init
<1>9. ReconcilerTypeOK
  <2>1. NoEnding \in Endings
    BY DEF NoEnding, Endings, Ending, NoError, StatusOK
  <2> QED
    BY <1>5, <1>6, <1>7, <1>8, <2>1, NothingLeavesAlone, LoopErrors DEF ReconcilerTypeOK
<1>10. \A w \in Workers : pc[w] = "idle"
  BY <1>8
<1>11. PayloadsLeaveAlone
  BY <1>8, NothingLeavesAlone DEF PayloadsLeaveAlone
<1>12. CreatesFromNothing /\ DeletesWhatItMay /\ TerminalIsEarned
  BY <1>8, <1>10 DEF CreatesFromNothing, DeletesWhatItMay, TerminalIsEarned
<1>13. OneEntity
  BY <1>6 DEF OneEntity
<1> QED
  BY <1>9, <1>11, <1>12, <1>13 DEF ReconcilerInv

LEMMA InvKept ==
  ASSUME ReconcilerInv, [Next]_vars
  PROVE  ReconcilerInv'
<1>1. CASE Land \/ Edit \/ Retire
  BY <1>1, OthersKeepInv
<1>2. ASSUME NEW w \in Workers, Act(w)
      PROVE  ReconcilerInv'
  <2>1. CASE Resync(w) \/ Requeue(w) \/ ReadFinds(w) \/ ReadFindsNothing(w)
    BY <2>1, ReadsKeepInv
  <2>2. CASE WriteAccepted(w) \/ WriteAckedBefore(w) \/ WriteRejected(w)
    BY <2>2, WritesKeepInv
  <2>3. CASE RequestRefused(w) \/ RequestLost(w) \/ RequestHangs(w)
    BY <2>3, FaultsKeepInv
  <2> QED
    BY <1>2, <2>1, <2>2, <2>3 DEF Act, Step
<1>3. CASE UNCHANGED vars
  <2>1. UNCHANGED <<conf, entities, pending, late, goal, faults, pc, payload, header, delay, ended>>
    BY <1>3 DEF vars, serverVars, workerVars
  <2>2. TerminalIsEarned'
    <3>1. \A v \in Workers : pc'[v] = "terminal" => EarnedBy(ended'[v])
      BY <2>1, EarnedIsEarnedBy DEF ReconcilerInv
    <3> QED
      BY <2>1, <3>1, EarnedAgain
  <2> QED
    BY <2>1, <2>2 DEF ReconcilerInv, ReconcilerTypeOK, CreatesFromNothing, DeletesWhatItMay,
                      PayloadsLeaveAlone, LeavesAlone, Class, OneEntity
<1> QED
  BY <1>1, <1>2, <1>3 DEF Next

(***************************************************************************)
(* The theorems.                                                           *)
(***************************************************************************)
THEOREM InvAlways == SafetySpec => []ReconcilerInv
<1> QED
  BY InvInitially, InvKept, PTL DEF SafetySpec

\* Every variable of the loop keeps its type; a delay is always a Duration.
THEOREM ReconcilerTypeCorrect == SafetySpec => []ReconcilerTypeOK
<1>1. ReconcilerInv => ReconcilerTypeOK
  BY DEF ReconcilerInv
<1> QED
  BY <1>1, InvAlways, PTL

\* The loop of doc.go never makes a second entity beside one it could have
\* found, whatever is lost, refused or late, for any number of faults.
THEOREM NeverTwoEntities == SafetySpec => []OneEntity
<1>1. ReconcilerInv => OneEntity
  BY DEF ReconcilerInv
<1> QED
  BY <1>1, InvAlways, PTL

\* A worker stops for good only on a response of the server, and on none with a
\* status that client.go lists as one that may clear, nor on a write that others
\* were faster than; but for a 404 that a delete returns, and a duplicate that the
\* server calls a bad request.
THEOREM TerminalAlwaysEarned == SafetySpec => []TerminalIsEarned
<1>1. ReconcilerInv => TerminalIsEarned
  BY DEF ReconcilerInv
<1> QED
  BY <1>1, InvAlways, PTL

\* An omitempty payload never moves a field its sender does not manage, for any
\* kind of resource and any stale read.
THEOREM ForeignFieldsAlwaysSurvive == SafetySpec => ForeignFieldsSurvive
<1> DEFINE Survives(f) ==
      /\ Class(f) # "always"
      /\ entities # <<>> /\ Len(entities') = Len(entities)
      /\ entities'[1][f] # entities[1][f]
      => entities'[1][f] = conf.want[f] \/ Edit
<1>1. ASSUME ReconcilerInv, [Next]_vars, NEW f \in Workers
      PROVE  Survives(f)
  <2>1. /\ entities \in Seq(Content) /\ pending \in WriteRequest \union {NoRequest}
        /\ pending # NoRequest => LeavesAlone(pending.payload)
    BY <1>1 DEF ReconcilerInv, ReconcilerTypeOK, PayloadsLeaveAlone, WriteRequest, Writes
  <2>2. CASE entities' = entities \/ Edit
    BY <2>2
  <2>3. CASE Land
    <3>1. pending \in WriteRequest /\ LeavesAlone(pending.payload) /\ entities' = After(pending, entities)
      BY <2>1, <2>3 DEF Land
    <3> QED
      BY <2>1, <3>1, AfterLeavesAlone
  <2>4. ASSUME NEW w \in Workers, Accepted(Request(w), entities), pc[w] \in Requests,
               entities' = After(Request(w), entities)
        PROVE  Survives(f)
    <3>1. pc[w] \in Writes
      BY <2>4 DEF Accepted, Request, Writes
    <3>2. Request(w) \in WriteRequest /\ LeavesAlone(Request(w).payload)
      BY <1>1, <3>1, RequestFacts DEF ReconcilerInv
    <3> QED
      BY <2>1, <2>4, <3>2, AfterLeavesAlone
  <2>5. ASSUME NEW w \in Workers, Act(w)
        PROVE  \/ entities' = entities
               \/ Accepted(Request(w), entities) /\ pc[w] \in Requests /\ entities' = After(Request(w), entities)
    <3>1. CASE WriteAccepted(w)
      BY <3>1 DEF WriteAccepted, Requests
    <3>2. CASE RequestLost(w)
      BY <3>2 DEF RequestLost
    <3>3. CASE Resync(w) \/ Requeue(w) \/ ReadFinds(w) \/ ReadFindsNothing(w)
      BY <3>3 DEF Resync, Requeue, ReadFinds, ReadFindsNothing, serverVars
    <3>4. CASE WriteAckedBefore(w) \/ WriteRejected(w) \/ RequestRefused(w) \/ RequestHangs(w)
      BY <3>4 DEF WriteAckedBefore, WriteRejected, RequestRefused, RequestHangs, serverVars
    <3> QED
      BY <2>5, <3>1, <3>2, <3>3, <3>4 DEF Act, Step
  <2>6. CASE Retire \/ UNCHANGED vars
    BY <2>6 DEF Retire, vars, serverVars
  <2> QED
    BY <1>1, <2>2, <2>3, <2>4, <2>5, <2>6 DEF Next
<1>2. ReconcilerInv /\ [Next]_vars => [\A f \in Workers : Survives(f)]_vars
  BY <1>1
<1>3. SafetySpec => [][\A f \in Workers : Survives(f)]_vars
  BY <1>2, InvAlways, PTL DEF SafetySpec
<1> QED
  BY <1>3, PTL DEF ForeignFieldsSurvive
=============================================================================
