------------------------------- MODULE Reconciler -------------------------------
(***************************************************************************)
(* The reconcile loop the package is documented for (doc.go), over one     *)
(* resource of the client: read, then create, update or delete, each one   *)
(* request whose error the predicates of client.go classify.  The owner    *)
(* creates and deletes the entity and manages one field of it, another     *)
(* worker manages another field.  Requests are lost, refused, carried out  *)
(* late, or never answered; a person edits the entity now and then.        *)
(*                                                                         *)
(* A request and its answer are one step: nothing the caller does depends  *)
(* on the time in between, and what others do in it they can do before or  *)
(* after.  Between a read and the write it leads to anything can happen.   *)
(***************************************************************************)
EXTENDS Errors, Resources, ClientOptions, FiniteSets

CONSTANTS
    Owner, Other,    \* the workers, each named like the field it manages
    Cases,           \* the circumstances: a kind of resource, how the server takes a
                     \* duplicate, the failures it may answer, as records of status and
                     \* header, and the options given to NewClient
    Values,          \* what a field may hold, Empty among it
    GivenTimeouts,   \* the timeouts of the http.Clients a caller supplies
    MaxFaults        \* bound: faults and edits in a behaviour

Workers == {Owner, Other}
Classes == {"always", "nonempty", "pointer", "none"}
Kind    == [send : [Workers -> Classes], delete : {"absentOk", "absentFails", "none"},
            acked : SUBSET {"update", "delete"}]

\* A server accepts a second entity of the name, or answers 409, or answers 400.
Duplicates == {"accepted", "conflict", "bad request"}

\* What a server may fail a request with; a 404 it answers for its own reasons only.
Failures == [status : (300..599) \ {StatusNotFound}, header : Headers]

ASSUME WorkersAssumption  == Owner # Other
ASSUME CasesAssumption    ==
    \A c \in Cases : /\ c.kind \in Kind /\ c.duplicate \in Duplicates
                     /\ c.failures \subseteq Failures
ASSUME ValuesAssumption   == Empty \in Values /\ Unset \notin Values
ASSUME FaultsAssumption   == MaxFaults \in Nat

VARIABLES
    conf,       \* what stays the same: the kind of resource, what the workers want,
                \* what the server answers, how the client was built
    entities,   \* the entities under the one name; a read finds the first
    goal,       \* "present" or "gone": what the owner is to bring about
    pending,    \* a request whose answer is out but whose effect is not, or NoRequest
    late,       \* whether a create took effect after its caller was told otherwise
    faults,     \* faults and edits so far
    pc,         \* where each worker is
    payload,    \* what each worker is to update, made from what it has read
    header,     \* the Retry-After of the last failure of each worker
    delay,      \* RequeueAfter, 0 for the worker's own backoff
    ended       \* history: what each worker was answered that it gave up for good on,
                \* and whether the entity's state was the reason, or NoEnding

serverVars == <<entities, pending, late>>
workerVars == <<pc, payload, header, delay>>
vars == <<conf, serverVars, goal, faults, workerVars, ended>>

Content   == [Workers -> Values]
Payloads  == [Workers -> Values \union {"absent"}]
NoPayload == [f \in Workers |-> "absent"]
NoFields  == [f \in Workers |-> Empty]

\* What a worker may be doing: a request, waiting for the next, or nothing more.
Requests  == {"read", "create", "update", "delete"}
NoRequest == [op |-> "none"]

Ending(op, err, rejected) ==
    [op |-> op, kind |-> err.kind, status |-> err.status, rejected |-> rejected]
NoEnding == Ending("none", NoError, FALSE)
Endings  == [op : Requests \union {"none"}, kind : {"none", "http", "absent", "other"},
             status : 200..599, rejected : BOOLEAN]

ReconcilerTypeOK ==
    /\ conf \in [kind : Kind, want : Content, duplicate : Duplicates,
                 failures : SUBSET Failures, asked : BOOLEAN, ends : BOOLEAN]
    /\ entities \in Seq(Content)
    /\ goal \in {"present", "gone"}
    /\ pending \in [op : {"create", "update", "delete"}, payload : Payloads] \union {NoRequest}
    /\ late \in BOOLEAN
    /\ faults \in 0..MaxFaults
    /\ pc \in [Workers -> Requests \union {"idle", "requeue", "terminal", "hung"}]
    /\ payload \in [Workers -> Payloads]
    /\ header \in [Workers -> Headers]
    /\ delay \in [Workers -> Duration]
    /\ ended \in [Workers -> Endings]

Init ==
    /\ \E c \in Cases, want \in Content :
          conf = [kind |-> c.kind, want |-> want, duplicate |-> c.duplicate,
                  failures |-> c.failures, asked |-> AsksForTimeout(c.opts, GivenTimeouts),
                  ends |-> RequestsEnd(NewClient(c.opts, GivenTimeouts))]
    /\ \A f \in Workers : conf.kind.send[f] = "none" => conf.want[f] = Empty
    /\ entities \in {<<>>} \union {<<c>> : c \in Content}
    /\ conf.kind.delete = "none" => entities # <<>>
    /\ \A i \in DOMAIN entities, f \in Workers :
          conf.kind.send[f] = "none" => entities[i][f] = Empty
    /\ goal = "present"
    /\ pending = NoRequest
    /\ late = FALSE
    /\ faults = 0
    /\ pc = [w \in Workers |-> "idle"]
    /\ payload = [w \in Workers |-> NoPayload]
    /\ header = [w \in Workers |-> NoHeader]
    /\ delay = [w \in Workers |-> 0]
    /\ ended = [w \in Workers |-> NoEnding]

Class(w) == conf.kind.send[w]

\* The worker has a field to manage.
Active(w) == Class(w) # "none"

(***************************************************************************)
(* Payloads.  A worker fills in its own field.  A field that is sent in    *)
(* any case has to be filled in too, with what was read; the others are    *)
(* left alone.                                                             *)
(***************************************************************************)
Filled(w, content) ==
    [f \in Workers |->
        IF f = w THEN conf.want[f]
        ELSE IF Class(f) = "always" THEN content[f] ELSE Unset]

Payload(w, content) ==
    [f \in Workers |->
        IF Class(f) # "none" /\ Sent(Class(f), Filled(w, content)[f])
        THEN OnTheWire(Filled(w, content)[f]) ELSE "absent"]

\* The entity a payload leaves behind.
Overwritten(content, sent) ==
    [f \in Workers |-> IF sent[f] = "absent" THEN content[f] ELSE sent[f]]

(***************************************************************************)
(* The server.                                                             *)
(***************************************************************************)
Request(w) ==
    [op |-> pc[w],
     payload |-> IF pc[w] = "create" THEN Payload(w, NoFields) ELSE payload[w]]

Accepted(req, es) ==
    \/ req.op = "create" /\ (es = <<>> \/ conf.duplicate = "accepted")
    \/ req.op \in {"update", "delete"} /\ es # <<>>

\* What the server holds after a request.
After(req, es) ==
    IF ~Accepted(req, es) THEN es
    ELSE CASE req.op = "create" -> Append(es, Overwritten(NoFields, req.payload))
           [] req.op = "update" -> [es EXCEPT ![1] = Overwritten(es[1], req.payload)]
           [] req.op = "delete" -> Tail(es)

\* The error a request is answered with when the server does not accept it.
Rejection(req) ==
    newHTTPError(IF req.op # "create" THEN StatusNotFound
                 ELSE IF conf.duplicate = "conflict" THEN StatusConflict ELSE StatusBadRequest,
                 NoHeader)

(***************************************************************************)
(* A worker.                                                               *)
(***************************************************************************)
\* The switch on the error of a read, in the order of its cases.
ReadVerdict(w, err) ==
    CASE IsNotFound(err)
            -> IF w = Owner /\ goal = "present" THEN "create" ELSE "idle"
      [] ~IsNotFound(err) /\ IsRetryable(err) -> "requeue"
      [] OTHER -> "terminal"

\* What the predicates advise after a failed write: one that may clear is tried
\* again later, one that met something already there, newer or gone after another
\* read, and nothing else.
WriteVerdict(w, err) ==
    CASE IsRetryable(err) -> "requeue"
      [] ~IsRetryable(err) /\ pc[w] = "create" /\ IsAlreadyExists(err) -> "read"
      [] ~IsRetryable(err) /\ pc[w] \in {"update", "delete"} /\ IsConflict(err) -> "read"
      [] ~IsRetryable(err) /\ pc[w] = "update" /\ IsNotFound(err) -> "read"
      [] OTHER -> "terminal"

Verdict(w, err) == IF pc[w] = "read" THEN ReadVerdict(w, err) ELSE WriteVerdict(w, err)

\* What the worker does with an error; after is the Retry-After that came with it,
\* rejected says whether the server found nothing to update or delete, or a duplicate.
Failing(w, err, after, rejected) ==
    /\ pc' = [pc EXCEPT ![w] = Verdict(w, err)]
    /\ IF Verdict(w, err) = "requeue"
       THEN /\ header' = [header EXCEPT ![w] = after]
            /\ delay' = [delay EXCEPT ![w] = RetryAfter(err).delay]
       ELSE UNCHANGED <<header, delay>>
    /\ ended' = IF Verdict(w, err) = "terminal"
                THEN [ended EXCEPT ![w] = Ending(pc[w], err, rejected)] ELSE ended
    /\ payload' = [payload EXCEPT ![w] = NoPayload]

Succeeding(w) ==
    /\ pc' = [pc EXCEPT ![w] = "idle"]
    /\ payload' = [payload EXCEPT ![w] = NoPayload]
    /\ UNCHANGED <<header, delay>>

Resync(w) ==
    /\ pc[w] = "idle" /\ Active(w)
    /\ pc' = [pc EXCEPT ![w] = "read"]
    /\ UNCHANGED <<conf, serverVars, goal, faults, payload, header, delay, ended>>

Requeue(w) ==
    /\ pc[w] = "requeue"
    /\ pc' = [pc EXCEPT ![w] = "read"]
    /\ header' = [header EXCEPT ![w] = NoHeader]
    /\ delay' = [delay EXCEPT ![w] = 0]
    /\ UNCHANGED <<conf, serverVars, goal, faults, payload, ended>>

ReadFinds(w) ==
    /\ pc[w] = "read" /\ entities # <<>>
    /\ \/ /\ w = Owner /\ goal = "gone"
          /\ pc' = [pc EXCEPT ![w] = "delete"]
          /\ UNCHANGED payload
       \/ /\ w # Owner \/ goal = "present"
          /\ entities[1][w] = conf.want[w]
          /\ pc' = [pc EXCEPT ![w] = "idle"]
          /\ UNCHANGED payload
       \/ /\ w # Owner \/ goal = "present"
          /\ entities[1][w] # conf.want[w]
          /\ pc' = [pc EXCEPT ![w] = "update"]
          /\ payload' = [payload EXCEPT ![w] = Payload(w, entities[1])]
    /\ UNCHANGED <<conf, serverVars, goal, faults, header, delay, ended>>

\* A read by id answers 404, one by name or over a collection finds no match.
ReadFindsNothing(w) ==
    /\ pc[w] = "read" /\ entities = <<>>
    /\ \E err \in {newHTTPError(StatusNotFound, NoHeader), ErrNotFound} :
          Failing(w, err, NoHeader, FALSE)
    /\ UNCHANGED <<conf, serverVars, goal, faults>>

WriteAccepted(w) ==
    /\ pc[w] \in {"create", "update", "delete"} /\ Accepted(Request(w), entities)
    /\ entities' = After(Request(w), entities)
    /\ Succeeding(w)
    /\ UNCHANGED <<conf, pending, late, goal, faults, ended>>

\* A method that waited for the write it was acknowledged, and gave up: it succeeds,
\* and the write is still to come.
WriteAckedBefore(w) ==
    /\ pc[w] \in conf.kind.acked /\ Accepted(Request(w), entities)
    /\ pending = NoRequest
    /\ pending' = Request(w)
    /\ Succeeding(w)
    /\ UNCHANGED <<conf, entities, late, goal, faults, ended>>

\* A delete takes the error for success.
DeleteSettles(err) == conf.kind.delete = "absentOk" /\ IsNotFoundError(err)

WriteRejected(w) ==
    /\ pc[w] \in {"create", "update", "delete"} /\ ~Accepted(Request(w), entities)
    /\ \/ /\ pc[w] = "delete" /\ DeleteSettles(Rejection(Request(w)))
          /\ Succeeding(w)
          /\ UNCHANGED ended
       \/ /\ ~(pc[w] = "delete" /\ DeleteSettles(Rejection(Request(w))))
          /\ Failing(w, Rejection(Request(w)), NoHeader, TRUE)
    /\ UNCHANGED <<conf, serverVars, goal, faults>>

Step(w) ==
    \/ Resync(w) \/ Requeue(w)
    \/ ReadFinds(w) \/ ReadFindsNothing(w)
    \/ WriteAccepted(w) \/ WriteAckedBefore(w) \/ WriteRejected(w)

(***************************************************************************)
(* Faults, and the rest of the world.                                      *)
(***************************************************************************)
Fault == faults < MaxFaults /\ faults' = faults + 1

\* The server answers a failing status, having done nothing.
RequestRefused(w) ==
    /\ Fault
    /\ pc[w] \in Requests
    /\ \E f \in conf.failures : Failing(w, newHTTPError(f.status, f.header), f.header, FALSE)
    /\ UNCHANGED <<conf, serverVars, goal>>

\* No answer arrives in time: the request was carried out, or is not, or will be.
RequestLost(w) ==
    /\ Fault
    /\ pc[w] \in Requests
    /\ \/ UNCHANGED <<entities, pending>>
       \/ /\ Accepted(Request(w), entities)
          /\ entities' = After(Request(w), entities)
          /\ UNCHANGED pending
       \/ /\ pc[w] # "read" /\ pending = NoRequest
          /\ pending' = Request(w)
          /\ UNCHANGED entities
    /\ Failing(w, OtherError, NoHeader, FALSE)
    /\ UNCHANGED <<conf, late, goal>>

\* The server stays silent for good, and nothing ends the wait.
RequestHangs(w) ==
    /\ Fault
    /\ pc[w] \in Requests /\ ~conf.ends
    /\ pc' = [pc EXCEPT ![w] = "hung"]
    /\ payload' = [payload EXCEPT ![w] = NoPayload]
    /\ UNCHANGED <<conf, serverVars, goal, header, delay, ended>>

\* What was acknowledged, or given up on, takes effect.
Land ==
    /\ pending # NoRequest
    /\ entities' = After(pending, entities)
    /\ late' = (late \/ (pending.op = "create" /\ Accepted(pending, entities)))
    /\ pending' = NoRequest
    /\ UNCHANGED <<conf, goal, faults, workerVars, ended>>

\* A person changes a field.
Edit ==
    /\ Fault
    /\ entities # <<>>
    /\ \E f \in Workers, v \in Values :
          /\ Active(f) /\ v # entities[1][f]
          /\ entities' = [entities EXCEPT ![1][f] = v]
    /\ UNCHANGED <<conf, pending, late, goal, workerVars, ended>>

\* The entity is no longer wanted.
Retire ==
    /\ goal = "present" /\ conf.kind.delete # "none"
    /\ goal' = "gone"
    /\ UNCHANGED <<conf, serverVars, faults, workerVars, ended>>

Act(w) == Step(w) \/ RequestRefused(w) \/ RequestLost(w) \/ RequestHangs(w)

Next == Land \/ Edit \/ Retire \/ \E w \in Workers : Act(w)

\* Workers keep running, and what was acknowledged takes effect some day.
Fairness == WF_vars(Land) /\ \A w \in Workers : WF_vars(Act(w))

SafetySpec == Init /\ [][Next]_vars
Spec == SafetySpec /\ Fairness

(***************************************************************************)
(* Properties.                                                             *)
(***************************************************************************)

\* The loop never creates an entity that is there: a failed read is not taken
\* for absence, and a create whose answer was lost is not repeated blindly.  A
\* second entity appears only where the server accepts duplicates and a create
\* given up on took effect after all.
OneEntity == Len(entities) > 1 => conf.duplicate = "accepted" /\ late

\* What worker w gave up on is a response that says the request itself is wrong: no
\* status that may clear on its own, and no write that others were faster than.  The
\* statuses are those of the comment on IsRetryable: a 501 is refused for good, though
\* doc.go counts any "5xx" among the failures that may clear.
RefusedForGood(w) ==
    /\ ended[w].kind = "http" /\ ~ended[w].rejected
    /\ ended[w].status \notin {429, 500, 502, 503, 504}
    /\ ended[w].op # "read" => ended[w].status # 409

\* A delete of something others have deleted, by a method that returns the 404.
GoneBefore(w) ==
    /\ ended[w].rejected /\ ended[w].op = "delete" /\ ended[w].status = 404
    /\ conf.kind.delete = "absentFails"

\* A create of something an earlier create made after its caller had given up on it,
\* at a server that calls a duplicate a bad request.
DuplicateUnnamed(w) ==
    /\ ended[w].rejected /\ ended[w].op = "create" /\ ended[w].status = 400
    /\ conf.duplicate = "bad request" /\ late

\* A worker gives up for good only on a response, and only on one that will not
\* clear: never because no answer came, a limit or a gateway was in the way, what it
\* updates is gone, or others were faster.  Two responses make it give up although
\* nothing is wrong with the request, those of GoneBefore and of DuplicateUnnamed.
TerminalIsEarned ==
    \A w \in Workers :
        pc[w] = "terminal" => RefusedForGood(w) \/ GoneBefore(w) \/ DuplicateUnnamed(w)

\* How long a header asks to wait, whatever a Duration can hold.
Asked(h) ==
    CASE h.form = "seconds" /\ h.n > 0 -> h.n * Second
      [] h.form = "date" /\ h.n > 0    -> h.n
      [] OTHER                         -> 0

\* A requeue waits exactly as long as the failure that led to it asked for, in
\* seconds or by a date, and falls back to the worker's own backoff when it asked
\* for nothing, as long as a Duration can hold what was asked for.  What happens
\* beyond is the subject of NeverTooEarly.
DelayIsAsked ==
    \A w \in Workers :
        pc[w] = "requeue" /\ Asked(header[w]) < Half => delay[w] = Asked(header[w])

\* A requeue comes no earlier than the server asked for, or than the longest
\* Duration: RetryAfter "returns the delay the server asked the caller to wait".
NeverTooEarly ==
    \A w \in Workers :
        pc[w] = "requeue" => delay[w] >= Asked(header[w]) \/ delay[w] = Half - 1

\* No request changes a field its sender does not manage, whatever it read and
\* however late it lands, unless the payload has to carry that field: a field
\* tagged omitempty moves only to what its own worker wants.
ForeignFieldsSurvive ==
    [][\A f \in Workers :
          /\ Class(f) # "always"
          /\ entities # <<>> /\ Len(entities') = Len(entities)
          /\ entities'[1][f] # entities[1][f]
          => entities'[1][f] = conf.want[f] \/ Edit]_vars

\* The entity is as the workers want it, or gone when it is to be gone.
Settled ==
    IF goal = "gone" THEN entities = <<>>
    ELSE entities # <<>> /\ \A w \in Workers : Active(w) => entities[1][w] = conf.want[w]

\* Whatever is lost, repeated, refused for a while, late or overwritten by the
\* other worker, the loops bring the entity to where it is to be and leave it
\* there, unless a worker has been refused for good or was taken in by a duplicate.
\* The payload has to be able to carry the values (omitempty cannot carry an empty
\* one), and the caller has to have asked NewClient for a timeout or taken the
\* default.
Converges ==
    conf.asked /\ (\A w \in Workers : Active(w) => Expressible(Class(w), conf.want[w]))
        => <>[](Settled \/ \E w \in Workers :
                    pc[w] = "terminal" /\ (RefusedForGood(w) \/ DuplicateUnnamed(w)))
=============================================================================
