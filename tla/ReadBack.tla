------------------------------- MODULE ReadBack -------------------------------
(***************************************************************************)
(* The asynchronous Update methods: a POST that the server acknowledges    *)
(* before applying it, followed by readBackAfterWrite (async.go), which    *)
(* polls a GET inside awaitAsyncProcessing until what it reads reflects    *)
(* the write.                                                              *)
(*                                                                         *)
(* Several callers may update the same entity.  The server applies the     *)
(* writes it has acknowledged in its own time and in any order: nothing in *)
(* the client depends on more.  A request is one atomic step at the server *)
(* (its effect, or its reading), as a caller does nothing between sending  *)
(* it and using the response.                                              *)
(***************************************************************************)
EXTENDS Await, SettingsEndpoints

CONSTANTS
    Endpoints,   \* the endpoints considered, a subset of AllEndpoints
    NoValue      \* the zero value returned beside an error

ASSUME EndpointsAssumption == Endpoints \subseteq AllEndpoints
ASSUME NoValueAssumption ==
    \A e \in Endpoints : NoValue \notin [DOMAIN e -> Values \union {EmptyList}]

VARIABLES
    ep,        \* the endpoint all callers write to in this behaviour
    server,    \* the entity the server holds
    pending,   \* callers whose acknowledged write is not applied yet
    want,      \* what each caller writes
    post,      \* "none", "acked", or "failed": the outcome of the POST
    last,      \* readBackAfterWrite's last
    readErr    \* readBackAfterWrite's lastErr is not nil

callVars == <<want, post, last, readErr>>
vars == <<loop, waited, tick, done, ep, server, pending, want, post, last, readErr>>

Entities == [DOMAIN ep -> Values \union {EmptyList}]

ReadBackTypeOK ==
    /\ AwaitTypeOK
    /\ ep \in Endpoints
    /\ server \in Entities
    /\ pending \subseteq Callers
    /\ want \in [Callers -> Requests(ep)]
    /\ post \in [Callers -> {"none", "acked", "failed"}]
    /\ last \in [Callers -> Entities \union {NoValue}]
    /\ readErr \in [Callers -> BOOLEAN]

Init ==
    /\ AwaitInit
    /\ ep \in Endpoints
    /\ server \in StoredEntities(ep)
    /\ pending = {}
    /\ want \in [Callers -> Requests(ep)]
    /\ post = [c \in Callers |-> "none"]
    /\ last = [c \in Callers |-> NoValue]
    /\ readErr = [c \in Callers |-> FALSE]

(***************************************************************************)
(* The write.                                                              *)
(***************************************************************************)
\* doRequest returns 2xx: the server has taken the write, the read-back starts.
PostAcked(c) ==
    /\ post[c] = "none"
    /\ ~done[c]
    /\ post' = [post EXCEPT ![c] = "acked"]
    /\ pending' = pending \union {c}
    /\ Enter(c)
    /\ UNCHANGED <<ep, server, want, last, readErr>>

\* doRequest returns an error: the server refused the write or never saw it,
\* or the response was lost after the server took the write.
PostFails(c) ==
    /\ post[c] = "none"
    /\ post' = [post EXCEPT ![c] = "failed"]
    /\ \/ pending' = pending
       \/ pending' = pending \union {c}
    /\ UNCHANGED <<loop, waited, tick, done, ep, server, want, last, readErr>>

\* The server makes an acknowledged write visible to reads.
Apply(c) ==
    /\ c \in pending
    /\ server' = Applied(ep, server, want[c])
    /\ pending' = pending \ {c}
    /\ UNCHANGED <<loop, waited, tick, done, ep, want, post, last, readErr>>

(***************************************************************************)
(* The probe: attempt in readBackAfterWrite.                               *)
(***************************************************************************)
\* Mutation: a failed read is taken for a stale one.
ReadFailsKeepsPolling(c) ==
    /\ ProbeAgain(c)
    /\ readErr' = [readErr EXCEPT ![c] = TRUE]
    /\ last' = [last EXCEPT ![c] = NoValue]
    /\ UNCHANGED <<ep, server, pending, want, post>>

\* The GET fails, or the context is done and it cannot be made: attempt
\* reports settled so that the caller sees the error.
ReadFails(c) ==
    /\ ProbeSettles(c)
    /\ readErr' = [readErr EXCEPT ![c] = TRUE]
    /\ last' = [last EXCEPT ![c] = NoValue]
    /\ UNCHANGED <<ep, server, pending, want, post>>

\* Mutation: the read that settles the poll is not kept.
ReadReflectsWriteUnkept(c) ==
    /\ ~done[c]
    /\ Reflects(ep, Reported(ep, server), want[c])
    /\ ProbeSettles(c)
    /\ UNCHANGED <<ep, server, pending, want, post, last, readErr>>

ReadReflectsWrite(c) ==
    /\ ~done[c]
    /\ Reflects(ep, Reported(ep, server), want[c])
    /\ ProbeSettles(c)
    /\ last' = [last EXCEPT ![c] = Reported(ep, server)]
    /\ UNCHANGED <<ep, server, pending, want, post, readErr>>

\* Mutation: one stale read is enough, the ticker is never waited for.
ReadIsStaleGivesUp(c) ==
    /\ ~done[c]
    /\ ~Reflects(ep, Reported(ep, server), want[c])
    /\ Goto(c, {"first", "probe"}, "expired")
    /\ last' = [last EXCEPT ![c] = Reported(ep, server)]
    /\ UNCHANGED <<waited, tick, done, ep, server, pending, want, post, readErr>>

ReadIsStale(c) ==
    /\ ~done[c]
    /\ ~Reflects(ep, Reported(ep, server), want[c])
    /\ ProbeAgain(c)
    /\ last' = [last EXCEPT ![c] = Reported(ep, server)]
    /\ UNCHANGED <<ep, server, pending, want, post, readErr>>

(***************************************************************************)
(* The rest of the poll loop, from Await.                                  *)
(***************************************************************************)
\* On an expired budget last is returned; on a done context the zero value.
LeaveSelect(c) ==
    /\ \/ SelectTick(c) /\ last' = last
       \/ SelectDeadline(c) /\ last' = last
       \/ SelectDone(c) /\ last' = [last EXCEPT ![c] = NoValue]
    /\ UNCHANGED <<ep, server, pending, want, post, readErr>>

Passing(c) ==
    /\ Elapse(c) \/ Cancel(c)
    /\ UNCHANGED <<ep, server, pending, want, post, last, readErr>>

Read(c) == ReadFails(c) \/ ReadReflectsWrite(c) \/ ReadIsStale(c)

Next ==
    \E c \in Callers :
        \/ PostAcked(c) \/ PostFails(c) \/ Apply(c)
        \/ Read(c) \/ LeaveSelect(c) \/ Passing(c)

(***************************************************************************)
(* Await's fairness, restated over the actions that refine its own.        *)
(***************************************************************************)
Fairness ==
    \A c \in Callers :
        /\ WF_vars(Read(c))
        /\ WF_vars(Elapse(c) /\ UNCHANGED <<ep, server, pending, callVars>>)
        /\ WF_vars(LeaveSelect(c))
        /\ SF_vars(LeaveSelect(c) /\ loop'[c] = "expired")
        /\ SF_vars(LeaveSelect(c) /\ loop'[c] = "cancelled")

SafetySpec == Init /\ [][Next]_vars
Spec == SafetySpec /\ Fairness

(***************************************************************************)
(* The call as its caller sees it.                                         *)
(***************************************************************************)
ReturnsError(c) ==
    \/ post[c] = "failed"
    \/ loop[c] = "cancelled"
    \/ loop[c] = "settled" /\ readErr[c]

ReturnsValue(c) == loop[c] = "expired" \/ (loop[c] = "settled" /\ ~readErr[c])

Phase(c) ==
    IF ReturnsError(c) THEN "error"
    ELSE IF ReturnsValue(c) THEN "value"
    ELSE IF post[c] = "acked" THEN "acked" ELSE "idle"

Promise == INSTANCE AckedWrite WITH
    phase <- [c \in Callers |-> Phase(c)],
    seen  <- last

(***************************************************************************)
(* Properties.                                                             *)
(***************************************************************************)

\* The detailed method keeps the promise of AckedWrite.
KeepsPromise == Promise!AckedSpec

Settled(c) == loop[c] = "settled" /\ ~readErr[c]

NobodyElseWrites(c) == \A d \in Callers \ {c} : post[d] = "none"

\* An Update that returns because the read-back settled leaves no drift
\* behind, at any of the endpoints: as long as nobody else has written, the
\* server agrees with the request on every field it sets, but for those the
\* projection leaves out (or compares by their number alone), and for these
\* only until the write lands: the next reconcile after it finds nothing to do.
SettledLeavesNoDrift ==
    \A c \in Callers : Settled(c) /\ NobodyElseWrites(c) =>
        \A f \in Written(ep, want[c]) :
            server[f] # Stored(ep, f, want[c][f]) =>
                f \notin Awaited(ep) /\ c \in pending

\* A read made after the caller's write has been applied, and before anybody
\* else writes, that is not taken for its answer.
WaitsForNothing(c) ==
    /\ c \notin pending
    /\ NobodyElseWrites(c)
    /\ ReadIsStale(c)

\* No Update spends the poll budget on a write that is already visible, at
\* the endpoints that compare only what they send.
ExactReadBackSettles ==
    [][\A c \in Callers : WaitsForNothing(c) => ~ComparesOnlyWhatItSends(ep)]_vars

\* async_state.go: the projections exist so that a read-back "compares only
\* what was sent", as any other field "would turn every write into a full
\* poll-timeout wait".
AppliedWriteSettles == [][\A c \in Callers : ~WaitsForNothing(c)]_vars

\* No failed read is hidden: when the last read of a call failed the call
\* has returned, with an error and without a value.
FailedReadSurfaces ==
    \A c \in Callers :
        readErr[c] => ReturnsError(c) /\ last[c] = NoValue

\* Every acknowledged Update returns, however slowly the server applies the
\* write and whatever other callers write meanwhile.
UpdateReturns ==
    \A c \in Callers : post[c] = "acked" ~> loop[c] \in Returned
=============================================================================
