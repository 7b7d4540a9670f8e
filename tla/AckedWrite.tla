------------------------------ MODULE AckedWrite ------------------------------
(***************************************************************************)
(* What an asynchronous Update method promises its caller, without the     *)
(* timers, the probes and the comparison: once the write is acknowledged   *)
(* the call ends with an error or with a value the server served after the *)
(* acknowledgement.  It never answers with what the caller sent, nor with  *)
(* anything served before the write, nor with anything at all when the     *)
(* write was not acknowledged.                                             *)
(***************************************************************************)
EXTENDS SettingsEndpoints

CONSTANTS
    Callers,     \* the callers, one Update each
    Endpoints,   \* the endpoints considered
    NoValue      \* no read has returned a value

VARIABLES
    ep,        \* the endpoint, and so the entity, all callers write to
    server,    \* the entity the server holds
    pending,   \* the callers whose write the server has not applied yet
    want,      \* what each caller writes
    phase,     \* "idle", "acked", "value" or "error"
    seen       \* what the last read of each caller returned

absVars == <<ep, server, pending, want, phase, seen>>

AckedInit ==
    /\ ep \in Endpoints
    /\ server \in StoredEntities(ep)
    /\ pending = {}
    /\ phase = [c \in Callers |-> "idle"]
    /\ seen = [c \in Callers |-> NoValue]
    /\ want \in [Callers -> Requests(ep)]

\* The server takes the write; the caller learns of it, or its response is
\* lost and the call fails though the write will be applied.
Acknowledge(c) ==
    /\ phase[c] = "idle"
    /\ pending' = pending \union {c}
    /\ \E outcome \in {"acked", "error"} : phase' = [phase EXCEPT ![c] = outcome]
    /\ UNCHANGED <<ep, server, want, seen>>

\* The call fails without the server having taken the write.
Refuse(c) ==
    /\ phase[c] = "idle"
    /\ phase' = [phase EXCEPT ![c] = "error"]
    /\ UNCHANGED <<ep, server, pending, want, seen>>

Apply(c) ==
    /\ c \in pending
    /\ server' = Applied(ep, server, want[c])
    /\ pending' = pending \ {c}
    /\ UNCHANGED <<ep, want, phase, seen>>

Observe(c) ==
    /\ phase[c] = "acked"
    /\ seen' = [seen EXCEPT ![c] = Reported(ep, server)]
    /\ UNCHANGED <<ep, server, pending, want, phase>>

\* The call returns the value it reads now.
ReturnNow(c) ==
    /\ phase[c] = "acked"
    /\ seen' = [seen EXCEPT ![c] = Reported(ep, server)]
    /\ phase' = [phase EXCEPT ![c] = "value"]
    /\ UNCHANGED <<ep, server, pending, want>>

\* The call returns the value it read last.
ReturnLast(c) ==
    /\ phase[c] = "acked"
    /\ seen[c] # NoValue
    /\ phase' = [phase EXCEPT ![c] = "value"]
    /\ UNCHANGED <<ep, server, pending, want, seen>>

\* The read-back fails or the context is done: no value is returned.
Fail(c) ==
    /\ phase[c] = "acked"
    /\ phase' = [phase EXCEPT ![c] = "error"]
    /\ seen' = [seen EXCEPT ![c] = NoValue]
    /\ UNCHANGED <<ep, server, pending, want>>

AckedNext ==
    \E c \in Callers :
        \/ Acknowledge(c) \/ Refuse(c) \/ Apply(c)
        \/ Observe(c) \/ ReturnNow(c) \/ ReturnLast(c) \/ Fail(c)

AckedSpec == AckedInit /\ [][AckedNext]_absVars
=============================================================================
