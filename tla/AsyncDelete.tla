------------------------------ MODULE AsyncDelete ------------------------------
(***************************************************************************)
(* The deletes that wait in awaitAsyncProcessing because the server        *)
(* acknowledges a removal before applying it:                              *)
(*   "bundle"  deleteBundleByID, which repeats the DELETE while it is      *)
(*             refused because the bundle is still in use                  *)
(*   "value"   deleteBundleValue, which re-reads the bundle until it no    *)
(*             longer lists the value                                      *)
(*   "user"    DeleteUser, which re-reads the user until that is a 404     *)
(* The callers of one behaviour work on one bundle, one of its values and  *)
(* one user.  Something the server has acknowledged to remove is "leaving" *)
(* until it is "gone".                                                     *)
(***************************************************************************)
EXTENDS Await

CONSTANT Assignments    \* what the callers may be about to delete

Ops == {"bundle", "value", "user"}

ASSUME AssignmentsAssumption == Assignments \subseteq [Callers -> Ops]

VARIABLES
    op,        \* what each caller deletes
    bundle,    \* the bundle: "there" or "gone"
    field,     \* the field that uses the bundle: "there", "leaving", "gone"
    value,     \* the value of the bundle
    user,      \* the user
    request,   \* per caller, the first DELETE: "none", "acked", "absent", "failed"
    lastErr    \* the error the last probe ended with: "nil", "inUse",
               \* "notFound" or "other"

removals == <<bundle, field, value, user>>
deleteVars == <<loop, waited, tick, done, op, bundle, field, value, user, request, lastErr>>

Presence == {"there", "leaving", "gone"}

AsyncDeleteTypeOK ==
    /\ AwaitTypeOK
    /\ op \in Assignments
    /\ bundle \in {"there", "gone"}
    /\ field \in Presence
    /\ value \in Presence
    /\ user \in Presence
    /\ request \in [Callers -> {"none", "acked", "absent", "failed"}]
    /\ lastErr \in [Callers -> {"nil", "inUse", "notFound", "other"}]
    /\ \A c \in Callers : loop[c] # "idle" => request[c] = "acked"

DeleteInit ==
    /\ AwaitInit
    /\ op \in Assignments
    /\ bundle = "there"
    /\ field \in Presence
    /\ value \in {"there", "gone"}
    /\ user \in {"there", "gone"}
    /\ request = [c \in Callers |-> "none"]
    /\ lastErr = [c \in Callers |-> "nil"]

Fails(c, err) == lastErr' = [lastErr EXCEPT ![c] = err]

(***************************************************************************)
(* The server in its own time, and the field's removal by somebody else.   *)
(***************************************************************************)
Settle ==
    /\ \/ field = "leaving" /\ field' = "gone" /\ UNCHANGED <<value, user>>
       \/ value = "leaving" /\ value' = "gone" /\ UNCHANGED <<field, user>>
       \/ user = "leaving" /\ user' = "gone" /\ UNCHANGED <<field, value>>
    /\ UNCHANGED <<loop, waited, tick, done, op, bundle, request, lastErr>>

RemoveField ==
    /\ field = "there"
    /\ field' = "leaving"
    /\ UNCHANGED <<loop, waited, tick, done, op, bundle, value, user, request, lastErr>>

(***************************************************************************)
(* deleteBundleByID: no request of its own before the poll.                *)
(***************************************************************************)
StartBundle(c) ==
    /\ op[c] = "bundle"
    /\ request[c] = "none"
    /\ request' = [request EXCEPT ![c] = "acked"]
    /\ Enter(c)
    /\ UNCHANGED <<op, removals, lastErr>>

\* "This bundle has usages", "because it is referenced"
InUse == field # "gone" \/ value = "leaving"

\* The DELETE is granted, or the bundle is no longer there (deleteByID takes
\* a 404 for success).
DeleteGranted(c) ==
    /\ op[c] = "bundle"
    /\ ~done[c]
    /\ bundle = "there" => ~InUse
    /\ ProbeSettles(c)
    /\ bundle' = "gone"
    /\ Fails(c, "nil")
    /\ UNCHANGED <<op, field, value, user, request>>

\* Mutation: lastErr := deleteByID(...) inside the closure, which declares
\* another variable.
DeleteRefusedShadowed(c) ==
    /\ op[c] = "bundle"
    /\ ~done[c]
    /\ bundle = "there"
    /\ InUse
    /\ ProbeAgain(c)
    /\ UNCHANGED <<op, removals, request, lastErr>>

DeleteRefused(c) ==
    /\ op[c] = "bundle"
    /\ ~done[c]
    /\ bundle = "there"
    /\ InUse
    /\ ProbeAgain(c)
    /\ Fails(c, "inUse")
    /\ UNCHANGED <<op, removals, request>>

\* Any other failure ends the poll, as does a context that is done.  The
\* bundle may have been deleted all the same.
DeleteFails(c) ==
    /\ op[c] = "bundle"
    /\ ProbeSettles(c)
    /\ \/ bundle' = bundle
       \/ ~InUse /\ bundle' = "gone"
    /\ Fails(c, "other")
    /\ UNCHANGED <<op, field, value, user, request>>

(***************************************************************************)
(* deleteBundleValue and DeleteUser: a DELETE, then the poll.              *)
(***************************************************************************)
\* The server has the thing to delete; one that is leaving it may still take
\* a DELETE for, or answer 404.
Deletable(c) ==
    \/ op[c] = "value" /\ value # "gone" /\ bundle = "there"
    \/ op[c] = "user" /\ user # "gone"

Absent(c) ==
    \/ op[c] = "value" /\ (value # "there" \/ bundle = "gone")
    \/ op[c] = "user" /\ user # "there"

RequestAcked(c) ==
    /\ request[c] = "none"
    /\ ~done[c]
    /\ Deletable(c)
    /\ request' = [request EXCEPT ![c] = "acked"]
    /\ value' = IF op[c] = "value" THEN "leaving" ELSE value
    /\ user' = IF op[c] = "user" THEN "leaving" ELSE user
    /\ Enter(c)
    /\ UNCHANGED <<op, bundle, field, lastErr>>

\* Mutation: a 404 of the DELETE is polled for like an acknowledgement.
RequestAbsentPolls(c) ==
    /\ request[c] = "none"
    /\ ~done[c]
    /\ Absent(c)
    /\ request' = [request EXCEPT ![c] = "absent"]
    /\ Enter(c)
    /\ UNCHANGED <<op, removals, lastErr>>

\* A 404 is success without a poll.
RequestAbsent(c) ==
    /\ request[c] = "none"
    /\ ~done[c]
    /\ Absent(c)
    /\ request' = [request EXCEPT ![c] = "absent"]
    /\ UNCHANGED <<loop, waited, tick, done, op, removals, lastErr>>

\* The DELETE, or the lookup of a user's successor before it, fails; the
\* server may have taken the DELETE.
RequestFails(c) ==
    /\ op[c] # "bundle"
    /\ request[c] = "none"
    /\ request' = [request EXCEPT ![c] = "failed"]
    /\ value' \in {value} \union {v \in {"leaving"} : op[c] = "value" /\ Deletable(c)}
    /\ user' \in {user} \union {u \in {"leaving"} : op[c] = "user" /\ Deletable(c)}
    /\ UNCHANGED <<loop, waited, tick, done, op, bundle, field, lastErr>>

\* stillListed reads false, or the bundle itself is a 404.
ValueUnlisted(c) ==
    /\ op[c] = "value"
    /\ ~done[c]
    /\ bundle = "gone" \/ value = "gone"
    /\ ProbeSettles(c)
    /\ Fails(c, IF bundle = "gone" THEN "notFound" ELSE "nil")
    /\ UNCHANGED <<op, removals, request>>

\* Mutation: the acknowledgement is taken for the removal.
ValueListedReturns(c) ==
    /\ op[c] = "value"
    /\ ~done[c]
    /\ bundle = "there"
    /\ value # "gone"
    /\ ProbeSettles(c)
    /\ Fails(c, "nil")
    /\ UNCHANGED <<op, removals, request>>

ValueListed(c) ==
    /\ op[c] = "value"
    /\ ~done[c]
    /\ bundle = "there"
    /\ value # "gone"
    /\ ProbeAgain(c)
    /\ Fails(c, "nil")
    /\ UNCHANGED <<op, removals, request>>

\* A read that fails ends the poll of a value (readBackAfterWrite).
ValueReadFails(c) ==
    /\ op[c] = "value"
    /\ ProbeSettles(c)
    /\ Fails(c, "other")
    /\ UNCHANGED <<op, removals, request>>

UserGone(c) ==
    /\ op[c] = "user"
    /\ ~done[c]
    /\ user = "gone"
    /\ ProbeSettles(c)
    /\ UNCHANGED <<op, removals, request, lastErr>>

\* A user still there, or any failure but a 404, keeps the poll going.
UserNotGone(c) ==
    /\ op[c] = "user"
    /\ ProbeAgain(c)
    /\ UNCHANGED <<op, removals, request, lastErr>>

(***************************************************************************)
(* Specification.                                                          *)
(***************************************************************************)
Start(c) == StartBundle(c) \/ RequestAcked(c) \/ RequestAbsent(c) \/ RequestFails(c)

ProbeStep(c) ==
    \/ DeleteGranted(c) \/ DeleteRefused(c) \/ DeleteFails(c)
    \/ ValueUnlisted(c) \/ ValueListed(c) \/ ValueReadFails(c)
    \/ UserGone(c) \/ UserNotGone(c)

DeleteLeavesSelect(c) == Select(c) /\ UNCHANGED <<op, removals, request, lastErr>>

DeletePasses(c) == (Elapse(c) \/ Cancel(c)) /\ UNCHANGED <<op, removals, request, lastErr>>

DeleteNext ==
    \/ Settle
    \/ RemoveField
    \/ \E c \in Callers : Start(c) \/ ProbeStep(c) \/ DeleteLeavesSelect(c) \/ DeletePasses(c)

DeleteFairness ==
    \A c \in Callers :
        /\ WF_deleteVars(ProbeStep(c))
        /\ WF_deleteVars(Elapse(c) /\ UNCHANGED <<op, removals, request, lastErr>>)
        /\ WF_deleteVars(DeleteLeavesSelect(c))
        /\ SF_deleteVars(DeleteLeavesSelect(c) /\ loop'[c] = "expired")

DeleteSafetySpec == DeleteInit /\ [][DeleteNext]_deleteVars
DeleteSpec == DeleteSafetySpec /\ DeleteFairness

(***************************************************************************)
(* What the caller is told.                                                *)
(***************************************************************************)
\* The call has returned nil.
DeleteReturnsNil(c) ==
    \/ request[c] = "absent"
    \/ op[c] = "bundle" /\ loop[c] \in {"settled", "expired"} /\ lastErr[c] = "nil"
    \/ op[c] = "value" /\ loop[c] \in {"settled", "expired"} /\ lastErr[c] # "other"
    \/ op[c] = "user" /\ loop[c] \in {"settled", "expired"}

DeleteReturnsError(c) ==
    request[c] = "failed" \/ (loop[c] \in Returned /\ ~DeleteReturnsNil(c))

(***************************************************************************)
(* Properties.                                                             *)
(***************************************************************************)

BundleDeleteIsTrue(c) ==
    op[c] = "bundle" =>
        /\ DeleteReturnsNil(c) => bundle = "gone"
        /\ loop[c] = "expired" => lastErr[c] = "inUse"

UserDeleteIsTrue(c) ==
    op[c] = "user" =>
        /\ loop[c] = "settled" => user = "gone"
        /\ request[c] = "acked" /\ DeleteReturnsError(c) => done[c]

\* A delete tells the truth.  deleteBundleByID: when it returns nil the bundle
\* is gone, and when the budget has run out the error that is returned is the
\* refusal, from a server that had the bundle then.  DeleteUser: once the
\* delete is acknowledged the poll only settles on a user that is gone, a
\* failed read is never taken for its absence, and only a context that is done
\* makes the delete an error.
DeletesAreTrue == \A c \in Callers : BundleDeleteIsTrue(c) /\ UserDeleteIsTrue(c)

\* Deletes in sequence work: once a deleteBundleValue has settled, a delete
\* of its bundle is never refused on account of the value, whatever order
\* the server applies its deletes in.
ValueDeleteUnblocksBundle ==
    [][\A c, d \in Callers :
          /\ op[d] = "value" /\ loop[d] = "settled" /\ DeleteReturnsNil(d)
          /\ DeleteRefused(c)
          => field # "gone"]_deleteVars

\* Every delete returns.
DeleteReturns ==
    \A c \in Callers : request[c] = "acked" ~> loop[c] \in Returned
=============================================================================
