------------------------------ MODULE Membership ------------------------------
(***************************************************************************)
(* AddUserToGroup, RemoveUserFromGroup (hub_users_groups.go) and           *)
(* DeleteGroup (users_groups.go): each tries a chain of endpoint variants, *)
(* because servers differ in the ones they have.  A 404 or a 405 moves on  *)
(* to the next variant, any other error ends the call.                     *)
(*                                                                         *)
(* A 404 is ambiguous: the server may not have the endpoint, or the        *)
(* endpoint may not have the membership.  Several workers act on the same  *)
(* user and group, one attempt at a time.                                  *)
(*                                                                         *)
(* A group lives on both sides of the API, Hub's and YouTrack's; Hub's     *)
(* endpoints delete its record there only (CHANGELOG.md, 1.6.0).           *)
(***************************************************************************)
EXTENDS Naturals, Sequences

CONSTANTS
    Workers,
    Calls,       \* the calls a worker may make
    Servers      \* the servers considered: each a set of endpoints it has

VARIABLES
    endpoints,   \* the endpoints the server has
    member,      \* the user is a member of the group
    hub, row,    \* the group exists in Hub; in YouTrack
    call,        \* each worker's call, "none" before it is made
    at,          \* the attempt of the chain it is at
    pc,          \* "idle", "try", "nil", "error", or "exhausted": lastErr
    witness      \* per worker, the memberships that held during its call,
                 \* and whether the group was there

vars == <<endpoints, member, hub, row, call, at, pc, witness>>

(***************************************************************************)
(* The chains.  The paths: of a group's users, of one user of a group, of  *)
(* one group of a user, under the API's different roots.                   *)
(***************************************************************************)
Endpoint(method, root, shape) == [method |-> method, root |-> root, shape |-> shape]

HubGroups == "api/usergroups"
HubRest   == "hub/api/rest/usergroups"
Groups    == "api/groups"
Users     == "api/users"
HubUsers  == "hub/api/rest/users"

AddChain == <<
    Endpoint("POST", HubGroups, "users"),
    Endpoint("POST", HubRest,   "users"),
    Endpoint("PUT",  HubGroups, "users/id"),
    Endpoint("PUT",  HubRest,   "users/id"),
    Endpoint("POST", HubGroups, "users?fields"),
    Endpoint("POST", HubRest,   "users?fields"),
    Endpoint("POST", Groups,    "users?fields"),
    Endpoint("POST", HubGroups, "users/id"),
    Endpoint("POST", HubRest,   "users/id"),
    Endpoint("POST", Groups,    "users/id"),
    Endpoint("PUT",  HubGroups, "users/id"),
    Endpoint("PUT",  HubRest,   "users/id"),
    Endpoint("PUT",  Groups,    "users/id"),
    Endpoint("POST", Users,     "groups/id"),
    Endpoint("POST", HubUsers,  "groups/id"),
    Endpoint("PUT",  Users,     "groups/id"),
    Endpoint("PUT",  HubUsers,  "groups/id") >>

RemoveChain == <<
    Endpoint("DELETE", HubGroups, "users/id"),
    Endpoint("DELETE", Groups,    "users/id"),
    Endpoint("DELETE", Users,     "groups/id"),
    Endpoint("DELETE", HubRest,   "users/id"),
    Endpoint("DELETE", HubUsers,  "groups/id") >>

DeleteGroupChain == <<
    Endpoint("DELETE", HubRest,   "id"),
    Endpoint("DELETE", HubGroups, "id"),
    Endpoint("DELETE", Groups,    "id") >>

Chain(kind) ==
    CASE kind = "add"    -> AddChain
      [] kind = "remove" -> RemoveChain
      [] kind = "delete" -> DeleteGroupChain

Kinds == {"add", "remove", "delete"}

Variants(kind) == {Chain(kind)[i] : i \in DOMAIN Chain(kind)}

Endpoints == UNION {Variants(kind) : kind \in Kinds}

ASSUME CallsAssumption == Calls \subseteq Kinds
ASSUME ServersAssumption == Servers \subseteq SUBSET Endpoints

TypeOK ==
    /\ endpoints \subseteq Endpoints
    /\ member \in BOOLEAN /\ hub \in BOOLEAN /\ row \in BOOLEAN
    /\ member => hub
    /\ call \in [Workers -> Kinds \union {"none"}]
    /\ at \in [Workers -> Nat \ {0}]
    /\ \A w \in Workers : call[w] # "none" => at[w] <= Len(Chain(call[w]))
    /\ pc \in [Workers -> {"idle", "try", "nil", "error", "exhausted"}]
    /\ witness \in [Workers -> SUBSET {"member", "stranger", "group", "nogroup"}]

Init ==
    /\ endpoints \in Servers
    /\ member \in BOOLEAN
    /\ hub = TRUE
    /\ row = TRUE
    /\ call = [w \in Workers |-> "none"]
    /\ at = [w \in Workers |-> 1]
    /\ pc = [w \in Workers |-> "idle"]
    /\ witness = [w \in Workers |-> {}]

Holding(isMember, exists) ==
    {IF isMember THEN "member" ELSE "stranger", IF exists THEN "group" ELSE "nogroup"}

Begin(w) ==
    /\ pc[w] = "idle"
    /\ \E kind \in Calls : call' = [call EXCEPT ![w] = kind]
    /\ pc' = [pc EXCEPT ![w] = "try"]
    /\ witness' = [witness EXCEPT ![w] = Holding(member, hub)]
    /\ UNCHANGED <<endpoints, member, hub, row, at>>

(***************************************************************************)
(* One attempt.                                                            *)
(***************************************************************************)
Attempt(w) == Chain(call[w])[at[w]]

Trying(w) == pc[w] = "try"

Has(w) == Attempt(w) \in endpoints

\* The effect of the attempt at a server that has its endpoint.
Effect(w) ==
    /\ member' = (call[w] = "add")
    /\ hub' = (hub /\ call[w] # "delete")
    /\ row' = (row /\ (call[w] # "delete" \/ Attempt(w).root # Groups))

\* The server finds nothing to act on, and says 404.
Nothing(w) ==
    \/ call[w] = "add" /\ ~hub
    \/ call[w] = "remove" /\ ~member
    \/ call[w] = "delete" /\ ~hub

Observe ==
    witness' = [v \in Workers |->
        IF pc[v] = "try" THEN witness[v] \union Holding(member', hub') ELSE witness[v]]

\* 2xx: the call returns nil.  (Removing who is no member may be a 2xx too.)
Succeeds(w) ==
    /\ Trying(w)
    /\ Has(w)
    /\ call[w] \in {"add", "delete"} => ~Nothing(w)
    /\ Effect(w)
    /\ pc' = [pc EXCEPT ![w] = "nil"]
    /\ Observe
    /\ UNCHANGED <<endpoints, call, at>>

\* Mutation: the last attempt is missed by one.
SkipsTooFar(w) ==
    /\ Trying(w)
    /\ Has(w) => Nothing(w)
    /\ at' = [at EXCEPT ![w] = @ + 1]
    /\ pc' = [pc EXCEPT ![w] = IF at[w] <= Len(Chain(call[w])) THEN @ ELSE "exhausted"]
    /\ UNCHANGED <<endpoints, member, hub, row, call, witness>>

\* Mutation: every error moves on to the next variant.
SkipsOnAnyError(w) ==
    /\ Trying(w)
    /\ IF at[w] < Len(Chain(call[w]))
       THEN at' = [at EXCEPT ![w] = @ + 1] /\ UNCHANGED pc
       ELSE /\ pc' = [pc EXCEPT ![w] = IF call[w] = "remove" THEN "nil" ELSE "exhausted"]
            /\ UNCHANGED at
    /\ UNCHANGED <<endpoints, member, hub, row, call, witness>>

\* Mutation: lastErr is not set, so that running out of variants is nil.
SkipsWithoutLastErr(w) ==
    /\ Trying(w)
    /\ Has(w) => Nothing(w)
    /\ IF at[w] < Len(Chain(call[w]))
       THEN at' = [at EXCEPT ![w] = @ + 1] /\ UNCHANGED pc
       ELSE pc' = [pc EXCEPT ![w] = "nil"] /\ UNCHANGED at
    /\ UNCHANGED <<endpoints, member, hub, row, call, witness>>

\* isRetryableMembershipEndpointError: go on with the next variant, and
\* after the last one return lastErr, or nil for a removal.
Skips(w) ==
    /\ Trying(w)
    /\ Has(w) => Nothing(w)
    /\ IF at[w] < Len(Chain(call[w]))
       THEN at' = [at EXCEPT ![w] = @ + 1] /\ UNCHANGED pc
       ELSE /\ pc' = [pc EXCEPT ![w] = IF call[w] = "remove" THEN "nil" ELSE "exhausted"]
            /\ UNCHANGED at
    /\ UNCHANGED <<endpoints, member, hub, row, call, witness>>

\* Any other error, a transport error or a done context: the attempt may
\* have had its effect all the same.
Fails(w) ==
    /\ Trying(w)
    /\ \/ UNCHANGED <<member, hub, row>>
       \/ Has(w) /\ ~Nothing(w) /\ Effect(w)
    /\ pc' = [pc EXCEPT ![w] = "error"]
    /\ Observe
    /\ UNCHANGED <<endpoints, call, at>>

Step(w) == Begin(w) \/ Succeeds(w) \/ Skips(w) \/ Fails(w)

Next == \E w \in Workers : Step(w)

Spec == Init /\ [][Next]_vars

(***************************************************************************)
(* Properties.                                                             *)
(***************************************************************************)
Succeeded(w, kind) == pc[w] = "nil" /\ call[w] = kind

\* AddUserToGroup returns nil only if the user was a member at some moment
\* of the call, whichever variant the server has.
AddIsTrue == \A w \in Workers : Succeeded(w, "add") => "member" \in witness[w]

\* RemoveUserFromGroup returns nil only if at some moment of the call the
\* user was no member, on a server that has one of the variants.  (On a server
\* with none of them it returns nil all the same: "if all known endpoint
\* variants returned 404/405, the membership is effectively absent".)
RemoveIsTrue ==
    \A w \in Workers :
        Succeeded(w, "remove") =>
            \/ "stranger" \in witness[w]
            \/ Variants("remove") \intersect endpoints = {}

\* The chain misses no server: AddUserToGroup and DeleteGroup run out of
\* variants only if the server has none of them or the group was not there
\* at some moment of the call.
ChainReachesServer ==
    \A w \in Workers :
        pc[w] = "exhausted" =>
            \/ "nogroup" \in witness[w]
            \/ Variants(call[w]) \intersect endpoints = {}
=============================================================================
