------------------------------ MODULE AppUsages ------------------------------
(***************************************************************************)
(* The attachment of one app to projects (apps.go): EnableAppForProject,   *)
(* DisableAppForProject, DetachAppFromProject and EnableAppForAllProjects, *)
(* each a sequence of requests: a page walk over the app's usages          *)
(* (ListAppUsages), a decision, and then an attach, an update or a delete  *)
(* by usage ID, with one more page walk when the attach answers with an    *)
(* empty body (decodeAppUsageOrRefetch).                                   *)
(*                                                                         *)
(* Several workers make such calls at once, as reconcile workers sharing a *)
(* Client do.  Each request is one step at the server; whatever the other  *)
(* workers do may happen between two of them.  Any request may fail, with  *)
(* or without its effect.                                                  *)
(***************************************************************************)
EXTENDS Paging, FiniteSets

CONSTANTS
    Workers,
    Projects,
    Calls,          \* what the workers may be about to call: functions from
                    \* Workers to [kind, projects] records
    InitialUsages,  \* the usages there may be at first: <<[id, project, enabled]>>
    MaxUsages,      \* usage IDs are 1..MaxUsages, never used twice
    PageSize,       \* defaultPageSize
    None            \* nil

Kinds  == {"enable", "disable", "detach"}
Usages == [id : 1..MaxUsages, project : Projects, enabled : BOOLEAN]

\* The calls there are: EnableAppForAllProjects is an "enable" of the projects
\* it has listed, in which a project may occur twice; with none it returns at
\* once, without a request for a usage.
CallsOfTheClient ==
    {c \in [kind : Kinds, projects : Seq(Projects)] :
        /\ c.projects # <<>>
        /\ c.kind # "enable" => Len(c.projects) = 1}

\* No two usages have the same ID, and a project has one at most.
OneUsageEach(s) ==
    \A i, j \in DOMAIN s : s[i].id = s[j].id \/ s[i].project = s[j].project => i = j

ASSUME CallsAssumption ==
    Calls \subseteq [Workers -> CallsOfTheClient]
ASSUME UsagesAssumption ==
    InitialUsages \subseteq
        {s \in Seq(Usages) :
            /\ OneUsageEach(s)
            /\ Len(s) <= MaxUsages
            /\ \A i \in DOMAIN s : s[i].id <= Len(s)}
ASSUME PageAssumption == PageSize \in Nat \ {0} /\ MaxUsages \in Nat
ASSUME NilAssumption == None \notin Usages

VARIABLES
    usages,    \* the server's list of the app's usages
    nextId,    \* the ID of the next usage the server creates
    call,      \* each worker's call
    pc,        \* "idle", "list", "attach", "refetch", "set", "delete", "ok", "err"
    page,      \* the page a walk is at
    found,     \* the first usage of the project among the pages read, or None
    results,   \* the usages the call has to return so far (nil ones included)
    witness,   \* per worker, the [project, state] pairs that held at some
               \* moment of its call: state "enabled", "disabled", "detached"
    shifted    \* the workers during whose page walk a usage was deleted from
               \* the pages already read

vars == <<usages, nextId, call, pc, page, found, results, witness, shifted>>

Walking == {"list", "refetch"}
Ended   == {"ok", "err"}

TypeOK ==
    /\ usages \in Seq(Usages)
    /\ nextId \in 1..(MaxUsages + 1)
    /\ call \in Calls
    /\ pc \in [Workers -> {"idle", "attach", "set", "delete"} \union Walking \union Ended]
    /\ page \in [Workers -> 0..MaxUsages]
    /\ found \in [Workers -> Usages \union {None}]
    /\ results \in [Workers -> Seq(Usages \union {None})]
    /\ witness \in [Workers -> SUBSET (Projects \X {"enabled", "disabled", "detached"})]
    /\ shifted \subseteq Workers

Init ==
    /\ usages \in InitialUsages
    /\ nextId = Len(usages) + 1
    /\ call \in Calls
    /\ pc = [w \in Workers |-> "idle"]
    /\ page = [w \in Workers |-> 0]
    /\ found = [w \in Workers |-> None]
    /\ results = [w \in Workers |-> <<>>]
    /\ witness = [w \in Workers |-> {}]
    /\ shifted = {}

(***************************************************************************)
(* Looking at the server's list.                                           *)
(***************************************************************************)
At(s, p) == {i \in DOMAIN s : s[i].project = p}

\* findAppUsageForProject
FirstOf(s, p) ==
    IF At(s, p) = {} THEN None
    ELSE s[CHOOSE i \in At(s, p) : \A j \in At(s, p) : i <= j]

State(s, p) ==
    CASE At(s, p) = {}                        -> "detached"
      [] At(s, p) # {} /\ FirstOf(s, p).enabled  -> "enabled"
      [] At(s, p) # {} /\ ~FirstOf(s, p).enabled -> "disabled"

Holding(s) == {<<p, State(s, p)>> : p \in Projects}

\* The project a worker's call is at: EnableAppForAllProjects goes through
\* several, one for each usage it has to return.
Project(w) == call[w].projects[Len(results[w]) + 1]

Witnessed(s, active) ==
    [w \in Workers |-> IF w \in active THEN witness[w] \union Holding(s) ELSE witness[w]]

Running == {w \in Workers : pc[w] \notin {"idle"} \union Ended}

(***************************************************************************)
(* The client's steps.  Return ends the work on one project with a usage,  *)
(* or the call when it was the last.                                       *)
(***************************************************************************)
Begin(w) ==
    /\ pc[w] = "idle"
    /\ pc' = [pc EXCEPT ![w] = "list"]
    /\ witness' = [witness EXCEPT ![w] = Holding(usages)]
    /\ UNCHANGED <<usages, nextId, call, page, found, results, shifted>>

Return(w, usage) ==
    /\ results' = [results EXCEPT ![w] = Append(@, usage)]
    /\ pc' = [pc EXCEPT ![w] =
                IF Len(results[w]) + 1 < Len(call[w].projects) THEN "list" ELSE "ok"]
    /\ found' = [found EXCEPT ![w] = None]
    /\ page' = [page EXCEPT ![w] = 0]

Continue(w, to, usage) ==
    /\ pc' = [pc EXCEPT ![w] = to]
    /\ found' = [found EXCEPT ![w] = usage]
    /\ page' = [page EXCEPT ![w] = 0]
    /\ UNCHANGED results

\* Mutation: "return nil, err", the usages enabled so far are not returned.
FailCallForgets(w) ==
    /\ pc' = [pc EXCEPT ![w] = "err"]
    /\ found' = [found EXCEPT ![w] = None]
    /\ page' = [page EXCEPT ![w] = 0]
    /\ results' = [results EXCEPT ![w] = <<>>]

FailCall(w) ==
    /\ pc' = [pc EXCEPT ![w] = "err"]
    /\ found' = [found EXCEPT ![w] = None]
    /\ page' = [page EXCEPT ![w] = 0]
    /\ UNCHANGED results

Served(w) == Page(usages, PageSize, page[w] * PageSize)

FoundAfter(w) ==
    IF found[w] = None THEN FirstOf(Served(w), Project(w)) ELSE found[w]

\* A full page of the walk.
ListMore(w) ==
    /\ pc[w] \in Walking
    /\ Len(Served(w)) = PageSize
    /\ found' = [found EXCEPT ![w] = FoundAfter(w)]
    /\ page' = [page EXCEPT ![w] = @ + 1]
    /\ UNCHANGED <<usages, nextId, call, pc, results, witness, shifted>>

\* The last page of the walk, and what the call decides on its result.
\* EnableAppForProject:
DecideEnable(w, usage) ==
    /\ call[w].kind = "enable"
    /\ pc[w] = "list"
    /\ \/ usage = None /\ Continue(w, "attach", None)
       \/ usage # None /\ usage.enabled /\ Return(w, usage)
       \/ usage # None /\ ~usage.enabled /\ Continue(w, "set", usage)

\* DisableAppForProject:
DecideDisable(w, usage) ==
    /\ call[w].kind = "disable"
    /\ \/ usage = None /\ Return(w, None)
       \/ usage # None /\ ~usage.enabled /\ Return(w, usage)
       \/ usage # None /\ usage.enabled /\ Continue(w, "set", usage)

\* DetachAppFromProject:
DecideDetach(w, usage) ==
    /\ call[w].kind = "detach"
    /\ \/ usage = None /\ Return(w, None)
       \/ usage # None /\ Continue(w, "delete", usage)

\* Mutation: the usage an attach answers with is taken to be enabled.
AttachedAsIs(w, usage) == Return(w, usage)

\* AttachAppToProject has answered, itself or after decodeAppUsageOrRefetch
\* has looked the usage up: EnableAppForProject goes on with it.
Attached(w, usage) ==
    \/ usage.enabled /\ Return(w, usage)
    \/ ~usage.enabled /\ Continue(w, "set", usage)

\* decodeAppUsageOrRefetch: a usage that is not there is an error.
DecideRefetch(w, usage) ==
    /\ pc[w] = "refetch"
    /\ \/ usage = None /\ FailCall(w)
       \/ usage # None /\ Attached(w, usage)

ListLast(w) ==
    /\ pc[w] \in Walking
    /\ Len(Served(w)) < PageSize
    /\ \/ DecideEnable(w, FoundAfter(w)) \/ DecideDisable(w, FoundAfter(w))
       \/ DecideDetach(w, FoundAfter(w)) \/ DecideRefetch(w, FoundAfter(w))
    /\ UNCHANGED <<usages, nextId, call, witness, shifted>>

(***************************************************************************)
(* The requests with an effect.  The server's side of each:                *)
(***************************************************************************)
\* A project that is attached keeps its usage; another gets a new one, in
\* the state the app has by default.
ServerAttaches(p) ==
    \/ At(usages, p) # {} /\ UNCHANGED <<usages, nextId>>
    \/ /\ At(usages, p) = {}
       /\ nextId <= MaxUsages
       /\ \E on \in BOOLEAN :
             usages' = Append(usages, [id |-> nextId, project |-> p, enabled |-> on])
       /\ nextId' = nextId + 1

WithId(s, id) == {i \in DOMAIN s : s[i].id = id}

\* Mutation: a PUT on the collection, which replaces the whole list.
ServerReplaces(id, on) ==
    /\ usages' =
          IF WithId(usages, id) = {} THEN usages
          ELSE LET i == CHOOSE i \in WithId(usages, id) : TRUE
               IN  <<[usages[i] EXCEPT !.enabled = on]>>
    /\ UNCHANGED nextId

ServerSets(id, on) ==
    /\ usages' = [i \in DOMAIN usages |->
                    IF i \in WithId(usages, id)
                    THEN [usages[i] EXCEPT !.enabled = on] ELSE usages[i]]
    /\ UNCHANGED nextId

\* A deletion moves all later usages up by one: a walk that has read beyond
\* the deleted one misses the usage that moves onto a page already read.
ServerDeletes(id) ==
    /\ \/ WithId(usages, id) = {} /\ UNCHANGED <<usages, shifted>>
       \/ \E i \in WithId(usages, id) :
             /\ usages' = Without(usages, i)
             /\ shifted' = shifted \union
                   {v \in Workers : pc[v] \in Walking /\ i <= page[v] * PageSize}
    /\ UNCHANGED nextId

Witness == witness' = Witnessed(usages', Running)

\* AttachAppToProject.  Attaching what is attached "is left to the API": it
\* answers with the usage or refuses.  An empty body sends the client back
\* to the list.
AttachApp(w) ==
    /\ pc[w] = "attach"
    /\ ServerAttaches(Project(w))
    /\ \/ Attached(w, FirstOf(usages', Project(w)))
       \/ Continue(w, "refetch", None)
       \/ FailCall(w)
    /\ Witness
    /\ UNCHANGED <<call, shifted>>

Enabling(w) == call[w].kind = "enable"

\* Mutation: the usage is decoded from an answer that does not carry its ID.
SetEnabledWithoutId(w) ==
    /\ pc[w] = "set"
    /\ ServerSets(found[w].id, Enabling(w))
    /\ \/ /\ WithId(usages, found[w].id) # {}
          /\ Return(w, [project |-> Project(w), enabled |-> Enabling(w)])
       \/ FailCall(w)
    /\ Witness
    /\ UNCHANGED <<call, shifted>>

\* SetAppUsageEnabled: a usage that is gone is an error; so is an answer
\* that is lost or cannot be decoded.
SetEnabled(w) ==
    /\ pc[w] = "set"
    /\ ServerSets(found[w].id, Enabling(w))
    /\ \/ /\ WithId(usages, found[w].id) # {}
          /\ Return(w, [found[w] EXCEPT !.enabled = Enabling(w)])
       \/ FailCall(w)
    /\ Witness
    /\ UNCHANGED <<call, shifted>>

\* DeleteAppUsage: 404 is success.
DeleteUsage(w) ==
    /\ pc[w] = "delete"
    /\ ServerDeletes(found[w].id)
    /\ Return(w, None) \/ FailCall(w)
    /\ Witness
    /\ UNCHANGED call

\* A request that never had an effect fails, or the context is done.
RequestFails(w) ==
    /\ w \in Running
    /\ FailCall(w)
    /\ UNCHANGED <<usages, nextId, call, witness, shifted>>

Step(w) ==
    \/ Begin(w) \/ ListMore(w) \/ ListLast(w)
    \/ AttachApp(w) \/ SetEnabled(w) \/ DeleteUsage(w) \/ RequestFails(w)

Next == \E w \in Workers : Step(w)

Spec == Init /\ [][Next]_vars

(***************************************************************************)
(* Properties.                                                             *)
(***************************************************************************)
Succeeded(w, kind) == pc[w] = "ok" /\ call[w].kind = kind

\* A project the caller is told to be enabled was enabled at some moment of
\* the call, and the usage it is given is that project's, whatever other
\* workers did between the requests, and whatever their deletions hid from
\* the call's page walks.
EnableIsTrue(w) ==
    call[w].kind = "enable" =>
        \A i \in DOMAIN results[w] :
            /\ results[w][i].enabled
            /\ results[w][i].project = call[w].projects[i]
            /\ <<call[w].projects[i], "enabled">> \in witness[w]

WasDisabled(w) ==
    Succeeded(w, "disable") =>
        \E state \in {"disabled", "detached"} : <<call[w].projects[1], state>> \in witness[w]

WasDetached(w) ==
    Succeeded(w, "detach") => <<call[w].projects[1], "detached">> \in witness[w]

\* What an app call answers was true at some moment of the call: the projects
\* it reports were enabled; a DisableAppForProject that returns no error saw
\* the app disabled or not attached, a DetachAppFromProject not attached,
\* unless a deletion made the call's walk lose its place.
AnswersAreTrue ==
    \A w \in Workers :
        EnableIsTrue(w) /\ (w \notin shifted => WasDisabled(w) /\ WasDetached(w))

\* "DetachAppFromProject removes an app from a project entirely" (apps.go),
\* beside any other call.
DetachesEntirely == \A w \in Workers : WasDetached(w)

\* No call touches the usage of a project it was not asked about, although
\* updates and deletes go by a usage ID read some requests earlier.
OthersUntouched ==
    [][\A w \in Workers : AttachApp(w) \/ SetEnabled(w) \/ DeleteUsage(w) =>
          \A p \in Projects \ {Project(w)} : State(usages', p) = State(usages, p)]_vars

\* The projects whose usages are returned, and the one the call is at, or
\* failed at.
Reached(w) ==
    {call[w].projects[i] : i \in {j \in DOMAIN call[w].projects : j <= Len(results[w]) + 1}}

\* EnableAppForAllProjects tells the caller how far it got: a project that
\* it enabled and did not report is the one it failed at, never a later one.
\* With nobody else at work, every project it has not reached, detached or
\* attached but disabled, is still as the call first saw it.
AtMostOneUnreported ==
    \A w \in Workers :
        /\ call[w].kind = "enable"
        /\ \A v \in Workers \ {w} : pc[v] = "idle"
        => \A p \in Projects \ Reached(w) : \A state \in {"enabled", "disabled", "detached"} :
              <<p, state>> \in witness[w] => State(usages, p) = state
=============================================================================
