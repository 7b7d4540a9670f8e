------------------------------- MODULE ListWalk -------------------------------
(***************************************************************************)
(* listAll (pagination.go): the loop behind the ListAll methods and        *)
(* ListAppUsages.  It checks the context, fetches a page, appends it, and  *)
(* stops at the first page that is not full, or with an error after        *)
(* MaxPages pages.                                                         *)
(*                                                                         *)
(* The pages are requests of their own, so the collection may change       *)
(* between two of them: entities appear at the end or, where the server    *)
(* sorts, in the middle, and entities disappear.  An entity that is        *)
(* deleted does not come back (its ID is new if it is created again).      *)
(***************************************************************************)
EXTENDS Paging, FiniteSets

CONSTANTS
    Items,          \* the entities that may ever exist
    Collections,    \* the collections a walk may start from
    PageSize,       \* defaultPageSize
    MaxPages        \* maxPagesSafetyLimit

ASSUME PageSizeAssumption    == PageSize \in Nat \ {0}
ASSUME MaxPagesAssumption    == MaxPages \in Nat \ {0}
ASSUME CollectionsAssumption ==   \* no entity is listed twice
    Collections \subseteq {s \in Seq(Items) : IsInjective(s)}

VARIABLES
    coll,        \* the server's collection
    skipIgnored, \* the server ignores $skip (pagination.go); never changes
    start,       \* the collection when the walk began
    gone,        \* the entities that have been deleted
    movedUp,     \* the times that an entity has moved up across the walk's
    movedDown,   \* position in the collection, and down across it
    page,        \* listAll's page
    all,         \* listAll's all
    pc,          \* "check", "fetch", or how listAll returned
    ctxDone      \* the context is done

serverVars == <<coll, skipIgnored, start, gone, movedUp, movedDown>>
vars == <<serverVars, page, all, pc, ctxDone>>

Ended == {"done", "limit", "failed"}

TypeOK ==
    /\ coll \in Seq(Items)
    /\ skipIgnored \in BOOLEAN
    /\ start \in Seq(Items)
    /\ gone \subseteq Items
    /\ movedUp \in Nat
    /\ movedDown \in Nat
    /\ page \in 0..MaxPages
    /\ all \in Seq(Items)
    /\ pc \in {"check", "fetch"} \union Ended
    /\ ctxDone \in BOOLEAN

Init ==
    /\ coll \in Collections
    /\ skipIgnored \in BOOLEAN
    /\ start = coll
    /\ gone = {}
    /\ movedUp = 0
    /\ movedDown = 0
    /\ page = 0
    /\ all = <<>>
    /\ pc = "check"
    /\ ctxDone = FALSE

(***************************************************************************)
(* The walk.                                                               *)
(***************************************************************************)
CheckContext ==
    /\ pc = "check"
    /\ pc' = IF ctxDone THEN "failed" ELSE "fetch"
    /\ UNCHANGED <<serverVars, page, all, ctxDone>>

\* Mutation: the page number is sent for $skip.
ServedAtPageNumber == Page(coll, PageSize, IF skipIgnored THEN 0 ELSE page)

\* The page the server answers with.
Served == Page(coll, PageSize, IF skipIgnored THEN 0 ELSE page * PageSize)

\* A short page is the last one.
FetchLast ==
    /\ pc = "fetch"
    /\ ~ctxDone
    /\ Len(Served) < PageSize
    /\ all' = all \o Served
    /\ pc' = "done"
    /\ UNCHANGED <<serverVars, page, ctxDone>>

\* Mutation: the last page allowed is not read.
FetchFullOneLess ==
    /\ pc = "fetch"
    /\ ~ctxDone
    /\ Len(Served) = PageSize
    /\ all' = all \o Served
    /\ page' = page + 1
    /\ pc' = IF page + 2 < MaxPages THEN "check" ELSE "limit"
    /\ UNCHANGED <<serverVars, ctxDone>>

\* Mutation: the limit is counted from one (page <= maxPagesSafetyLimit).
FetchFullOneMore ==
    /\ pc = "fetch"
    /\ ~ctxDone
    /\ Len(Served) = PageSize
    /\ all' = all \o Served
    /\ page' = page + 1
    /\ pc' = IF page + 1 <= MaxPages THEN "check" ELSE "limit"
    /\ UNCHANGED <<serverVars, ctxDone>>

\* Mutation: only the first page is read.
FetchFullStops ==
    /\ pc = "fetch"
    /\ ~ctxDone
    /\ Len(Served) = PageSize
    /\ all' = all \o Served
    /\ page' = page + 1
    /\ pc' = "done"
    /\ UNCHANGED <<serverVars, ctxDone>>

\* A full page may not be; after MaxPages of them the walk gives up.
FetchFull ==
    /\ pc = "fetch"
    /\ ~ctxDone
    /\ Len(Served) = PageSize
    /\ all' = all \o Served
    /\ page' = page + 1
    /\ pc' = IF page + 1 < MaxPages THEN "check" ELSE "limit"
    /\ UNCHANGED <<serverVars, ctxDone>>

\* Mutation: a page that fails is fetched again, without a bound.
FetchFailsRetries ==
    /\ pc = "fetch"
    /\ pc' = "check"
    /\ UNCHANGED <<serverVars, page, all, ctxDone>>

\* The request fails, or the context ends it.
FetchFails ==
    /\ pc = "fetch"
    /\ pc' = "failed"
    /\ UNCHANGED <<serverVars, page, all, ctxDone>>

Walk == CheckContext \/ FetchLast \/ FetchFull \/ FetchFails

(***************************************************************************)
(* The rest of the world.                                                  *)
(***************************************************************************)
Fresh == Items \ (Range(coll) \union gone)

\* An entity appears before the i-th, or at the end.
Create ==
    \E x \in Fresh, i \in 1..(Len(coll) + 1) :
        /\ coll' = WithAt(coll, i, x)
        /\ movedDown' = IF i <= Len(all) THEN movedDown + 1 ELSE movedDown
        /\ UNCHANGED <<gone, movedUp>>

Delete ==
    \E i \in 1..Len(coll) :
        /\ coll' = Without(coll, i)
        /\ gone' = gone \union {coll[i]}
        /\ movedUp' = IF i <= Len(all) THEN movedUp + 1 ELSE movedUp
        /\ UNCHANGED movedDown

Change ==
    /\ pc \notin Ended
    /\ Create \/ Delete
    /\ UNCHANGED <<skipIgnored, start, page, all, pc, ctxDone>>

Cancel ==
    /\ pc \notin Ended
    /\ ctxDone' = TRUE
    /\ UNCHANGED <<serverVars, page, all, pc>>

Next == Walk \/ Change \/ Cancel

SafetySpec == Init /\ [][Next]_vars

\* Every request of the walk is answered or fails.
Spec == SafetySpec /\ WF_vars(Walk)

(***************************************************************************)
(* Properties.                                                             *)
(***************************************************************************)

\* A walk that no entity moves across, on either side of which anything may
\* happen, returns the collection as it is when its last page is served: the
\* pages of several moments make up one moment's collection.
WalkIsASnapshot ==
    pc = "done" /\ ~skipIgnored /\ movedUp = 0 /\ movedDown = 0 => all = coll

\* Of the entities that were there from the beginning of the walk to its end
\* (ListAll*: "returns every entity"), the walk misses at most one for each
\* that is deleted behind its position, whatever happens elsewhere.  So it
\* misses none as long as nothing is deleted there: a reconciler that deletes
\* or creates by it acts on no partial view.
MissesAreDeletions ==
    pc = "done" /\ ~skipIgnored =>
        Cardinality(Range(start) \ (gone \union Range(all))) <= movedUp

\* The walk returns at most one entity again for each that is created behind
\* its position, and none twice as long as nothing is created there.
RepeatsAreCreations ==
    ~skipIgnored => Len(all) - Cardinality(Range(all)) <= movedDown

\* The limit strikes no walk that was about to finish: at a server that
\* honours $skip a walk it ends has been served MaxPages full pages, all of
\* them of entities that there were during the walk, none twice but for those
\* that moved down across its position.  So a listing with a free place on
\* its last page is never refused.  One that fills its pages is, when the
\* limit is reached with the next page empty: "this allows 100000 entities"
\* (pagination.go) is one too many, which is why the bound is not strict.
LimitIsEarned ==
    pc = "limit" /\ ~skipIgnored =>
        MaxPages * PageSize <= Cardinality(Range(coll) \union gone) + movedDown

\* A walk ends: not even a server that ignores $skip, or a collection that
\* grows as fast as it is read, keeps it going.
WalkEnds == <>(pc \in Ended)
=============================================================================
