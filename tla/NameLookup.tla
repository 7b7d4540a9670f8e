------------------------------ MODULE NameLookup ------------------------------
(***************************************************************************)
(* lookupByNamePaginated and findByName (bundle_helpers.go): the page walk *)
(* behind GetAppByName, GetYoutrackRoleByName, GetUserByLogin,             *)
(* GetUserGroupByName and the bundle lookups.  An exact match on any page  *)
(* ends it; the first name that is equal but for its case is returned when *)
(* no page has an exact one.  Unlike listAll it checks no context itself   *)
(* and has no page limit.                                                  *)
(***************************************************************************)
EXTENDS Paging

CONSTANTS
    Items,          \* the entities that may ever exist
    Collections,    \* the collections a lookup may start from
    Names,          \* the ways the entities may be named: Items -> NameKinds
    PageSize,
    None            \* no entity

NameKinds == {"exact", "fold", "other"}

\* GetCustomFieldByName and GetAllUsersGroup run a loop of their own, which is
\* this one with nothing to find in another case: a field has the name or not,
\* and a group is the built-in one or not.
CustomFieldNames   == {n \in [Items -> NameKinds] : \A x \in Items : n[x] # "fold"}
AllUsersGroupFlags == {n \in CustomFieldNames : \A x, y \in Items : n[x] = "exact" /\ n[y] = "exact" => x = y}

ASSUME PageSizeAssumption    == PageSize \in Nat \ {0}
ASSUME CollectionsAssumption ==   \* no entity is listed twice
    Collections \subseteq {s \in Seq(Items) : IsInjective(s)}
ASSUME NamesAssumption       == /\ Names \subseteq [Items -> NameKinds]
                                /\ CustomFieldNames \union AllUsersGroupFlags \subseteq Names
ASSUME NoneAssumption        == None \notin Items

VARIABLES
    coll, skipIgnored, start, gone,           \* as in ListWalk
    moved,       \* which way entities have moved across the lookup's position
                 \* in the collection: "up", "down"
    name,      \* how each entity's name compares with the target
    skip,      \* lookupByNamePaginated's skip; a server that ignores it answers
               \* every value of it alike, so it is not counted up there
    fuzzy,     \* fuzzyMatch
    pc,        \* "fetch", "done" or "failed"
    result     \* what is returned, None for nil

serverVars == <<coll, skipIgnored, start, gone, moved, name>>
vars == <<serverVars, skip, fuzzy, pc, result>>

TypeOK ==
    /\ coll \in Seq(Items)
    /\ skipIgnored \in BOOLEAN
    /\ start \in Seq(Items)
    /\ gone \subseteq Items
    /\ moved \subseteq {"up", "down"}
    /\ name \in [Items -> NameKinds]
    /\ skip \in Nat
    /\ fuzzy \in {x \in Items : name[x] = "fold"} \union {None}
    /\ pc \in {"fetch", "done", "failed"}
    /\ result \in {x \in Items : name[x] # "other"} \union {None}

Init ==
    /\ coll \in Collections
    /\ skipIgnored \in BOOLEAN
    /\ start = coll
    /\ gone = {}
    /\ moved = {}
    /\ name \in Names
    /\ skip = 0
    /\ fuzzy = None
    /\ pc = "fetch"
    /\ result = None

(***************************************************************************)
(* The lookup.                                                             *)
(***************************************************************************)
\* The first entity of a sequence whose name is of a kind, None without one.
FirstNamed(s, kind) ==
    LET at == {i \in DOMAIN s : name[s[i]] = kind}
    IN  IF at = {} THEN None ELSE s[CHOOSE i \in at : \A j \in at : i <= j]

Served == Page(coll, PageSize, IF skipIgnored THEN 0 ELSE skip)

\* Mutation: any entity will do in place of an exact match.
FuzzyAfterAny(items) ==
    IF fuzzy = None THEN FirstNamed(items, "other") ELSE fuzzy

FuzzyAfter(items) == IF fuzzy = None THEN FirstNamed(items, "fold") ELSE fuzzy

FindsExact ==
    /\ pc = "fetch"
    /\ FirstNamed(Served, "exact") # None
    /\ result' = FirstNamed(Served, "exact")
    /\ pc' = "done"
    /\ UNCHANGED <<serverVars, skip, fuzzy>>

\* Mutation: a name in another case ends the lookup on the page it is on.
ReadsOnUnlessFold ==
    /\ pc = "fetch"
    /\ FirstNamed(Served, "exact") = None
    /\ Len(Served) = PageSize
    /\ fuzzy' = FuzzyAfter(Served)
    /\ skip' = IF skipIgnored THEN skip ELSE skip + PageSize
    /\ IF fuzzy' = None THEN UNCHANGED <<pc, result>>
       ELSE pc' = "done" /\ result' = fuzzy'
    /\ UNCHANGED serverVars

\* Mutation: the next page is asked for with the same $skip.
ReadsOnInPlace ==
    /\ pc = "fetch"
    /\ FirstNamed(Served, "exact") = None
    /\ Len(Served) = PageSize
    /\ fuzzy' = FuzzyAfter(Served)
    /\ UNCHANGED <<serverVars, skip, pc, result>>

ReadsOn ==
    /\ pc = "fetch"
    /\ FirstNamed(Served, "exact") = None
    /\ Len(Served) = PageSize
    /\ fuzzy' = FuzzyAfter(Served)
    /\ skip' = IF skipIgnored THEN skip ELSE skip + PageSize
    /\ UNCHANGED <<serverVars, pc, result>>

EndsWithoutExact ==
    /\ pc = "fetch"
    /\ FirstNamed(Served, "exact") = None
    /\ Len(Served) < PageSize
    /\ fuzzy' = FuzzyAfter(Served)
    /\ result' = fuzzy'
    /\ pc' = "done"
    /\ UNCHANGED <<serverVars, skip>>

FetchFails ==
    /\ pc = "fetch"
    /\ pc' = "failed"
    /\ UNCHANGED <<serverVars, skip, fuzzy, result>>

Answered == FindsExact \/ ReadsOn \/ EndsWithoutExact

Lookup == Answered \/ FetchFails

(***************************************************************************)
(* The rest of the world.                                                  *)
(***************************************************************************)
Fresh == Items \ (Range(coll) \union gone)

\* As in ListWalk; the lookup has read the first skip entities.
Create ==
    \E x \in Fresh, i \in 1..(Len(coll) + 1) :
        /\ coll' = WithAt(coll, i, x)
        /\ moved' = IF i <= skip THEN moved \union {"down"} ELSE moved
        /\ UNCHANGED gone

Delete ==
    \E i \in DOMAIN coll :
        /\ coll' = Without(coll, i)
        /\ gone' = gone \union {coll[i]}
        /\ moved' = IF i <= skip THEN moved \union {"up"} ELSE moved

Change ==
    /\ pc = "fetch"
    /\ Create \/ Delete
    /\ UNCHANGED <<skipIgnored, start, name, skip, fuzzy, pc, result>>

Next == Lookup \/ Change

SafetySpec == Init /\ [][Next]_vars

\* Requests are answered as long as they do not fail; nothing has to fail.
Spec == SafetySpec /\ WF_vars(Answered)

(***************************************************************************)
(* Properties.                                                             *)
(***************************************************************************)

\* What a lookup is to return from a collection it can read in one piece.
BestMatch(s) ==
    IF FirstNamed(s, "exact") # None THEN FirstNamed(s, "exact")
    ELSE FirstNamed(s, "fold")

\* A lookup that no entity moves across returns the best match of the whole
\* collection at the moment it ends, whatever the page size, wherever the
\* pages break and whatever happens in front of it or behind.
LookupIsASnapshot ==
    pc = "done" /\ ~skipIgnored /\ moved = {} => result = BestMatch(coll)

\* The entities a lookup had every chance to see.
Present == Range(start) \ gone

\* A lookup that reports absence, or settles for a name in another case, has
\* overlooked no better entity that was there all the time: its ErrNotFound
\* makes a reconciler create the entity.  As long as nothing is deleted among
\* the pages it has read.
AbsenceIsReal ==
    pc = "done" /\ ~skipIgnored /\ "up" \notin moved =>
        /\ result = None => \A x \in Present : name[x] = "other"
        /\ result # None /\ name[result] = "fold" =>
              \A x \in Present : name[x] # "exact"

\* A lookup ends at a server that honours $skip.  (The page limit of listAll
\* is there for servers that do not; this loop has none.)
LookupEnds == skipIgnored \/ <>(pc # "fetch")
=============================================================================
