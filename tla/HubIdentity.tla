------------------------------ MODULE HubIdentity ------------------------------
(***************************************************************************)
(* External identities in Hub: the details of users (hub_user_details.go)  *)
(* and the identity attributes of groups (hub_group_identity.go).          *)
(*                                                                         *)
(*   find    FindUserByAuthIdentifier, FindGroupByIDPGroupID: a scan, page *)
(*           by page, of the users of one module or of all groups          *)
(*   tag     AddUserDetail, or SetGroupIdentity with its read-back         *)
(*   label   UpdateUserDetailAttributes with its read-back                 *)
(*   remove  RemoveUserDetail                                              *)
(*                                                                         *)
(* Several workers make such calls while users and groups come and go.  An *)
(* identity is a record [id, owner, module, ident, label]: a user has any  *)
(* number of them, a group has one, without module and ident until it is   *)
(* tagged.  Names and identifiers that strings.EqualFold and TrimSpace     *)
(* make equal are one value here.                                          *)
(***************************************************************************)
EXTENDS Paging

CONSTANTS
    Workers,
    Holders,       \* the users, or the groups, that may ever exist
    Modules,       \* authentication modules
    Idents,        \* identifiers at the providers
    Scenarios,     \* the situations considered: records [side, listing,
                   \* imported, identities, made]
    PageSize,      \* hubUserDetailPageSize, hubGroupPageSize
    MaxCalls,      \* bound on the calls of all workers
    MaxDetails,    \* bound on the details ever made
    AnyModule,     \* no module: FindGroupByIDPGroupID then goes by the id alone
    None

Blank == "blank"
Labels == {Blank, "name"}
Sides == {"user", "group"}

Identities ==
    [id : 0..MaxDetails, owner : Holders, module : Modules \union {None},
     ident : Idents \union {None}, label : Labels]

\* A call; "who" is the user or the group, "id" the detail, it is about.
CallRecords ==
    [op : {"find", "tag", "label", "remove"}, who : Holders \union {None},
     id : 0..MaxDetails, module : Modules \union {AnyModule, None},
     ident : Idents \union {None}, label : Labels]

\* What Hub may hold.  Nobody is listed twice, every identity is of somebody
\* who is listed, and a user has one detail of each id.
Consistent(kind, listed, from, held, owners) ==
    /\ kind \in Sides
    /\ listed \in Seq(Holders) /\ IsInjective(listed)
    /\ from \in [Holders -> Modules \union {None}]
    /\ owners \in Seq(Holders) /\ Len(owners) <= MaxDetails
    /\ held \subseteq Identities
    /\ \A r \in held : r.owner \in Range(listed)
    /\ \A r \in held : kind = "user" => r.id \in DOMAIN owners
    /\ \A r, s \in held : r.id = s.id /\ r.owner = s.owner => r = s

ASSUME PageSizeAssumption == PageSize \in Nat \ {0}
ASSUME BoundsAssumption   == MaxCalls \in Nat /\ MaxDetails \in Nat
ASSUME ValuesAssumption   ==
    /\ AnyModule # None
    /\ {AnyModule, None} \intersect (Modules \union Idents \union Holders \union Workers) = {}
ASSUME ScenariosAssumption ==
    \A s \in Scenarios : Consistent(s.side, s.listing, s.imported, s.identities, s.made)

VARIABLES
    side,          \* whether this is about users or groups
    listing,       \* Hub's users or groups, in the order it lists them
    imported,      \* per group the module it was imported from: that one is
                   \* what AuthModuleName reports, whatever it is mapped in
    identities,    \* the set of identities Hub holds
    made,          \* the owners of the details 1, 2, ..., gone ones as well
    gone,          \* the users or groups deleted
    calls,         \* the number of calls made
    call, pc,      \* per worker its call; "idle", "busy", "read" (a written
                   \* value is to be read back), "ok", "absent" or "error"
    skip,          \* per worker, the entries of the listing it has scanned
    answer,        \* per worker, the identity its call returned, or None
    steady,        \* per worker, who matched what it is looking for all along
    behind,        \* per worker, some entry it had scanned left the listing
    disturbed,     \* per worker, what it wrote was written by others since
    absent,        \* per worker, the detail was gone at some moment of the call
    acked,         \* the tags that calls have reported set, and that nobody
                   \* has overwritten or removed since
    due            \* per worker, the tags acked all through its call

hubVars == <<side, listing, imported, identities, made, gone>>
historyVars == <<steady, behind, disturbed, absent, acked, due>>
vars == <<hubVars, calls, call, pc, skip, answer, historyVars>>

NoCall == [op |-> "find", who |-> None, id |-> 0, module |-> None,
           ident |-> None, label |-> Blank]

TypeOK ==
    /\ Consistent(side, listing, imported, identities, made)
    /\ gone \subseteq Holders \ Range(listing)
    /\ calls \in 0..MaxCalls
    /\ call \in [Workers -> CallRecords]
    /\ pc \in [Workers -> {"idle", "busy", "read", "ok", "absent", "error"}]
    /\ skip \in [Workers -> Nat]
    /\ answer \in [Workers -> Identities \union {None}]

Init ==
    /\ \E s \in Scenarios :
          /\ side = s.side
          /\ listing = s.listing
          /\ imported = s.imported
          /\ identities = s.identities
          /\ made = s.made
    /\ gone = {}
    /\ calls = 0
    /\ call = [w \in Workers |-> NoCall]
    /\ pc = [w \in Workers |-> "idle"]
    /\ skip = [w \in Workers |-> 0]
    /\ answer = [w \in Workers |-> None]
    /\ steady = [w \in Workers |-> {}]
    /\ behind = [w \in Workers |-> FALSE]
    /\ disturbed = [w \in Workers |-> FALSE]
    /\ absent = [w \in Workers |-> FALSE]
    /\ acked = {}
    /\ due = [w \in Workers |-> {}]

Pending(w) == pc[w] \in {"busy", "read"}

Exists(h) == h \in Range(listing)

(***************************************************************************)
(* What the history variables record, in every step that changes Hub.      *)
(***************************************************************************)
Tag(h, module, ident) == [owner |-> h, module |-> module, ident |-> ident]

Wanted(c, t) == t.ident = c.ident /\ c.module \in {AnyModule, t.module}

Asked(c) == Tag(c.who, c.module, c.ident)

\* The identities of a listing entry that a find call is looking for.
Carriers(c) == {r.owner : r \in {s \in identities : Wanted(c, s)}}

\* The entries of s that are in T, in their order.  (SelectSeq, as a function
\* that can be reasoned about.)
Kept(s, T) ==
    LET kept[n \in 0..Len(s)] ==
            IF n = 0 THEN <<>>
            ELSE IF s[n] \in T THEN Append(kept[n - 1], s[n]) ELSE kept[n - 1]
    IN  kept[Len(s)]

\* The users Hub knows at a module ("authModule: {%s}"); all groups.
Known(module) == {r.owner : r \in {s \in identities : s.module = module}}

Listed(c) == IF side = "group" THEN listing ELSE Kept(listing, Known(c.module))

\* What a write is about: one detail, or the identity of one group.
Subject(c) == {r \in identities : r.id = c.id /\ r.owner = c.who}

Unlabelled(records) == {[r EXCEPT !.label = Blank] : r \in records}

\* What a step does to the tags acked before it: another tag takes a
\* group's place, or a detail goes.
Undone(t) ==
    \E r \in Unlabelled(identities) \ Unlabelled(identities)' :
        r.owner = t.owner /\ r.ident = t.ident

\* w is the worker that takes the step, None if none does; tags are the ones
\* it acks.
Observe(w, tags) ==
    /\ steady' = [v \in Workers |->
          IF Pending(v) THEN steady[v] \intersect Carriers(call[v])' ELSE steady[v]]
    /\ behind' = [v \in Workers |->
          behind[v] \/ (/\ Pending(v)
                        /\ \E i \in 1..skip[v] :
                              /\ i \in DOMAIN Listed(call[v])
                              /\ Listed(call[v])[i] \notin Range(Listed(call[v])'))]
    /\ disturbed' = [v \in Workers |->
          IF Pending(v) /\ v # w
          THEN disturbed[v] \/ Subject(call[v])' # Subject(call[v]) ELSE disturbed[v]]
    /\ absent' = [v \in Workers |->
          absent[v] \/ (Pending(v) /\ Subject(call[v])' = {})]
    /\ acked' = {t \in acked : ~Undone(t)} \union tags
    /\ due' = [v \in Workers |-> IF Pending(v) THEN due[v] \intersect acked' ELSE due[v]]

(***************************************************************************)
(* A worker begins a call.                                                 *)
(***************************************************************************)
Finding(m, i) == [NoCall EXCEPT !.module = m, !.ident = i]

Finds ==
    {Finding(m, i) : m \in IF side = "group" THEN Modules \union {AnyModule} ELSE Modules,
                     i \in Idents}

TagOf(h, m, i) == [NoCall EXCEPT !.op = "tag", !.who = h, !.module = m, !.ident = i]

\* Of a user or group the caller knows of, which may be gone meanwhile.
Tagging == {TagOf(h, m, i) : h \in Range(listing) \union gone, m \in Modules, i \in Idents}

OnDetail(op, d, l) ==
    [NoCall EXCEPT !.op = op, !.who = made[d], !.id = d, !.label = l]

OnDetails ==
    {OnDetail("remove", d, Blank) : d \in DOMAIN made}
    \union {OnDetail("label", d, l) : d \in DOMAIN made, l \in Labels}

Begin(w) ==
    /\ ~Pending(w)
    /\ calls < MaxCalls
    /\ calls' = calls + 1
    /\ \E c \in Finds \union Tagging \union OnDetails :
          /\ call' = [call EXCEPT ![w] = c]
          /\ steady' = [steady EXCEPT ![w] = Carriers(c)]
          /\ due' = [due EXCEPT ![w] = {t \in acked : Wanted(c, t)}]
          /\ absent' = [absent EXCEPT ![w] = Subject(c) = {}]
    /\ pc' = [pc EXCEPT ![w] = "busy"]
    /\ skip' = [skip EXCEPT ![w] = 0]
    /\ answer' = [answer EXCEPT ![w] = None]
    /\ behind' = [behind EXCEPT ![w] = FALSE]
    /\ disturbed' = [disturbed EXCEPT ![w] = FALSE]
    /\ UNCHANGED <<hubVars, acked>>

Busy(w, op) == pc[w] = "busy" /\ call[w].op = op

Returns(w, result, value) ==
    /\ pc' = [pc EXCEPT ![w] = result]
    /\ answer' = [answer EXCEPT ![w] = value]

(***************************************************************************)
(* The two scans.                                                          *)
(***************************************************************************)
\* Mutation: the identifier alone decides, whatever module it belongs to.
MatchesByValue(c, h) == {r \in identities : r.owner = h /\ r.ident = c.ident}

\* hasAuthIdentifier, and the two conditions of FindGroupByIDPGroupID.
Matches(c, h) ==
    {r \in identities :
        r.owner = h /\ r.ident = c.ident /\ (c.module = AnyModule \/ r.module = c.module)}

Served(w) == Page(Listed(call[w]), PageSize, skip[w])

HitsOn(w) == {i \in DOMAIN Served(w) : Matches(call[w], Served(w)[i]) # {}}

FindsOne(w) ==
    /\ Busy(w, "find")
    /\ \E i \in HitsOn(w) :
          /\ \A j \in HitsOn(w) : i <= j
          /\ \E r \in Matches(call[w], Served(w)[i]) : Returns(w, "ok", r)
    /\ UNCHANGED <<hubVars, calls, call, skip, historyVars>>

\* Mutation: the next page is sought in front of the first one.
ScansBack(w) ==
    /\ Busy(w, "find")
    /\ HitsOn(w) = {}
    /\ Len(Served(w)) = PageSize
    /\ skip' = [skip EXCEPT ![w] = @ - PageSize]
    /\ UNCHANGED <<hubVars, calls, call, pc, answer, historyVars>>

ScansOn(w) ==
    /\ Busy(w, "find")
    /\ HitsOn(w) = {}
    /\ Len(Served(w)) = PageSize
    /\ skip' = [skip EXCEPT ![w] = @ + PageSize]
    /\ UNCHANGED <<hubVars, calls, call, pc, answer, historyVars>>

FindsNone(w) ==
    /\ Busy(w, "find")
    /\ HitsOn(w) = {}
    /\ Len(Served(w)) < PageSize
    /\ Returns(w, "absent", None)
    /\ UNCHANGED <<hubVars, calls, call, skip, historyVars>>

(***************************************************************************)
(* The writes, as Hub carries them out.                                    *)
(***************************************************************************)
Identity(c, module) ==
    [id |-> IF side = "user" THEN Len(made) + 1 ELSE 0, owner |-> c.who,
     module |-> module, ident |-> c.ident, label |-> c.label]

\* Mutation: the identity is sent without the module, as before
\* SetGroupIdentity took one.
NamedWithoutModule(c) == Identity(c, imported[c.who])

\* The identity a tag call asks for, as Hub will report it.
Named(c) ==
    Identity(c, IF side = "group" /\ imported[c.who] # None
                THEN imported[c.who] ELSE c.module)

\* Hub adds a detail to a user, and replaces the identity of a group.
TagEffect(c) ==
    /\ Exists(c.who)
    /\ side = "user" => Len(made) < MaxDetails
    /\ identities' = {r \in identities : side = "user" \/ r.owner # c.who}
                     \union {Named(c)}
    /\ made' = IF side = "user" THEN Append(made, c.who) ELSE made

\* An attribute left empty is not sent, and Hub keeps what it has.
LabelEffect(c) ==
    /\ Subject(c) # {}
    /\ identities' = {IF r \in Subject(c) /\ c.label # Blank
                      THEN [r EXCEPT !.label = c.label] ELSE r : r \in identities}
    /\ UNCHANGED made

RemoveEffect(c) ==
    /\ identities' = identities \ Subject(c)
    /\ UNCHANGED made

Effect(c) ==
    CASE c.op = "tag"    -> TagEffect(c)
      [] c.op = "label"  -> LabelEffect(c)
      [] c.op = "remove" -> RemoveEffect(c)

\* AddUserDetail returns the detail that Hub answers with.
AddsDetail(w) ==
    /\ Busy(w, "tag") /\ side = "user"
    /\ TagEffect(call[w])
    /\ Returns(w, "ok", Named(call[w]))
    /\ UNCHANGED <<side, listing, imported, gone, calls, call, skip>>
    /\ Observe(w, {Asked(call[w])})

\* SetGroupIdentity and UpdateUserDetailAttributes: a 2xx without a body.
Writes(w) ==
    /\ \/ Busy(w, "tag") /\ side = "group" /\ TagEffect(call[w])
       \/ Busy(w, "label") /\ LabelEffect(call[w])
    /\ pc' = [pc EXCEPT ![w] = "read"]
    /\ UNCHANGED <<side, listing, imported, gone, calls, call, skip, answer>>
    /\ Observe(w, {})

\* Hub accepts a write to a group it does not know.
WritesNowhere(w) ==
    /\ Busy(w, "tag") /\ side = "group"
    /\ ~Exists(call[w].who)
    /\ pc' = [pc EXCEPT ![w] = "read"]
    /\ UNCHANGED <<hubVars, calls, call, skip, answer, historyVars>>

\* RemoveUserDetail: a 2xx, or the 404 of a detail that is gone.
Removes(w) ==
    /\ Busy(w, "remove")
    /\ RemoveEffect(call[w])
    /\ Returns(w, "ok", None)
    /\ UNCHANGED <<side, listing, imported, gone, calls, call, skip>>
    /\ Observe(w, {})

\* Mutation: the answered group is taken for the one asked for.
ReadsBackAnyGroup(w) ==
    /\ pc[w] = "read"
    /\ \E r \in identities :
          /\ IF side = "group" /\ ~Exists(call[w].who) THEN TRUE ELSE r \in Subject(call[w])
          /\ Returns(w, "ok", r)
    /\ UNCHANGED <<hubVars, calls, call, skip, historyVars>>

\* The read-back finds what was written.  What it returns is a tag set.
ReadsBack(w) ==
    /\ pc[w] = "read"
    /\ \E r \in Subject(call[w]) :
          /\ Returns(w, "ok", r)
          /\ acked' = IF call[w].op = "tag" /\ ~disturbed[w]
                      THEN acked \union {Asked(call[w])} ELSE acked
    /\ UNCHANGED <<hubVars, calls, call, skip, steady, behind, disturbed, absent, due>>

\* GetHubGroup: Hub answers an unknown id with another group, whose id gives
\* it away; GetUserDetail: a 404.
ReadsBackNothing(w) ==
    /\ pc[w] = "read"
    /\ Subject(call[w]) = {}
    /\ Returns(w, "error", None)
    /\ UNCHANGED <<hubVars, calls, call, skip, historyVars>>

\* A request fails; one that writes may have had its effect all the same.
Fails(w) ==
    /\ Pending(w)
    /\ Returns(w, "error", None)
    /\ \/ UNCHANGED <<identities, made>>
       \/ pc[w] = "busy" /\ call[w].op # "find" /\ Effect(call[w])
    /\ UNCHANGED <<side, listing, imported, gone, calls, call, skip>>
    /\ Observe(w, {})

Step(w) ==
    \/ Begin(w) \/ FindsOne(w) \/ ScansOn(w) \/ FindsNone(w)
    \/ AddsDetail(w) \/ Writes(w) \/ WritesNowhere(w) \/ Removes(w)
    \/ ReadsBack(w) \/ ReadsBackNothing(w) \/ Fails(w)

(***************************************************************************)
(* Users and groups come and go.                                           *)
(***************************************************************************)
Create ==
    \E h \in Holders \ (Range(listing) \union gone), i \in 1..(Len(listing) + 1) :
        /\ listing' = WithAt(listing, i, h)
        /\ identities' = IF side = "user" THEN identities
                         ELSE identities \union
                              {[id |-> 0, owner |-> h, module |-> imported[h],
                                ident |-> None, label |-> Blank]}
        /\ UNCHANGED gone

Delete ==
    \E i \in DOMAIN listing :
        /\ listing' = Without(listing, i)
        /\ identities' = {r \in identities : r.owner # listing[i]}
        /\ gone' = gone \union {listing[i]}

Change ==
    /\ \E w \in Workers : Pending(w)
    /\ Create \/ Delete
    /\ UNCHANGED <<side, imported, made, calls, call, pc, skip, answer>>
    /\ Observe(None, {})

Next == Change \/ \E w \in Workers : Step(w)

Spec == Init /\ [][Next]_vars

(***************************************************************************)
(* Properties.                                                             *)
(***************************************************************************)
Found(w) == pc[w] = "ok" /\ call[w].op = "find"

\* What a find call finds carries the identifier at the module asked for, and
\* it finds nothing only if nobody carried it from its first page to its
\* last: its nil makes a provisioning caller create an account or a group.
\* As long as nothing leaves the part of the listing it has read.
FindIsTrue ==
    \A w \in Workers :
        /\ Found(w) => Wanted(call[w], answer[w])
        /\ pc[w] = "absent" /\ ~behind[w] => steady[w] = {}

\* A write reports what became of what it was asked to write.  A read-back
\* is of that very group or detail, and shows what was written unless
\* others wrote there between the two requests; a removal that succeeds had
\* a moment at which the detail was gone.
WriteIsTrue ==
    \A w \in Workers : pc[w] = "ok" =>
        /\ call[w].op = "tag" =>
              /\ answer[w].owner = call[w].who
              /\ disturbed[w] \/ answer[w].ident = call[w].ident
        /\ call[w].op = "label" =>
              /\ answer[w].id = call[w].id
              /\ disturbed[w] \/ call[w].label \in {Blank, answer[w].label}
        /\ call[w].op = "remove" => absent[w]

\* CHANGELOG.md (1.6.0), on a group tagged without its module: it "was
\* invisible to a module-filtered lookup, so a redelivered role event
\* re-tagged instead of settling and a renamed role created a second group".
\* A tag that a call reported set, and that nobody has undone, is found.  Not
\* so on a group imported from another module: AuthModuleName reports that.
RedeliverySettles ==
    \A w \in Workers : pc[w] = "absent" /\ ~behind[w] =>
        \A t \in due[w] :
            call[w].module # AnyModule /\ imported[t.owner] \notin {None, t.module}
=============================================================================
