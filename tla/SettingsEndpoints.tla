--------------------------- MODULE SettingsEndpoints ---------------------------
(***************************************************************************)
(* The ten Update methods that write asynchronously, as data: which of an  *)
(* entity's fields each method puts on the wire, and which it compares on  *)
(* the read-back (async_state.go and the projections beside each method).  *)
(*                                                                         *)
(* An endpoint maps every field it can send to a class:                    *)
(*   sent      "always"; "nonempty": left out of the request when it holds *)
(*             Go's zero value (omitempty, or an explicit if); or          *)
(*             "echoed": on the wire with the rest of the entity, though   *)
(*             it is the server's own and no write sets it                 *)
(*   compared  "equal", "deep" (reflect.DeepEqual on a slice), "count",    *)
(*             "skip" (observedOrSkip), "no", or "unreadable" (a secret:   *)
(*             the server never reports it, so it cannot be compared)      *)
(* Values are abstract; Unset is Go's zero value (the empty string, the    *)
(* nil slice), EmptyList the empty slice that is not nil.                  *)
(***************************************************************************)
EXTENDS FiniteSets

Unset     == "unset"
EmptyList == "[]"
Values    == {Unset, "a", "b"}

Field(sent, compared) == [sent |-> sent, compared |-> compared]

GlobalSettings == [license |-> Field("always", "equal")]

\* The whole descriptor is sent, and of it only the code is compared:
\* descriptor stands for its id, language, name and community.
LocaleSettings ==
    [locale     |-> Field("always", "equal"),
     descriptor |-> Field("always", "no")]

RestSettings ==
    [allowAllOrigins |-> Field("always", "equal"),
     allowedOrigins  |-> Field("always", "deep"),
     id              |-> Field("echoed", "no")]

\* id stands for what the server reports: the id and availableDiskSpace.
BackupSettings ==
    [isOn           |-> Field("always", "equal"),
     cronExpression |-> Field("always", "equal"),
     location       |-> Field("always", "equal"),
     filesToKeep    |-> Field("always", "equal"),
     archiveFormat  |-> Field("always", "no"),
     notifiedUsers  |-> Field("always", "no"),
     id             |-> Field("echoed", "no")]

AppearanceSettings ==
    [dateFieldFormat |-> Field("nonempty", "skip"),
     timeZone        |-> Field("nonempty", "skip")]

WorkTimeSettings ==
    [minutesADay |-> Field("always", "equal"),
     workDays    |-> Field("always", "deep")]

\* trusted stands for the flags and URIs of a service that are always sent
\* and never compared.
Service ==
    [name        |-> Field("nonempty", "equal"),
     homeUrl     |-> Field("always", "equal"),
     description |-> Field("always", "equal"),
     trusted     |-> Field("always", "no"),
     secret      |-> Field("nonempty", "unreadable")]

Role ==
    [name        |-> Field("nonempty", "equal"),
     description |-> Field("nonempty", "equal"),
     permissions |-> Field("nonempty", "count")]

\* scope stands for the remaining fields of an OAuth 2.0 module.
OAuth2AuthModule ==
    [name         |-> Field("nonempty", "equal"),
     disabled     |-> Field("always", "equal"),
     clientId     |-> Field("nonempty", "equal"),
     serverUrl    |-> Field("nonempty", "equal"),
     clientSecret |-> Field("nonempty", "unreadable"),
     scope        |-> Field("always", "no")]

AzureAuthModule ==
    [name         |-> Field("nonempty", "equal"),
     disabled     |-> Field("always", "equal"),
     clientId     |-> Field("nonempty", "equal"),
     serverUrl    |-> Field("nonempty", "equal"),
     clientSecret |-> Field("nonempty", "unreadable"),
     tenant       |-> Field("always", "no")]

AllEndpoints ==
    {GlobalSettings, LocaleSettings, RestSettings, BackupSettings,
     AppearanceSettings, WorkTimeSettings, Service, Role,
     OAuth2AuthModule, AzureAuthModule}

(***************************************************************************)
(* What the classes mean.                                                  *)
(***************************************************************************)
IsEmpty(v) == v \in {Unset, EmptyList}

\* What a caller can ask an endpoint to write: a slice may also be empty
\* without being nil.
Requests(ep) ==
    {want \in [DOMAIN ep -> Values \union {EmptyList}] :
        \A f \in DOMAIN ep : want[f] = EmptyList => ep[f].compared = "deep"}

\* The fields a request sets: what json.Marshal puts on the wire, without
\* what is the server's own.
Written(ep, want) ==
    {f \in DOMAIN ep :
        \/ ep[f].sent = "always"
        \/ ep[f].sent = "nonempty" /\ ~IsEmpty(want[f])}

\* The server stores a null list and an empty one alike, and reports [].
Stored(ep, f, v) == IF ep[f].compared = "deep" /\ v = Unset THEN EmptyList ELSE v

\* The entity after the server has applied a write to it.
Applied(ep, entity, want) ==
    [f \in DOMAIN ep |->
        IF f \in Written(ep, want) THEN Stored(ep, f, want[f]) ELSE entity[f]]

\* Mutation: the secret is missing from the entity a GET is decoded into.
ReportedWithoutSecrets(ep, entity) ==
    [f \in {g \in DOMAIN ep : ep[g].compared # "unreadable"} |-> entity[f]]

\* The entity a GET returns.
Reported(ep, entity) ==
    [f \in DOMAIN ep |->
        IF ep[f].compared = "unreadable" THEN Unset ELSE entity[f]]

\* What the server holds before anybody writes.
StoredEntities(ep) ==
    {[f \in DOMAIN ep |-> Stored(ep, f, v)] : v \in {Unset, "a"}}

\* Mutation: observedOrSkip for every field, so that a field the write
\* clears is not waited for.
AgreesOrSkips(ep, f, got, want) ==
    ep[f].compared \in {"no", "unreadable"} \/ IsEmpty(want[f]) \/ got[f] = want[f]

\* Mutation: no observedOrSkip, so that a field not sent is waited for.
AgreesWithoutSkip(ep, f, got, want) ==
    ep[f].compared \in {"no", "unreadable"} \/ got[f] = want[f]

Agrees(ep, f, got, want) ==
    CASE ep[f].compared \in {"equal", "deep"} -> got[f] = want[f]
      [] ep[f].compared = "count" -> IsEmpty(got[f]) = IsEmpty(want[f])
      [] ep[f].compared = "skip"  -> want[f] = Unset \/ got[f] = want[f]
      [] ep[f].compared \in {"no", "unreadable"} -> TRUE

\* project(got) == want: the read-back reflects the write.
Reflects(ep, got, want) == \A f \in DOMAIN ep : Agrees(ep, f, got, want)

\* The fields a read-back waits for value by value.
Awaited(ep) == {f \in DOMAIN ep : ep[f].compared \in {"equal", "deep", "skip"}}

\* The endpoints whose projection waits for nothing they may not have sent,
\* and for nothing the server reports in another form than it was sent.
ComparesOnlyWhatItSends(ep) ==
    \A f \in DOMAIN ep :
        \/ ep[f] = Field("always", "equal")
        \/ ep[f].compared \in {"skip", "no", "unreadable"}
=============================================================================
