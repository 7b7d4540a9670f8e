# A TLA+ verification of youtrack-api-client

The repository is a Go client of the YouTrack and Hub REST APIs: one flat package
(`src/client`, about 6 900 lines without tests), one `Client` whose methods each
make one or several HTTP requests. It holds no state of its own between calls, so
nothing can be lost in it; what can go wrong is what happens *between the requests
of one call*: the server applies a write later than it acknowledged it, another
worker changes what was read, a response is lost, a page shifts, a timer and an
answer are ready together. The package is written for reconcile loops
(`doc.go`, "Writing a reconcile loop"), which act on what a call returns: they
create what is reported absent and delete what is not listed. The models below
therefore ask one question of every call, in the form that fits it: **was what the
caller is told true, and what must it not rely on?** `Reconciler` asks the converse of
the loop itself: **does it get there, and without harm, on what the calls tell it?**

## 1. Inventory

| component | source | state | operations | what is hard | what makes it correct |
|---|---|---|---|---|---|
| poll loop | `client.go` `awaitAsyncProcessing` | deadline, ticker, context, the probe's verdict | probe, wait in `select`, return | Go's `select` picks any ready case; the probe may never settle | it returns; it gives up only when the budget is spent and errs only when the context is done |
| asynchronous settings updates | `async.go`, `async_state.go`, ten `Update*` methods | last read value, last error | POST, then GET until the projection agrees | the server applies the write later, in a normal form of its own; other callers write; a read fails | the value returned was served after the acknowledgement; settled means no drift in what is compared; no wait for a write already visible |
| collection walk | `pagination.go` `listAll`, used by all `ListAll*` | page number, entities so far | GET page after page | the collection changes between pages; `$skip` may be ignored | a miss only for a deletion, a repetition only for a creation, it ends, the limit is only hit by a collection that has filled its pages |
| lookup by name, of bundles, roles, apps, users and groups | `bundle_helpers.go` `lookupByNamePaginated` | skip, case-insensitive match | GET page after page | as above; a better match may come later | absence reported is real |
| app usages | `apps.go` | usages page, the usage found | list, attach, set, delete, refetch | each call is a read-decide-write sequence; other workers interleave; a loop over projects fails half-way | what is reported was so; other projects untouched; partial results are complete |
| asynchronous deletes | `deleteBundleByID`, `deleteBundleValue`, `DeleteUser` | the poll's last error | DELETE, or DELETE then GET until gone | refused while in use; removal applied late | success means gone; a refusal is reported; it returns |
| membership fallback | `hub_users_groups.go`, `DeleteGroup` | attempt number, last error | a chain of endpoint variants | a 404 says "no such endpoint" or "no such member" | nil is true; the chain reaches the endpoint a server has |
| external identities | `hub_user_details.go`, `hub_group_identity.go` | skip of a scan, the identity read back | scan, tag, label, remove | listings change during a scan; Hub answers an unknown group id with another group; a group's module is a field of its own | what is set is found again; a write answers for what it wrote |
| errors | `client.go` 58-256, `notfound.go` | none | classify an error | absence against failure; width of a Retry-After | a failure is never absence; a delay is what was asked for |
| client options | `client.go` 258-361, `url.go` | the `http.Client` | construct | order of options; a shared `http.Client` is written to | a client asked to have a timeout has one |
| reconcile loop | `doc.go` | the desired state | read, classify, create, update or delete | lost, late and repeated requests; other workers; stale reads | no duplicate; no give-up without a refusal; foreign fields survive; it converges |
| one-request resources: projects, custom fields, link types, roles and their assignments, users, groups, bundles and their values, services, auth modules, an app's switch and visibility, settings | `project.go`, `customfields.go`, `issue_links_types.go`, `roles*.go`, `hub_users_groups.go`, `users_groups.go`, `bundle_*.go`, `services.go`, `auth_modules_*.go`, `apps_global_config.go`, `settings_*.go` | none | create, read, update, delete, one request each | `omitempty` drops what is empty; an update replaces what others wrote; a delete meets a 404 | an update moves the caller's fields only; a retry settles |
| app settings documents and endpoints | `apps_global_config.go`, `apps_endpoints.go` | none | read, write | what is read is not what was written: secrets are masked, references expanded, a handler is the app's own | (not modelled) |
| permission catalogues | `roles.go` `mergePermissionLists` | none | read two lists, join them | nothing concurrent | (not modelled) |

Interactions: every method goes through `doRequest`. `readBackAfterWrite`,
`deleteBundleByID`, `deleteBundleValue` and `DeleteUser` run on the poll loop.
The `ListAll*` methods run on `listAll`; `EnableAppForAllProjects` runs
`listAllProjects` (for the model a choice of some projects, made when the call
begins) and then one `EnableAppForProject` after another; that one scans with
`ListAppUsages`. Clients share nothing but the server, so concurrency is
always several callers (goroutines or processes) against one server, and an
interleaving point is every request.

`PROJECT.json` lists all components under "components", and under "hazards" each
place of this code where something goes wrong that a test would hardly reach, with
the property that would show it.

## 2. Modules

| module | models | extends |
|---|---|---|
| `Await` | `awaitAsyncProcessing`, for several callers | |
| `SettingsEndpoints` | the ten endpoints: which fields an Update sends, which its projection compares, how the server stores and reports them | |
| `AckedWrite` | *abstract*: what an Update promises | `SettingsEndpoints` |
| `ReadBack` | `readBackAfterWrite` in the ten Update methods | `Await`, `SettingsEndpoints`; instance of `AckedWrite` |
| `Paging` | one page of a collection; entities appearing and vanishing | |
| `ListWalk` | `listAll` | `Paging` |
| `NameLookup` | `lookupByNamePaginated`, `findByName` | `Paging` |
| `AppUsages` | the enable, disable and detach calls of `apps.go` | `Paging` |
| `AsyncDelete` | the three polled deletes | `Await` |
| `Membership` | the three endpoint chains | |
| `HubIdentity` | user details and group identities | `Paging` |
| `Errors` | the errors a call returns, their predicates, `parseRetryAfter` and `RetryAfter` in the width of a `time.Duration` | |
| `ClientOptions` | `NewClient` and its options, on shared `http.Client`s | |
| `Resources` | the one-request resources: each payload's fields with their `omitempty` tags, each delete's treatment of a 404, and the methods that wait for what was acknowledged | |
| `Reconciler` | the reconcile loop of `doc.go`, composed of the three above: two workers, one entity, a faulty network | `Errors`, `Resources`, `ClientOptions` |
| `AwaitProofs` | theorems about `Await`, `ReadBack` and `AsyncDelete` | `ReadBack`, `AsyncDelete`, `TLAPS` |
| `MembershipProofs` | theorems | the module named, `TLAPS` |
| `ReconcilerProofs` | theorems about `Errors` and `Reconciler` | `Reconciler`, `TLAPS` |
| `PagingProofs` | lemmas about pages and changing collections | `Paging`, `TLAPS` |
| `ListWalkProofs`, `NameLookupProofs`, `AppUsagesProofs`, `HubIdentityProofs` | theorems | the module named, `PagingProofs` |
| `MC*` | constants for TLC | the module named |

How state and actions correspond to the code:

* A variable that is a function of the callers or workers is a local variable of
  the Go method, or its program counter. `loop` in `Await` is the position in
  `awaitAsyncProcessing` (`first`, `select`, `probe`, and how it returned);
  `last` and `readErr` in `ReadBack` are `last` and `lastErr` of
  `readBackAfterWrite`; `skip`, `fuzzy` and `all` have the source's names.
* One action is one request with all that the method does with the answer until its
  next request, or one `select`. Two actions of two workers interleave freely.
* The server is external. What a request does to it is modelled from what the
  client's code, comments and tests rely on, and is marked external in the map. A
  request that fails may have had its effect: `Fails` and its relatives have both
  outcomes.
* In `Reconciler` a request and its answer are one step, since the loop does nothing in
  between; that an effect comes before, with, after or instead of the answer is in
  `RequestLost`, `WriteAckedBefore` and `Land`. The call is a row of `Resources`: what
  differs between the one-request methods, for a caller that reconciles, is which
  fields their payload drops, what their delete makes of a 404, and which methods succeed
  before their write is applied. `Init` chooses the row,
  two of its fields (one for each worker), the options the client was built with and
  what the server may fail with (`conf`).
* Time is the number of poll intervals waited (`Elapse`); the ticker and the
  deadline become ready with it. Probe durations are not modelled: a slow probe is one
  during which `Elapse` happens.
* History variables (`witness`, `moved`, `movedUp`, `shifted`, `steady`, `acked`,
  `ended`, ...) record what held during a call, or what it ended on. No action reads them.
* Definitions commented "Mutation" are plausible bugs in the definition that follows
  them. They are part of no specification; with one put in that definition's place the
  property named for it in PROJECT.json fails, which shows that the property can.

## 3. Runs

| run | properties | what it shows |
|---|---|---|
| `readback` (`MCReadBack.cfg`) | `ReadBackTypeOK`, `ExitIsJustified`, `FailedReadSurfaces`, `SettledLeavesNoDrift`, `ExactReadBackSettles` | every endpoint with every request, one caller. A poll that settles leaves every field it waits for value by value as the request has it, and any other field that is sent so once the write lands (`SettledLeavesNoDrift`, at all ten); where nothing is compared but what is sent, no visible write is waited for (`ExactReadBackSettles`). |
| `readback_shared` | `KeepsPromise`, `AwaitSpec`, `UpdateReturns` | two callers overwrite each other: each still implements `AckedWrite` and, with its fairness, `Await`, and returns. |
| `walk` | `TypeOK`, `WalkIsASnapshot`, `MissesAreDeletions`, `RepeatsAreCreations`, `LimitIsEarned`, `WalkEnds` | the walk over a collection that changes anywhere, at servers that honour or ignore `$skip`. The limit refuses only a collection that has filled all the pages, counting what was there at any time (`LimitIsEarned`). |
| `lookup` | `TypeOK`, `LookupIsASnapshot`, `AbsenceIsReal`, `LookupEnds` | the same for the lookup by name, and for `GetCustomFieldByName` and `GetAllUsersGroup`, whose loops are instances of it. |
| `apps` | `TypeOK`, `AnswersAreTrue`, `OthersUntouched`, `AtMostOneUnreported` | two workers on one app, including `EnableAppForAllProjects` beside another call. Alone, that call leaves every project beyond the one it had reached as it was at any moment of the call. |
| `delete` | `AsyncDeleteTypeOK`, `DeletesAreTrue`, `ValueDeleteUnblocksBundle`, `DeleteReturns` | pairs of deletes while the field that uses the bundle goes. |
| `membership` | `TypeOK`, `AddIsTrue`, `RemoveIsTrue`, `ChainReachesServer` | two workers at every server with one endpoint of each chain, and at servers that have none. |
| `identity` | `TypeOK`, `FindIsTrue`, `WriteIsTrue`, `RedeliverySettles` | two workers make three calls on the identities of users or groups that come and go. |
| `reconcile` | `ReconcilerTypeOK`, `OneEntity`, `TerminalIsEarned`, `DelayIsAsked`, `ForeignFieldsSurvive`, `Converges` | the owner of an entity and a worker that manages one of its fields run the loop over every kind of resource; requests are lost, refused, late or unanswered, a person edits. No duplicate, no give-up but on an answer that will not clear, the delay that was asked for where a Duration can hold it, no foreign field moved, and convergence. |
| `readback_azure` | violates `AppliedWriteSettles` | finding 1 |
| `apps_shifted` | violates `DetachesEntirely` | finding 2 |
| `retry_after` | violates `NeverTooEarly` | finding 3 |

### Bounds

* `PollTimeout` is the budget in poll intervals: 50 in the code; 3 in `readback` and 2 in
  `delete`, so that a tick comes before the last one; 1 in `readback_shared`, where the two
  callers' polls still overlap in every order. The loop has no memory of how many
  intervals have passed but the budget itself, and the proofs hold for any budget.
* `PageSize` 1 or 2, up to 5 or 6 entities: enough for walks of three pages, for an entity in
  front of, behind and on the page being read, and for a short, a full and an empty last page.
  `MaxPages` = 3 is reached by a collection of four or five that grows to six while it is read,
  and by a server that ignores `$skip`. `walk` starts from four or five entities; deletions lead
  to every smaller collection, the empty one included. Offset paging treats all positions of a
  page alike.
* `NameLookup` needs no bound on `skip`, although the lookup has no page limit: at a server
  that honours `$skip` it ends with the collection, and at one that ignores it, where it goes
  on for ever, `skip` plays no part and is not counted.
* `MaxUsages` = 5 ever made, three projects, two workers with one call each. The usages
  there are at first have IDs and projects of their own (`OneUsageEach`) and fewer IDs than
  have been given out; a call names one project, or, to enable, as many as it has listed.
* `MaxCalls` = 3 by two workers, `MaxDetails` = 2, two users or groups, two modules with
  the same two identifiers: a tag, the lookup that relies on it and a third call that
  interferes.
* The endpoints of `SettingsEndpoints` have one to seven fields: one for each way a
  field of the Go entity is treated (compared or not, omitted when empty or not,
  normalised by the server or not, never reported), not one per Go field. Values are
  two, the zero value and the empty list. `readback_shared` uses the global settings, where two
  callers write the same field.
* `reconcile`: all pairs of fields of all 23 resources, which fall into 26 kinds (the class of
  each tag, how a delete takes a 404, what is acknowledged early). Each kind is run with two
  workers, the client as it comes, a server that answers a duplicate with 409, and failures 403,
  409 and 503; the four kinds of one field, with one worker, are also run at servers that answer
  a duplicate with 400 or accept it, with every failure (403, 409, 429, 500, 501, 502, 503 and
  504, the 429 and 503 with and without a Retry-After), and with every list of up to
  `MaxOptions` = 2 options, which is enough to put a `WithTimeout` on either side of a
  `WithHTTPClient`: 210 circumstances in all. `MaxFaults` = 2 faults or edits: enough for a
  create that is lost and lands late while the one that follows it is lost too. `retry_after`
  needs one fault only. The proofs hold for any number.
* `Second` = 10 and `Half` = 128 stand for 10^9 and 2^63: `Retry-After: 20` comes out
  negative, 30 comes out positive and too short, a date at 300 is beyond a Duration.

### Fairness

Safety properties are checked without fairness where the cfg says `SafetySpec`, and
never depend on it.

* Weak fairness of a probe, of `Elapse` and of leaving a `select` that has a case
  ready: requests are answered or fail (`http.Client` has a timeout of its own,
  `client.go` `defaultHTTPTimeout`), time passes, the goroutine is scheduled.
* Strong fairness of the deadline's case and of the context's: Go chooses
  *uniformly at random* among ready cases ("one ... is chosen via a uniform
  pseudo-random selection", Go specification), so a case ready again and again is
  chosen. Weak fairness is not enough: between two selects the loop probes, and no
  select case is enabled then.
* Weak fairness of the walk's own step, for the same reason as the probe's, and in
  `NameLookup` of an answered request only: nothing there has to fail. Nothing is
  assumed of other workers, of the server applying a write, or of the caller.
* In `Reconciler`, weak fairness of each worker: controller-runtime calls a reconciler again,
  after a requeue or at a resync, and a request that is not lost for good is answered. Requests
  are made with a context that has no deadline of its own, so that only the client's timeout
  ends one that is lost. A worker whose request hangs has no step, and so no claim. Weak
  fairness of `Land`: a write that was acknowledged, or given up on, takes effect some day if it
  is to take effect at all. Faults need no fairness; there are finitely many, which is what
  "converges once failures cease" means.

`CHECK_DEADLOCK FALSE` throughout: each behaviour is a finite number of calls, and ends;
in `Reconciler`, workers that have given up or hang leave nothing to do.

## 4. Proofs

TLAPS checks these for every value of the constants, from the `ASSUME`s in the
modules (the budget and the page size are natural numbers, the marker values are no
values, the situations that `HubIdentity` starts from are ones Hub can be in, and so on).

* `AwaitProofs`, the poll loop: `AwaitTypeCorrect`, `AwaitExitsJustified`,
  `AwaitBudgetShrinks`. The invariant is the conjunction of types and `ExitIsJustified`:
  that a poll that expired has spent its budget is inductive only together with the range
  of the time waited.
* `AwaitProofs`, the Update methods: `ImplementsAwait` shows that every step of an Update is a
  step of the poll loop or leaves it alone, and so carries `ExitIsJustified` over
  (`UpdateExitsJustified`) without proving it again. `IInv` adds to the types `ResultsFit`,
  which ties the position in the loop to `last` and `lastErr`: a poll that is waiting, or has
  expired, has read a value; one that settled has a value or an error, never both. Without it
  the value that an expired poll returns unchecked could be one never read. From `IInv` follow
  `FailedReadAlwaysSurfaces` and `ImplementsAckedWrite`: initial states map to initial states,
  and each action is one action of `AckedWrite` or a stutter (`InitRefines`, `StepRefines`). The
  proof covers any set of endpoints and callers.
* `AwaitProofs`, the comparison, at all ten endpoints: `SettledNeverDrifts` and
  `VisibleWriteSettles`. The two lemmas they rest on say what a projection is worth: a read that
  reflects the request is one of a server that holds every field the projection waits for as it
  stores it (`ReflectingIsHolding`, on `HoldsAwaited`; it needs that no list the server holds is
  null, and that `observedOrSkip` skips only what is not sent, which is proved of the ten
  endpoint tables); and a server that holds all of the request is read as reflecting it, where
  only what is sent is compared (`HoldingIsReflecting`). `VisibleFits` is the invariant: as long
  as nobody else has written, the server holds a request from the moment it is applied, and what
  is waited for from the moment the poll has settled, although fields that are not compared may
  still be to come.
* `AwaitProofs`, the deletes: `DeletesWaitInTheLoop` shows that the polled deletes are steps of the
  poll loop or leave it alone. `DeleteInv` ties what a caller knows (a refusal, an
  acknowledgement, an unlisted value) to what the server has done since, whatever it applies
  first; from it follow `DeleteTypeCorrect`, `DeletesAlwaysTrue` and the action property
  `ValueDeleteAlwaysUnblocks`.
* `PagingProofs`: a page is a piece of the collection, and a change at or behind a position
  leaves what is in front of it alone (`PageProperties`, `WithAtProperties`,
  `WithoutProperties`); a search has a first (`LeastExists`).
* `ListWalkProofs`: `WalkTypeCorrect` and `LimitAlwaysEarned` from `WalkInv` (a walk that goes
  on has read full pages only, so that its length is `page * PageSize`), then
  `UndisturbedWalkIsASnapshot` from `SnapshotInv`: as long as nothing has moved across the
  walk's position, what it holds is a prefix of the collection as it is *now*. That breaks
  with the first entity that does move across it. What is left then is a matter of counting, and
  `MissesAlwaysDeletions` and `RepeatsAlwaysCreations` have an invariant of their own,
  `CountsInv`: what the walk has passed over (there from the beginning, unread, behind the
  position) is no more than what was deleted behind the position, and what it has returned again,
  together with what it has read and has in front of it once more (`ReadAhead`), is no more
  than what was created there. A deletion pulls one entity across the position, a creation
  pushes one, and a page pays for each entity it repeats with one that is no longer ahead
  (`PageCount`). The bounds alone are not inductive: without `ReadAhead` a page could repeat
  anything. With a bound of zero they say that nothing is missed and nothing comes twice
  (`UnmovedMeansExact`).
* `NameLookupProofs`: `LookupTypeCorrect`, then `LookupAlwaysASnapshot` from `SnapshotInv` (the
  match in another case is the first one of the part of the *present* collection that has
  been scanned, which holds no exact one) and `AbsenceAlwaysReal` from `AbsenceInv` (whatever
  was there all along is in front of the position, or has been seen and is no better match).
* `AppUsagesProofs`: `UsagesInv`, worker by worker. A call acts on a usage ID it has read some
  requests ago; `FoundIs` says what it can still rely on: the ID names no other project, and its
  usage is there unless the project was detached during the call. `WalkFits` says that a walk
  that has found nothing has everything in front of it, or has seen the project detached, or is
  known to have lost its place. The three requests with an effect come down to one fact, how the
  list may change under anybody's call (`Evolves`: IDs keep their project, a usage that goes
  leaves its project detached, places are kept or the walk is in `shifted`), and `BystanderFits`
  shows that a call survives any such change. `UsagesTypeCorrect`, `AnswersAlwaysTrue`, the
  action property `OthersAlwaysUntouched` and `AtMostOneAlwaysUnreported` follow; the last says
  of each project beyond the one that was reached that it is in whatever state (enabled,
  disabled, detached) it was seen in during the call. A 404 from `DeleteAppUsage` counts as
  success because of the second half of `FoundIs`.
* `ReconcilerProofs`, errors: what wraps around is in the width, what is in the width is left alone
  (`WrappedFits`, `WrappedSmall`); so `RetryAfter` reports a positive Duration or none
  (`DelayIsPositive`), although `parseRetryAfter` may be negative, and reports a delay that
  a Duration can hold as it was asked for (`SecondsAsAsked`). `OverflowAloneFallsShort` says where
  that ends: seconds fall short exactly where the multiplication by `time.Second` overflows, and
  a date is cut at the longest Duration.
* `ReconcilerProofs`, the loop: `ReconcilerTypeOK`, `OneEntity`, `TerminalIsEarned` and
  `ForeignFieldsSurvive`, from `ReconcilerInv`. None of the last three is inductive alone. What
  a worker has given up on is remembered in `ended` when it gives up; `AnswerEarns` shows of
  each answer in turn that it earns that (`EarnedBy`), and `EarnedAgain` that nothing that
  happens later takes it back. The invariant adds `CreatesFromNothing` (only the owner creates,
  after finding nothing: what is there since came late), `DeletesWhatItMay`, and
  `PayloadsLeaveAlone` (every payload on its way, in a worker's hands or on the wire, carries
  for a foreign field nothing or what that field's own worker wants). `StepKeepsInv` reduces
  each action to what it does to one worker (`OwnVariables`, by `QuietStep` or `FailingStep`)
  and to the server (`ServerFits`, by `ServerRests` or `WriteLands`).
* `MembershipProofs`: all the properties of `membership`, for any workers and any set of
  endpoints, from `MembershipInv`. A return value says nothing of the attempts that came before
  it; `OnItsWay` remembers that wherever a worker went on from an endpoint the server does have,
  there was nothing to act on at that moment. `Answered` is what is left of it at the end.

* `HubIdentityProofs`: all four properties of `identity`, from `IdentityInv`, worker by worker.
  `ScanFits` is what keeps a scan honest: as long as nothing has left the part of the listing it
  has read, nobody who carried the identity all along is in that part. That is not a matter of
  positions, since the listing of a module's users is a filter of Hub's: a detail that is added or
  removed moves everybody behind its user. What holds is that whoever is in two listings is in the
  same order in both (`FiltersKeepOrder`, whatever each filter keeps), and that a prefix nobody
  leaves can then only be pushed back, never be joined by somebody from behind it
  (`NobodySlipsBehind`). `AckedHeld` (a tag that was reported set and not undone is there, under the
  module asked for unless the group was imported from another) and `DueFits` (whoever a scan owes
  such a tag was there all along) turn this into `RedeliveryAlwaysSettles`; `WrittenFits` (what a
  write that is to be read back has left in Hub) gives `WritesAlwaysTrue` and the tags that may
  be counted as acked. `BystanderFits` takes all of it over a step of somebody else.
  What a filter keeps, and in which order, is a recursion over the listing: `KeptKeeps` and
  `NobodySlipsBehind` are inductions, each written as the search for a least exception
  (`LeastExists`), since the library's induction rules take an operator as a parameter and cannot
  be used here.

Every safety and action property that a passing run checks is proved in this way, but for
`DelayIsAsked`. (`IdentityInv` was model-checked on the instance of `identity` before it was
proved, like the invariants before it.)

Only model-checked: everything about liveness (`UpdateReturns`, `DeleteReturns`, `WalkEnds`,
`LookupEnds`, `Converges`, the fairness half of `AwaitSpec`), which needs `ENABLED` and is out
of the prover's reach; and `DelayIsAsked`, where `OverflowAloneFallsShort` proves what it rests
on, that of the operators `parseRetryAfter` and `RetryAfter`. The endpoints' tables, the chains
and the list of resources are data, and a theorem is as good as their translation.

## 5. Findings

1. `UpdateAzureAuthModule` compares `ServerURL`, which it never sends and Hub derives:
   each update of an Azure module waits out the whole budget of five seconds, which
   `async_state.go:4` says the projections are there to prevent. (`readback_azure`)
2. `DetachAppFromProject` can return nil with the app attached: a deletion by another
   worker between two pages shifts the usage it looks for onto the page it has read.
   `apps.go:267` promises removal "entirely". (`apps_shifted`)
3. A `Retry-After` of more than 9.2e9 seconds overflows the multiplication in `client.go:138`.
   `parseRetryAfter` "never returns a negative duration" (`client.go:127`) but then does;
   `RetryAfter` hides a negative one, and passes on a positive one that is too short, for "the
   delay the server asked" (`client.go:238`). (`retry_after`)

Where else the code is not what its comments say, seen while it was modelled; the properties are
stated for what the code does:

* `DeleteGroup` tries Hub's endpoint first and stops there; CHANGELOG.md:171 says it goes
  through YouTrack's, "never Hub's", for the reason that this leaves YouTrack's row behind. The
  model keeps the two sides apart (`hub`, `row`), and a deleted group's row stays in it.
* `listAll` fails at exactly `MaxPages` full pages, also when the next one would be empty: 99 999
  entities are allowed, where `pagination.go:17` says 100000. `LimitIsEarned` has its bound there.
* Of the 5xx, `IsRetryable` is true of 500, 502, 503 and 504 only, as its own comment says, so
  that a 501 or 520 ends the loop, where `doc.go:46` counts "a 5xx" among the failures that may
  clear. `TerminalIsEarned` (in `RefusedForGood`) names the statuses one by one; the failures of
  `reconcile` include a 501.
* A read-back that compares less than was sent settles on a stale read: `UpdateYoutrackRole`
  compares the *number* of permissions (`roles.go:282`), and `UpdateBackupSettings` neither the
  archive format nor the notified users (`settings_database_backup.go:38`). `doc.go:83` says
  that the Update methods poll "until it reflects the write" and "return the converged value".
  Such a field is at the server once the write lands, and no sooner; until then
  `SettledLeavesNoDrift` promises nothing of it.

Behaviour that the properties step around, and that a caller should know:

* A deletion *behind* a walk's position makes it skip an entity, a creation there makes it
  repeat one. `ListAll*` loses or repeats one for each (`MissesAreDeletions`,
  `RepeatsAreCreations`), no more; `AbsenceIsReal`, `FindIsTrue` and the app properties,
  where the one may be the one that is looked for, exclude such a deletion. This is what
  offset paging can give; a reconciler should treat one walk's absence as a reason to look
  again.
* `lookupByNamePaginated` and the two scans for identities have
  no limit, and do not end at a server that ignores `$skip` and has a full page.
* When the context is done and the ticker is ready, `select` may probe once more; the
  deadline may win over the context, and the call then returns without the context's
  error.
* `deleteBundleValue` returns nil when the poll expires with the value still listed
  (`bundle_value_helpers.go:95`), and `DeleteUser` likewise: the delete was acknowledged.
* `RemoveUserFromGroup` returns nil at a server that has none of the endpoints
  (`hub_users_groups.go:352`, as its comment says); `RemoveIsTrue` excludes such servers.
* Setting the identity of a group that was imported from another module succeeds, but
  `AuthModuleName` reports the module it was imported from, and a lookup by the new one does
  not find it. Whether Hub clears `importedFromAuthModule` then is not known from this
  repository, so `RedeliverySettles` leaves such groups out.
* `Converges` asks for values the payload can carry. A field dropped when it is empty cannot be
  emptied, nor a reference tagged so cleared (`nil` is dropped, anything else names an entity),
  and a loop that wants it empty updates for ever: `User.Banned` through `UpdateUser` (hence
  `SetUserBanned`), `IssueLinkType.Directed`, names and descriptions of projects and roles, a
  project's leader, a group's parent.
* `WithTimeout` given before `WithHTTPClient` is lost (`client.go:296` writes to the client that is
  replaced); given after it, it changes the caller's own `http.Client`, which other `Client`s
  may share. `Converges` asks for a timeout that is in effect by the order given, or the default.
* `DelayIsAsked` speaks of the delays that a Duration can hold; beyond them is finding 3.
* `IsRetryable` is also true of a not-found sentinel, so that a switch that asks it before
  `IsNotFound` would never create what a lookup by name does not find.
* `IsRetryable` takes every error without a status for a request that "never completed"
  (`client.go:233`). A body that does not decode after a 2xx, or a payload that cannot be
  marshalled, is such an error too, and a failure that lasts of this kind requeues for ever.
  `Reconciler` has no such failure.
* `DeleteOAuth2AuthModule`, `DeleteAzureAuthModule` and `DeleteGroup` return the 404 that every
  other delete takes for success (CHANGELOG.md:179 and :270): a delete repeated after a lost
  answer reports a failure. That 404, to a delete of these kinds, is one of the two rejections
  that `TerminalIsEarned` lets end a loop (`GoneBefore`).
* The other (`DuplicateUnnamed`) is a 400 to a create, at a server that answers a duplicate so,
  when an earlier create has landed late; the comment on `IsAlreadyExists` says that it cannot
  tell. Where the server accepts duplicates, a late create can leave two entities, which is all
  that `OneEntity` exempts.
* Two workers on fields that are always sent (those of a value's replacement, of the settings
  and of most of an auth module) overwrite each other from stale reads, and converge all the
  same, as each reads again.

## 6. Not modelled

* URL building, escaping, JSON layout, logging, error wording: no state, and no property
  here is about them. Strings that `EqualFold` and `TrimSpace` make equal are one value.
* The plain reads and lists (`ListUsers`, `ListGroups`, `GetPermissionGraph`, ...): one request,
  no state, and nothing to decide but the error, which `Errors` classifies. (`GetUserByLogin`
  and `GetUserGroupByName` page through `lookupByNamePaginated`, as the lookups of bundles,
  roles and apps do: each is an instance of `NameLookup`.)
* The pages of `listAllProjects`: `EnableAppForAllProjects` begins with some projects, and
  `AppUsages` says nothing of projects that come and go while they are listed.
* An app's settings document: secrets read back masked and must not be written back, references
  come back expanded (`apps_global_config.go:21`), so that a loop cannot compare it with what it
  wants. The values an app's endpoints hold, for the same reason (`apps_endpoints.go:43`).
* `mergePermissionLists`: one pass over two lists that were read, without interleaving.
* Fields that are written and never read back (passwords, client secrets): a loop cannot see
  whether they have converged. Fields the server fills in, or lets nobody update (a service's
  vendor, application name and version, `services_models.go:17`). The values inside a bundle's
  own create and update: they are reconciled one by one.
* POST to an app's endpoint: what it does is the app's business.
* The User-Agent, logging and the transport's connection pool.
* The integration tests, examples and CI.

## 7. Plan

Done, in this order, because each uses the one before: `Await`, `SettingsEndpoints`,
`AckedWrite`, `ReadBack` and their proofs; `Paging`, `ListWalk`, `NameLookup`, `AppUsages` and
their proofs, on the lemmas of `PagingProofs`; `AsyncDelete` and its proofs; `Membership` and
its proofs; `HubIdentity` and its proofs; `Errors`, `ClientOptions`, `Resources` and
`Reconciler` with their proofs.

The bounds on what a walk loses and repeats, and what the code does against its own comments
(section 5), came last. Next would be the same bounds for the lookup and the app calls, which
stop at a match and so need them per entity.
