# LeaFlag in TLA+

LeaFlag is a feature-flag platform (OpenFeature's OFREP over HTTP) with a
key-value store of parameters. These modules model the parts of it in which the
order of events matters, check them with TLC on small instances, and prove the
most important results with TLAPS for all values of the constants.

Paths below are relative to `src/`; `internal/` stands for
`backend/internal/`. The correspondence of every definition with lines of the
source is in `PROJECT.json` under `map`.

## 1. Inventory

One binary (`backend/cmd/leaflag/main.go`) runs as *all-in-one*, as
*control-plane* (PostgreSQL, administration, snapshots) or as *data-plane* (no
database; polls the control plane for a snapshot and serves it). A React front
end administers it.

| Component | State | Operations | Hard behaviour | What makes it correct |
|---|---|---|---|---|
| Runtime store, OFREP traffic (`internal/runtimeplane/snapshot.go`, `internal/routes/ofrep_routes.go`) | an atomic pointer to the compiled snapshot; subscribers' channels behind a mutex; per request: what was read so far | Replace, Subscribe/cancel, event stream, conditional bulk evaluation, single evaluation | Replace is two steps; every method loads the pointer anew; channels of capacity one; streams end in three ways | no wake-up is lost, no subscriber leaks, an ETag is never newer than its body |
| Runtime replication (`control.go`, `sync.go`, `main.go`) | tables; the snapshot being loaded; last error | administrative commits, Load by separate queries, SyncOnce, restart | torn loads, "not modified", failures, restarts with an empty store | staleness is bounded by a load, health reports are true, the planes converge |
| Flags (`internal/service/flag`, `internal/repository/flag_repository.go`) | rows of flags, environment configs, strategies, variants | Create (three transactions), Update, Delete, Archive, Unarchive | read before the transaction, written in it; rules deleted and inserted; crash between transactions | parts of a flag are independent, rules come from one save, answers have the flag's type |
| Targeting and evaluation (`internal/service/strategy`, `evaluate_loaded.go`) | none; the database path holds what its queries returned | Evaluate, EvaluateAll | two copies of one recursion, cycles, prerequisites that change under an evaluation | both copies agree, evaluation ends, prerequisites are honoured |
| Conditions and the page of a flag (`strategy.go`, `pages/flag-editor.tsx`) | rows, strategies and prerequisite on the page; the fetched and the stored flag | every edit, save, refetch | a condition is flattened into rows and rebuilt; a switch or a slider stands for the variants and the rollout of a boolean strategy; edits while a save is in flight | what is saved means what is shown |
| Parameters (`internal/service/parameter`, repository, routes) | rows and their history | Upsert, Delete | version computed outside of the transaction; rows revived by a late save | history explains the row, without gaps |
| Sessions (`internal/service/auth`, `auth_routes.go`, `lib/api.ts`, `lib/auth.tsx`) | refresh tokens; cookie; access token, user and generation in each page | login, refresh, logout, restore, any authorized request | refresh is find, revoke, create; requests retried after a 401; late and lost answers | the cookie stays usable, sessions do not multiply, a page shows the present user, loading ends |
| Project pages (`lib/environment.tsx`, `components/app-layout.tsx`, the list pages, `pages/playground.tsx`) | address, chosen environment, react-query's cache, dialog, mutations under way, the playground's form | navigate, choose an environment, fetch, change a row, evaluate | fetches, own changes and the changes of others answer in any order; effects choose the environment; dialogs stay open over data that changes | a change goes where it was shown, is seen afterwards, results belong to the form, pages load |
| Federated login (`internal/service/auth`, `internal/service/oidc`, `oidc_routes.go`) | users, identities, settings row | callback, LoginOIDC, configuration update | user and identity by two inserts; settings row saved whole after a network call | an account stands for one subject, the bootstrap administrator stays local |
| Access groups (`internal/service/access`) | groups, members with a source, mappings, grants | CRUD, SyncOIDCGroups | the sync reads, then writes row by row, against administrators | local memberships survive a sync; an undisturbed sync is exact |
| Seed command (`backend/cmd/seed`) | a marked user | Register, MarkBootstrap | stops between the two | see federated login |
| Projects and members (`internal/service/project`, `pages/project-list.tsx`) | projects, members, roles | Create (several inserts), Update, Delete, members | a creation that stops half-way; templates that change under the dialog | a project has its owner and the environments that were ticked |
| Environments and templates (`internal/service/environment`, `pages/admin-settings.tsx`) | environments, templates | CRUD | late writes to a deleted environment; a template deleted and made again under an open form | rows of a deleted environment do not come back in a snapshot |
| API keys (`internal/service/apikey`) | keys by hash | Create, List, Revoke | a revocation takes a load to arrive | a revoked key is refused after the next load |
| Maintenance, settings (`internal/service/maintenance`, `middleware/maintenance.go`, `lib/maintenance.tsx`) | one settings row; the notice of each tab | enable, disable, gate, poll | two services read and save the whole row; requests admitted before maintenance run on; polls answer late or fail | nothing that is sent during maintenance is written, the notice comes to be right |
| Context fields (`internal/service/contextfield`) | fields and values | CRUD, ReplaceValues | two writes without a transaction | suggestions only |
| Rate limiter (`middleware/rate_limit.go`) | a limiter per address | Allow | the map only grows | burst and rate |
| Runtime KV routes, routers, DTOs, hooks, migration, configuration, static files, widgets | little or none | | | see `PROJECT.json` |

How they interact. The administration handlers change tables; `ControlSource`
reads them into a snapshot; `Syncer` puts the snapshot in the `Store`, in the
same process or over HTTP; OFREP handlers read the store and are woken by it
through channels. The playground evaluates from the database by the other copy
of the recursion. The page `flag-editor.tsx` produces the conditions that both
evaluate. Every request of the front end goes through `lib/api.ts`, whose retry
interacts with the handlers of `auth_routes.go` by way of the browser's cookie.
All pages of a project share one cache of answers and one chosen environment.
Maintenance and single sign-on share one row of settings, and the middleware
reads it before every administrative request.

## 2. Modules

| Module | Models | Uses |
|---|---|---|
| `FlagFeed` | abstract: what an event stream promises | |
| `RuntimeStore` | Store, event streams, polls | `FlagFeed` (refinement) |
| `RuntimePlane` | tables, loads, syncer, store, streams | `RuntimeStore` (INSTANCE) |
| `ParameterRows` | abstract: what may become of a parameter's row | |
| `ParameterStore` | parameter requests and history | `ParameterRows` (refinement) |
| `Targeting` | strategies, rollouts, prerequisites, as functions | |
| `FlagAdmin` | requests that change flags | `Targeting` |
| `FlagEvaluation` | the evaluation from the database, query by query | `FlagAdmin` |
| `Conditions` | the condition language | |
| `RuleEditor` | the targeting rows on the page of a flag | `Conditions` |
| `StrategyEditor` | its strategies, variants, rollouts and prerequisite | |
| `FlagEditor` | the page, with what it fetches and saves | composes the two before |
| `Sessions` | refresh tokens, cookie and pages | |
| `SingleSignOn` | accounts, identities, groups; logins through the provider | |
| `Workspace` | where a tab is, its environment, its cache of lists | |
| `ListPages` | the pages that list rows and change them | `Workspace` |
| `Playground` | the form and the results of the playground | `Workspace` |
| `Console` | a tab among other tabs and administrators | composes the three before |
| `Maintenance` | the settings row, the middleware, the notice | |
| `ProjectSetup` | templates, and the creation of projects from them | `Maintenance` |
| `Administration` | an instance and its administrators | composes the two before |
| `MC*` | inputs and sizes for TLC | |
| `RuntimeStoreProofs`, `SingleSignOnProofs`, `SessionsProofs`, `AdministrationProofs`, `ConsoleProofs` | theorems | the modules they are named for |
| `RuntimePlaneProofs` | theorems | `RuntimePlane`, with `RuntimeStoreProofs`; `ParameterStore` |
| `FlagEditorProofs` | theorems | `FlagEditor`, and with it the page and `Conditions` |
| `FlagProofs` | theorems | `FlagEvaluation`, and with it `FlagAdmin` and `Targeting` |

### How state and actions correspond to the code

`RuntimeStore`. `current` is `Store.current`; `Swap` is the atomic swap and
`Notify` the section under `Store.mu`; between the two `previous` and
`replacing` are the locals of `Replace`. A stream's handler is a small program
(`Connect`, `Subscribe`, `Send`, `Flush`, `Wake`, `Leave`, ...), one action per
access to shared state; `signal[st]` is whether its channel of capacity one
holds a token. A bulk poll makes three loads (key, version, evaluation), which
are `PollAuth`, `PollVersion` or `PollNotModified`, and `PollEvaluate`. The
ETag is a hash of the snapshot, here the snapshot itself. `superseded` is
history.

`RuntimePlane`. A row with a timestamp is represented by the number of the
commit that wrote it. `ReadKeys`, `ReadFlags`, the preloads `ReadConfigs`,
`ReadRules` and `ReadVariants`, and `ReadParams` are the six queries of
`ControlSource.Load`, outside of any transaction, so that commits come between
them. A preload asks by the ids that the query before it returned: it finds nothing of a
flag that was made again (`born`), and no variants of strategies that were
replaced. `Install`, `Announce` are the two halves of Replace;
`NotModified` compares with what is served; `SyncFails` is a failure at any
point; `Restart` empties the store. `dirtyLoad` and `dirtySync` are history: the
rows written since the load in progress, and since the last successful load,
began.

`ParameterStore`. A request reads (`StartUpsert`, `StartDelete`), then commits
(`Create`, `Update`, `FindForDelete`, `CommitDelete`) or is refused or fails. The
uuid of a row is the pair of its key and the number of the transaction that made
it, which tells a revived row from a new one.

`Targeting`, `FlagAdmin`, `FlagEvaluation`. A loaded flag maps the priorities in
use to strategies. `Evaluate` is the strategy loop, `EvaluateLoaded` the
recursion of the data plane with its depth bound and its set of visited flags,
written as a recursive function; `FlagEvaluation` is the other copy of it, with
`FindRow`, `PreloadConfigs`, `PreloadStrategies` and `PreloadVariants` for the
queries of `FindByKey`. Every request of `FlagAdmin` reads, then writes by
transactions that overlap at read committed: `ReplaceStrategies` removes only
the rows that its DELETE saw. `Upserted` is what the switch of an environment comes to,
which for its first row is the default of the column.

`Conditions`, `RuleEditor`. A condition is a tree; a text is the sequence of the
pieces its commas separate, so that splitting and joining a list, which the page
does with text fields, is modelled by what it does. `EvalNode` is a recursive
function on the nodes of one tree (`Subnodes`), down to `MaxHeight`; what a
node makes of the values of its arguments is `Evaluated`. `ConditionToRule` and
`RuleToCondition` are the page's two conversions; `form`, `raw`, `fetched` are its
state, `saving` a PATCH in flight.

`StrategyEditor`, `FlagEditor`. A strategy on the page has variants, a default
and a rollout; for a flag of booleans one switch or slider edits all three
(`SetBooleanStandardValue`, `SetBooleanRolloutPercentage`, `SetStrategyType`).
`Body` is what the page sends, `PickRolloutVariant` what the server makes of
it. `FlagEditor` joins the rows and the strategies: one PATCH carries both, and
one answer sets both (`Save`, `Saved`, `Refetch`).

`Sessions`. `tokens` are the rows of refresh_tokens in the order of their
creation, and the cookie is the number of one. A call of a page (`call[c]`) waits
for an HTTP request (`exchange[c]`): `Find`, `NotFound`, `Revoke`, `Rotate` are
the statements of Refresh and Logout, and the actions named after what the page
does (`TryRefresh`, `SendAgain`, `Throws`, `Restored`, ...) the code behind each
await. `authSessionGeneration` is only ever compared, so each call keeps whether
the generation it captured is still the present one. `mishaps` and `overlaps` are
history.

`SingleSignOn`. A callback is an action per statement of LoginOIDC
(`FindIdentity`, `FindEmail`, `CreateUser`, `CreateIdentity`) and of
SyncOIDCGroups (`ListMapped`, `ListExisting`, `FindMember`, `AddOIDCMember`,
`RemoveOIDCMember`), and any of them may be its last (`Fails`). Users and
identities never change once they are there, so that reading an identity and
then its user is one read. Administrators' requests that check before they insert
are two actions (`Checks`, then `AddMember`, `AddOIDCMapping`, `GrantProject`); the
others are one statement or one transaction. No foreign key ties the tables, as
in the source. `alone` (which synchronizations nothing crossed) and `marked` (who
was a bootstrap administrator when a login began) are history.

`Workspace`. `cache[q]` is react-query's entry for a list: its data, and a fetch
that is idle, sent or answered; `Read`, `Land`, `FetchFails` are the fetch, `Focus`
and `Mount` what starts one. A list is the number of its revision and the state
of its rows. `envKey` is the provider's environment, `Chosen` the effect that sets
it whenever the list of environments changes, `stored` what localStorage keeps.

`ListPages`. A page is given by its mutations, the controls of its columns and
its forms; what a control, a confirmation, a submission and an answer do is
written once (`ActOnRow`, `Confirm`, `Submit`, `Commit`, `Succeeds`, `Fails`).
A mutation under way keeps what was shown when it was asked for (`seen`), to
compare with where it goes (`to`).

`Playground`. Each editing handler of the form is an action; `Without` drops the
results as `evaluate.reset()` does.

`Maintenance`. `settings` is the row; `ReadSettings` and `SaveSettings` are the
two halves of both services that write it; `Admit` is the middleware; `Poll`,
`Land` and `PollFails` are the notice's polls, whose answers wait in `polls`.

`ProjectSetup`. The creation of a project is an action per statement
(`InsertProject`, `AddOwner`, `AddDefault`, `ListTemplates`, `AddEnvironment`), and
a template is the id of its row, which tells it from one that was made again
under the same key. An update or a deletion of a template finds its row (`FindTemplate`)
before it writes, and a deletion may find nothing left to delete (`DropNothing`).

## 3. What is checked

| Run | Instance | Result |
|---|---|---|
| `store` | one stream, one polling client, two keys of one scope, two flag sets; 645,586 states | `NoLostWakeup`, `SubscribersAreLive`, `EtagNotNewerThanBody`; `StreamsFollow`: implements `FlagFeed`, with liveness |
| `plane` | one environment, two keys, one flag, one parameter, one stream; 3 commits, 1 failure, 1 restart; 804,343 states | `ServedRowsAreFresh`, `HealthIsHonest`; `StoreIsUsedAsSpecified`: the plane implements `RuntimeStore`; `Converges` |
| `parameters` | one parameter, two values, two requests, 4 transactions; 150,233 states | `RowsAreRecorded`, `HistoryHasNoGaps`; `RowsBehave`: implements `ParameterRows` |
| `flags` | one key, two environments, two requests, 4 transactions; 272,884 states | `AnswersAreTyped`, `RulesComeFromOneSave`, `PartsAreIndependent` |
| `flags_cycle` | two flags, one request | violated: `CyclesFailClosed` |
| `evaluation` | two flags, requests one at a time, one evaluation; 835,078 states | `AgreesWithLoaded`, `PrerequisitesHold`, `EvaluationEnds` |
| `editor` | 17 stored conditions with 2 edits of the rows, or 5 stored flags with 3 changes of the strategies, with saves and refetches between; 246,192 states | `SavedMeansShown`, `UneditedSaveKeepsMeaning`, `BooleanIsAsShown` |
| `editor_no_condition` | a strategy without a condition | violated: `OriginalIsPreserved` |
| `sessions` | one page, two calls at a time, three tokens, one failure; 416,372 states | `CookieIsUsable`, `SessionsDoNotMultiply`, `ShownUserIsCurrent`, `LoadingEnds` |
| `single_sign_on` | two logins, two subjects, two e-mail addresses, an external group, an access group, one request, 2 changes by others; 999,960 states | `OneAccountPerSubject`, `BootstrapStaysLocal`, `SyncAgrees`, `LocalMembershipStays` |
| `console` | two projects, two environments, two mutations at a time, 8 tours; 564,064 states | `ActsWhereShown`, `WritesAreShown`, `ResultsFitTheForm`, `PagesLoad` |
| `administration` | two templates, two messages, one project, two requests, 6 tours; 936,738 states | `ReadOnlyInMaintenance`, `ProjectsAreAsShown`, `NoticeSettles` |

`TypeOK` is checked too in `editor`, `sessions`, `console` and
`administration`, where it says more than types; that of every module with
proofs is proved (section 4). Each property of a passing run is broken by a
mutant: an operator named after a plausible bug, next to the definition it
mutates (`PROJECT.json`, `mutants`).

Deadlock is not checked in the configurations that say so: a bound is used up
there, or a user, a client or an administrator is free to do nothing more. That
what must go on does go on is the matter of the liveness properties and of
`PagesLoad`.

### Bounds, and why they are enough

- `store`: a lost wake-up takes one stream, one Replace that is announced late and
  another that is not announced yet; two flag sets suffice, as a return to the
  old one is the hard case. Two keys let a scope outlive one of its keys.
- `plane`: three commits let a row be written before, during and after a load, or
  be created, deleted and created; one failure and one restart suffice for each to
  fall in any place of a load. The bounds make the outage end, which is a
  condition of convergence.
- `parameters`: two requests that both read before either writes, after a row
  was created, and one more change to delete it in between: four transactions.
- `flags`: two overlapping requests with all pairs of a creation, a replacement
  of rules, a switch and a change of the core.
- `evaluation`: `MaxPrerequisiteDepth` is 2 in place of 5, with two flags, so that
  chains reach the bound and cycles close below it. One request at a time, as the
  overlaps of requests are the matter of `flags`.
- `editor`: the stored conditions have every operator and each shape that the page
  takes or refuses; two edits reach each pair of them (a row added, then
  regrouped; a connector changed, then its row removed). The flags are some that
  the page makes and some that only the API makes (variants in the other order,
  shares above 100, a boolean strategy without one of its variants, a prerequisite
  variant without its flag); three changes are there to make a strategy gradual, move its slider
  and make it standard again. `MaxHeight` is 5, what the tallest condition of
  the page takes: or, and, a group, a negation, a comparison and its operands. Rows and strategies share nothing but the request
  and the answer, so a behaviour edits one of the two.
- `sessions`: one page with two calls shares its cookie as two pages would; three
  tokens let two overlapping refreshes both rotate the cookie of an earlier
  visit, or a login follow a logout and be rotated.
- `single_sign_on`: two logins are what it takes to overlap, and two subjects and
  two addresses let them be of the same or of different people; two changes let an
  account be made and marked, or a group be mapped and the mapping removed, in the
  middle of a login.
- `console`, `administration`: a tour names the pages (and, in administration, the
  requests) of one behaviour, how often it moves and how often anybody writes. Each
  property is about a few pages, and there is a tour for each combination in
  which they can meet: a list whose environment changes under it, two members'
  mutations that overtake each other, a new key whose dialog is left, the
  playground with the header; maintenance against its own change, against single
  sign-on, against templates and against a project under way. Two mutations or
  requests at a time suffice for one to overtake another.

### Fairness

- `RuntimeStore`, `RuntimePlane`: the goroutine of the syncer (a ticker that never
  stops), Replace once begun, and each handler that can go on. Nothing blocks
  under `Store.mu`: sends to the channels never wait. No client has to connect,
  poll or hang up, and no administrator to act.
- `FlagEvaluation`: a query that was sent is answered. Administrators need not act.
- `Sessions`: the server answers a request or fails, and the browser notices an
  answer or its loss. No user has to act.
- `Administration`: the interval of the notice fires again and again (weak), and of
  the polls infinitely many succeed (strong, as each single one may fail). This is
  the only strong fairness.
- `FlagAdmin`, `ParameterStore`, `FlagEditor`, `Console`, `SingleSignOn` assume
  none: a request, a page or a login may stop anywhere.

## 4. What is proved

`tlapm` checks every proof to the leaves (13,003 obligations). Assumptions are the
named ASSUMEs on constants in the modules; TLC evaluates them in each run. The
bounds are constants of the theorems, so the results hold for all of them.

`RuntimeStoreProofs`. The inductive invariant `Inv` is `TypeOK`, `StreamInv` and
`ClientInv`. `NoLostWakeup` is not inductive:
it lets a Replace be on its way without saying that this Replace will offer a
token, which `Notify` only does when the two snapshots differ. `StreamInv`
therefore says of each stream that is writing or waiting with an outdated event
that it has a token, or is registered and about to be offered one by a Replace
whose two snapshots differ; and that a stream holds a sent event only while its
channel is registered, and knows its key past the middleware. `ClientInv` says that the ETag in hand is the current
one unless superseded. From `Inv`: `TypeCorrect`, `WakeupsAreNotLost`,
`SubscribersAreNotLeaked`, `EtagsAreNotNewerThanBodies`; and
`StreamsImplementFeed`, the step simulation of `FlagFeed` (its safety part).

`RuntimePlaneProofs`. `TableInv` gives types and the consistency of the tables;
each action of the plane is then a step of `RuntimeStore` or a stutter
(`PlaneUsesStore`), so that the store's invariant carries over
(`PlaneLosesNoWakeup`). `FreshInv` is the strengthening for staleness: what the
queries that have run returned agrees with the tables on every row not written
since the load began (`LoadFresh`, one clause per query), and as long as no load
runs and the last one succeeded, it is the one being served (`LastLoadServed`,
which is what makes "not modified" sound). From it: `StalenessIsBounded`,
`HealthReportsAreTrue`.

`RuntimePlaneProofs` also has the requests that change the plane's parameters.
`ParameterStore` has constants and variables of its own, so that the module extends
both. `RowsAreRecorded` and `HistoryHasNoGaps` need to know what a request
in progress holds: the row it read is recorded in the history even if it is gone
by now (`RequestInv`), and versions do not exceed the highest one (`VersionInv`).
From `ParameterInv`: `ParametersAreTyped`, `HistoryKnowsRows`,
`HistoryIsConnected`; and `RowsImplement`, the refinement of `ParameterRows`, whose
steps are what `RuntimePlane` takes a request for.

`SingleSignOnProofs`. `OneAccountPerSubject` says nothing of a login that has made
its user and has not yet linked it, although linking is only safe because
nobody else can. `AccountInv` adds `Makes(l)` for such a login: its user has no
password, no subject, no other login that made it, and was no bootstrap
administrator before; and that marks are for ever. From `Inv`: `TypeCorrect`,
`AccountsStayApart`, `BootstrapIsLocal`; and from `TypeOK` alone the action
property `LocalMembershipIsKept`. `SyncAgrees` speaks of the end of a
synchronization only, and of one that nothing crossed; but what it finds there is
also the work of other logins of the account, which add and remove rows of the
same memberships. `SyncInv` therefore has every synchronization of such an
account go in step (`InStep`) with the claim that all of them share: what it has
left to do is in the claim, what it no longer has to do has been done, and a
membership by claim that the claim does not give is still on its list. A group
that one of them adds is then in the claim of all, and one that it removes in the
claim of none. From it: `SyncsAgree`.

`SessionsProofs`. `CookieIsUsable` is about the cookie, and answers that are under
way will become the cookie: `FreshInv` says that the token of such an answer is
active, that neither the browser nor another request or answer has it, and
`CarriesInv` what each request carries at which statement of its handler.
`SessionsDoNotMultiply` counts the active tokens of a session, but a rotation
revokes one before it creates the next: `IsSingle` counts the rotations between
the two statements with the tokens, and `FoundInv` says that a token that one
rotation found, and no other, is still there to be revoked. From `Inv`:
`TypeCorrect`, `CookieStaysUsable`, `SessionsStaySingle`, `ShownUserStaysCurrent`,
for any numbers of pages, calls, users, tokens and failures.

`AdministrationProofs`. `ReadOnlyInMaintenance` needs to know what each request has
read when it writes (`HeldInv`): one that was sent in maintenance has got no
further than the middleware unless it is of maintenance itself, and the settings
it saves were a row. `ProjectsAreAsShown` needs that a row of a project has one
request at most that is writing for it (`ProjectInv`), which adds to it, statement
by statement, just what it listed. From `Inv`: `TypeCorrect`, `ReadOnlyHolds`,
`ProjectsHold`.

`ConsoleProofs`. `Inv` joins five parts. `PlaceInv`: the chosen environment is one of
the project, and a project whose environments are loaded has one chosen; this is
what `PagesLoad` rests on. `ListsInv` orders the revisions of a list: what the cache holds is no
newer than an answer on its way, that no newer than the server, equal revisions
have equal rows; and the revision that a page is owed has either arrived or is
still to come, with a fetch that has not yet read or an answer that is no
older. `WritesAreShown` looks only at lists whose fetch has ended, and would not
carry from one fetch to the next without it. `FormInv` says of the playground what the results and
the selected flags are of, those of an evaluation under way included. `DialogInv` and `WriteInv`
say that what an open dialog or a mutation has seen is what it will send, as long
as the list of environments it was opened over is the present one, and that a
page that has gone last rendered in the project it asked in. From `Inv`: `TypeCorrect`,
`ChangesGoWhereShown`, `ChangesAreShown`, `ResultsAreOfTheForm`, `EveryPageLoads`, for
any projects, environments, keys, tours and numbers of mutations. The proof of
`ChangesAreShown` showed which list `onSuccess` names: that of the
environment its page was last rendered in, and `IsSeen` says so.

`FlagProofs`. `AdminInv` gives the types of flags and of requests in progress,
whatever they overlap with. From it: `TypeCorrect`; `AnswersTyped`; and
`PartsIndependent`, the action property that a request changes no part of a flag
but those it is about, which is proved step by step. `RulesOfOneSave` has a
hypothesis, `OrdersMeet`: any two non-empty lists of strategies that requests carry
have an order in common. The page of a flag numbers its strategies from 0 on
(`flag-editor.tsx:511`), and so do the inputs of the `flags` run; the API accepts any
orders, and two requests without a common one may leave their rules mixed
(section 5). Under it the unique index stops whoever would mix them (`OneSaveInv`).

The evaluation is recursive, and the induction theorems of the library take an
operator as a parameter, which these provers cannot instantiate. `AllNaturals` and
`LeastNatural` replace them by statements about sets of numbers. The evaluation of
the data plane, for given flags and a given context, is a recursive function of
the flag and of those visited before; `ResolvingEquation` shows that there is a
function that solves its equation, by induction on the depth that is left, so that
the equation may be used. With it: `PrerequisitesAreHeld` (what a flag answers follows
from what its prerequisite answers: along a chain that ends without a cycle and
within the bound, what was visited before does not matter, `VisitedDoNotMatter`);
and `EvaluationsAgree`, that the evaluation from the database
answers what the recursion answers for the flags that are stored, unless something
is committed while it runs. Its invariant `CleanInv` says what the chain of
flags that were found so far is, and that each agrees with its row.

`FlagEditorProofs`. The invariant `IInv` is three parts. `RowsInv`: what is stored,
fetched and in flight is a condition as a JSON document has one (`Proper`).
`ListInv`: each strategy of a boolean flag with both variants is one that the
API gave, or it serves one variant, or a share of the true one with the false one
for the rest (`Fits`), which the two fields that the page hides must
agree on. And a request carries both or none. From it: `TypeCorrect`.

The other three theorems are about what the definitions compute, for conditions and
forms of any shape. `EvalNode` and the page's own conversions are recursive: each is
shown to have a solution by induction on the height or on the length
(`AllNaturals`), and to satisfy its equation, and only the equation is used from
there on. `SavedIsShown`: read from the last row upwards, what the runs of "and"
that are left come to is what the page reads there (`Reading`), errors included,
because both stop at the first row that decides; so `RuleToCondition` means what
is shown, for any connectors and groups. `UneditedIsKept`: a leaf reads as
the comparison that it came from, texts that are split at their commas and trimmed
included (`LeafRoundTrip`); a group reads as its members; and nested chains
flattened into rows read as the chains did (`FlattenSeqMeans`, `ReadsOfParts`), so
that a condition and the rows made of it agree (`EditableRoundTrip`); one that the
page cannot show is sent as it was. `BooleanServes`: from `Fits`, the
buckets of 0 to 99 for which a strategy serves true are those below the percentage
on the page. The proof found a hypothesis that the instances did not: a strategy
with one key for a true and for a false variant, which the API accepts, is on for
what its first variant says (`KeysTellValues`, section 5).

Only model-checked: liveness (`StreamsFollow` beyond its safety part,
`Converges`, `EvaluationEnds`, `LoadingEnds`, `NoticeSettles`), since ENABLED and
fairness are out of the prover's reach. Every other property of a passing run
is a theorem.

## 5. Findings

| Run | The source says | The code does |
|---|---|---|
| `flags_cycle` | "cyclical prerequisites must not hang and should fail closed" (`flag_test.go:429`) | the guard answers the inner flag with its default variant; where that is the required one, the outer flag is evaluated as if its prerequisite held. In the trace it has no config yet and is answered DISABLED; with rules and a switch it is served |
| `editor_no_condition` | "Its original condition will be preserved when you save" (`i18n.ts:35`) | an unedited save replaces no condition by one that never holds |

Behaviour of the code that the models reach and no property rules out:

- The first switch of a flag in an environment is inserted, and gorm puts the default
  of the column, true (`model/flag.go:48`), where it is given false: a flag created
  switched off is on, and so is one that is first switched off in an environment without
  a row (`flag_repository.go:204`), although `flag_repository.go:32` says that
  UpsertEnvironmentConfig sets whether it is enabled. `Upserted` is that, and the
  creations and changes of the `flags` run reach it.
- Two upserts that read one version both write the next, and the second loses a
  bump (`parameter.go:44`, `parameter.go:48`).
- The salt of a rollout is the id of a strategy's row, which each save of the
  rules makes anew: saving reshuffles who is in which bucket
  (`strategy.go:116`, `strategy.go:154`).
- A strategy without a condition matches in the control plane; the data plane
  gets it as a null condition and errs.
- A stream outlives the revocation of the key that opened it, as long as another
  key of the environment is active (`ofrep_routes.go:113`).
- Content that comes back brings its ETag back (`control.go:66`); a body cached
  with a torn poll may then be confirmed by a 304.
- Two replacements of rules that overlap may mix, when their orders differ
  (`flag_repository.go:182`), and two updates of the core take back each other's
  fields; a PATCH carries no version.
- A restoration that fails after a login makes the page forget the user
  (`auth.tsx:50`), and `tryRefresh` sets its access token whatever the
  generation (`api.ts:50`).
- Two refreshes that find one token both succeed, and leave a session with two
  tokens (`SessionsDoNotMultiply` excepts them).
- A refresh whose answer is lost leaves a revoked token in the cookie
  (`CookieIsUsable` excepts it).
- In the editor, `>` and `<` rows are saved with texts and always err; two "and"
  runs or two groups cannot be opened as rows again; edits made while a save is
  in flight are reset by the refetch that follows (`flag-editor.tsx:498`); a variant
  that is renamed stays in the default and in the rollout under its old key
  (`flag-editor.tsx:607`).
- The API checks the values of variants only (`strategy.go:499`): two variants of a
  strategy may have one key, and the second is never served; the shares of a rollout may
  be any numbers. The page shows both as they are.
- `dto/flag.go:32` says that omitted strategies derive a catch-all; Create does
  not derive one.
- A first login that fails between the user and the identity leaves an account that
  no later login can reach (`auth.go:189`), and a project whose creation fails
  half-way keeps its key, without an owner or without environments
  (`project.go:51`).
- Requests that looked a group up before it was deleted write rows for it
  afterwards, and the deletion leaves its mappings (`access.go:180`,
  `access_group_repository.go:83`).
- A save of single sign-on that read the row before maintenance was switched
  writes the earlier state back (`config.go:98`).
- A template saved by its id after it was deleted is inserted again; one that is deleted
  twice at once is deleted with success twice (`environment.go:158`).
- The dialog of a new project ticks required templates that are not among its own
  keys yet (`project-list.tsx:98`); the server adds them all the same.
- "Done" on a new API key closes the dialog but keeps the key, which the next
  opening of the dialog shows again (`project-settings.tsx:110`).
- A late answer of a list page closes whichever dialog is open by then, and a list
  of environments that changes moves the environment under an open dialog
  (`ActsWhereShown` excepts the latter).
- A change that is asked for in one environment, on a page that then moves to another
  and is left, refreshes the list of the other (`parameters-browser.tsx:53`); its own
  list, if it is on screen again, stays as it was until the next fetch
  (`WritesAreShown` excepts it).

## 6. Not modelled

- Heartbeats, encodings and wording of answers, logging: nothing depends on them.
- Expiry of refresh tokens (30 days) and of access tokens by the clock: an access
  token may be taken away at any time; refresh tokens do not expire in a behaviour.
- Floating-point rollout percentages: buckets are whole numbers.
- Boolean strategies for which the API gave no true or no false variant, or one key for
  both: the page cannot show them, and `BooleanIsAsShown` says nothing of them.
- Hash collisions, password hashes, JWT signatures, TLS; discovery, the state
  cookie, the exchange of codes and the verification of tokens, which are the OIDC
  library's and the provider's.
- Serialization failures and deadlocks of the database, beyond a transaction that
  fails.
- The middleware that looks roles up, with the checks around the last owner, the
  last environment and the default one; renaming of projects; the role that groups
  give. These are reads followed by one statement, each of them a guard.
- The page of access groups, the form of the registration page,
  generated widgets, themes and translations.
- The other components with the status `not_modelled` or `partly` in
  `PROJECT.json`, each with its reason.

## 7. What would come next

1. Roles: the middleware between the lookup of a role and the handler, with roles
   taken away or a group deleted between; the last owner and the last environment,
   which are counted before they are deleted.
2. The meaning of a condition in `Conditions` as the outcome that `Targeting` takes for
   it, so that what the page saves is what `FlagEvaluation` evaluates.
3. The database path of runtime keys (`middleware/runtime_api_key.go`) in
   `RuntimeStore`.
4. An abstract specification of the administration as the plane sees it, so that
   `RuntimePlane`'s commits are shown to be those of `FlagAdmin`, and its parameters
   those of `ParameterStore`.
