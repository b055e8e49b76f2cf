# TLA+ models of the DPI dashboard

The dashboard is one Go process. It takes service readings from a source (an
upstream it polls, or collectors that push), keeps them in a store, and serves
pages rendered from an in-memory snapshot. These modules model what decides
whether a reader sees the truth: the path of a reading from the source to the
reader and to the database, where order, failure and concurrency matter; the
database it is kept in; and the page, from the record an upstream sends to the
control a reader clicks, where a dozen pure functions have to agree.

Paths below are relative to the repository.

## 1. The system

| Part | State it keeps | Operations | Talks to |
|---|---|---|---|
| `persist.Recorder` (`internal/persist`) | `merged`, `stored`, `lastSeen` (all atomics, no lock) | `Snapshot`, `Restore`, `SyncOnce`, `Run`, `RollupOnce`, `publish` | source, store, every page |
| `SinkRecorder` | the above over a writable source | `Store` | push handlers |
| push ingest (`internal/server/ingest.go`) | none of its own | `handleIngest`, `applyIngest`, `merge` | `SinkRecorder`, the clock |
| pull driver (`internal/source/pull`) | `snap` (atomic), `latest`, `lastErr` (mutex), each loop's `failures` | `PollOnce`, `Run`, `loop`, `pollOnce`, `publish`, `recordFailure`, `Health` | upstreams, recorder |
| store contract, memory store (`internal/store`) | services, samples, daily history | `Save`, `Load`, `Rollup`, `Prune` | recorder |
| SQL store (`internal/store/sqlstore`) | seven tables and `schema_migrations` | the same, and `Migrate` | the database |
| process (`main.go`) | goroutines, the signal context | `serve`: first poll, restore, first sync, run, listen, shut down | all of them |
| configuration (`internal/config`, `internal/layout`) | immutable once accepted | `validate`, the checks of chrome, layout and mapping | everything that refers to what it declares |
| mapping, transforms (`internal/mapping`, `internal/transform`) | none | `Compile`, `Apply` | pull driver, preview |
| rules, query (`internal/rules`, `internal/query`) | none | `Finalise`, `Signals`, `Opportunities`, ranking, filtering, counting | pages, API, sources |
| pages, API, widgets (`internal/server`, `internal/widget`, `internal/apimap`) | none per request but a theme cookie | page, section, drawer, pane; widgets; messages | recorder, URL state |
| URL state (`internal/server/state.go`, `internal/query`) | the address itself | reading a request, building every link and form | browser |
| browser script (`web/static/app.js`), htmx | regions of the page, drawer, address bar | swap, open, close, toggle the theme | pages |
| charts, rendering, translation, schemas, API description, accessibility tools | none, or build time | | |

Behaviours that are hard to test, and the reason for these models:

- `SyncOnce` runs in the recorder's loop and in every push handler at once; it
  reads the source, compares and sets `lastSeen`, saves and publishes with no
  lock around any two of those.
- `merge` is a read-modify-write over what *readers* are served, not over the sink.
- `pull.publish` merges under a mutex and swaps the result in after the unlock.
- `RollupOnce` reads samples and recorded days outside the transaction that
  writes, then prunes, then restores, and each of them can fail on its own.
- A restart loses the source, `merged` and `lastSeen`, and keeps the tables. A
  signal cancels a context that a write may be using, and `main` does not wait.
- `Migrate` is resumed after a failure part way and may run in several processes
  of different builds at once; MySQL commits in the middle of its transactions.
- `Save` is an upsert of seven tables with different rules for what an absent
  list means, and `Load` puts them together again from separate queries.
- A page is made of fragments that are asked for, answered and drawn one by one,
  each for an address of its own and perhaps from another snapshot, while the
  reader goes on clicking. The server keeps no session: what a control carries
  on is all that survives it.
- A count, a chip, a finding and the board it leads to are computed by different
  functions from the same services and must give the same number. Missing
  readings travel through mapping, rules, ranking and aggregation as "absent",
  and any of these could turn one into a zero.
- A deployment's configuration decides the order of rules, what a finding leads
  to and what a column shows; validation is what keeps it from dangling.

`PROJECT.json` lists each hazard at its line with the properties that cover it.

## 2. The modules

`Recorder` is a component without a specification of its own: its state
(`merged`, `lastSeen`, the rows, the phase of `serve`, and for every goroutine
that may call `SyncOnce` the next operation and its local `live`) and one action
per atomic operation of `Restore`, `SyncOnce`, `Run` and `serve`. Two modules
compose it with the writers of its source:

- `PushDashboard` adds the handlers. A handler's request is a mode, the set of
  ids that passed validation and the clock value it read; `Merge`, `SinkStore`,
  the steps of `SyncOnce` and `Ack` are separate steps, so handlers interleave
  with each other and with the run loop everywhere the code allows.
- `PullDashboard` adds an instance of `PullDriver`, whose `snap` is the
  recorder's source. `PullDriver` has the polls of `PollOnce` at startup and then one loop
  per endpoint; `MergeLatest` is `publish` up to the unlock, `StoreSnap` the swap.

`HistoryStore` is what a store promises about history, taken from the memory
store: `Save`, `Rollup` and `Prune` are atomic. `SqlStore` is the SQL store's
history tables under the recorder: a rollup is `LoadSamples`, `ExistingDays`,
`WriteBuckets`, `Prune`, each in its own query or transaction, and may be given
up, by an error or a crash, between any two. It implements `HistoryStore`.

`Migrations` is `sqlstore.Migrate` in several processes, statement by statement:
`Start`, `AppliedVersions`, `Begin`, `Execute`, `Commit`, `Migrated`, with `Refuse`
for a statement the database turns down and `Crash` for a kill at any moment.
`ImplicitCommit` says whether the database commits each schema change by itself.
`SqlRows` is what `Save` writes about the present (services with their order,
incidents with their events, error buckets) as a fold of the transaction over
the snapshot, and what `Load` makes of it. `Database` composes the two: only a
process that has migrated saves.

The page is one system written as a chain, each module extending the one above:

| Module | Code | What it holds |
|---|---|---|
| `Rules` | `internal/rules` | verdicts, staleness, trends, `Finalise`, every finding and every opportunity |
| `Query` | `internal/query`, `internal/model` | periods, standings, scope and role, ranks, ordering, filtering |
| `Reader` | `server/state.go`, `query`'s parameters | what a request may say, what of it is believed, links and hidden fields |
| `Demand` | `widget/demand.go` | who calls whom: charts of requestors, shares, the table |
| `Widgets` | `widget/builders.go` | board, columns, filter bar, chips, cards, headline, records |
| `Intake` | `mapping`, `transform`, `fieldpath` | a document as a tree of values, paths, chains, the services it becomes |
| `Settings` | `config/validate.go`, `layout` | the set `Problems(c)`; a deployment starts only if it is empty |
| `Bands` | `layout`, `server/handlers.go` | pages, sections, the drawer's tabs, what each region is made of |
| `Feeds` | `apimap`, `server/ingest.go`, `main.go`, `config/sources.yaml` | messages, what a push accepts and how it is laid over what is served, the example upstream, the mapping shipped for it, a dry run |
| `Page` | `server/handlers.go`, `app.js`, the templates | one browser tab and its server, as a state machine |

`Page`'s state is the accepted configuration, every snapshot served so far, the
address, for each region (page, findings, board, drawer) the request and the
snapshot it was drawn for, the cookie and the fragments under way. `Controls`
is the set of things a reader can use on what is *shown* (links, the selects'
forms, the filter form with one field changed), each with the request it makes
and the region it replaces. `Follow` and `Reload` load a page; `Ask` and
`Answer` are a fragment's request and its arrival; `ToggleTheme` and
`CloseDrawer` are what the script does by itself; `Poll` and `Push` bring a
snapshot. `PageProperties` states what a reader may expect.

```
PushDashboard --EXTENDS--> Recorder <--EXTENDS-- PullDashboard --INSTANCE--> PullDriver
SqlStore --INSTANCE (refines)--> HistoryStore
Database --EXTENDS--> Migrations, SqlRows
PageProperties --> Page --> Feeds --> Bands --> Settings --> Intake --> Widgets
               --> Demand --> Reader --> Query --> Rules          (each EXTENDS)
PushProofs, PullProofs, HistoryProofs, DatabaseProofs: the theorems of each system
BoardProofs --> ControlProofs --> PageProofs --> PageProperties   (each EXTENDS)
Induction: facts about the natural numbers the other proof modules cite
MC...: values of the constants for TLC
```

What the models abstract:

- A reading is a token: in the push model the number of the request that
  reported it, in the pull model the endpoint and a value. `rules.Finalise`
  changes what a reading shows, not which one it is.
- `GeneratedAt` is a counter that grows with every request or successful poll.
  Two readings of the clock never coincide; the code compares nanoseconds.
- There the order of services in a snapshot, and what is rendered from it, is left out.
- In the recorder's models a request refused with 401 or 400 changes nothing and is not an action; one
  whose records are all rejected is, with an empty set of ids.
- What a fetch does on the wire is its outcome. Delays are not timed: a loop
  that waits may wake at any moment.
- A sample is the moment of its observation; equal ones count once. A bucket is
  the upstream's or the samples it was folded from; the arithmetic of
  `RollupSamples` is not modelled.
- The recorder's models leave the history series out, `SqlStore` leaves the
  current readings out: in the code they meet only in `publish`, which splices.
- In the page's models text is a value whose label says where it sorts and
  which search words it contains; percentages are integers in hundredths;
  wording, number formats, chart geometry and timestamps are left out.
- The page's answer is computed and drawn in one step, in any order among the
  answers under way. One control makes one request; asking for the very same
  fragment twice before the first answer counts once. htmx is external: the
  element a fragment goes to is found when it is asked for.
- The drawer's head, which a pane's fragment does not redraw, is not compared.
  The browser's Back is not modelled. A page behaviour may both poll and push,
  although a deployment does one of them.

## 3. The runs

| Run | Instance | What it shows |
|---|---|---|
| `push` | 1 handler, 2 services, 2 requests, 1 restart at any step, failing store | every 200 is accounted for: the payload was handed to `Save`, is about to be, was overwritten by a later push, or was empty; readers and the first upsert after a restart see the stored rows; readers converge to the sink |
| `pull` | 2 endpoints, 2 services, 2 successful polls, 1 restart | nothing is saved twice, backoff and health agree, the page never blanks, what is polled is served and stored |
| `history` | 1 service, 3 days of 2 instants, observations up to a day late | the SQL store refines the memory store; sealed days are final; no sample is lost before its day is sealed; every past day is sealed |
| `store` | 2 processes of a build with 2 migrations, 1 kill, 2 saves of up to 2 services with up to 2 incidents | the ledger describes the schema, migrations go in order, whoever serves has its columns and everyone gets to serve; what is stored and loaded is what its last report named, in first-seen order |
| `page` | 2 accepted configurations of 4, 2 bookmarks, with and without scripts, 2 clicks, 1 arrival, 2 fragments under way | address, drawer and regions agree; controls do what they say and no more; ranks, chips and findings keep their promises; silence is not an outage or a zero; configuration does not dangle; push, poll and API agree |

What `page` checks, in the order of its configuration: `SwapMatchesAddress` (a
fragment drawn from the latest snapshot, whose address is the one in the bar,
is what that address shows), `DrawerMatchesAddress`, `ControlsDoOnlyWhatTheySay`
(asked of settled pages, where "the reader's state" is one thing),
`NarrowingCanBeUndone`, `RanksSurviveFiltering`, `ChipsKeepPromise`,
`CardsKeepPromise`, `SilenceIsNotAnOutage`, `AbsentNeverLeads`,
`NothingIsMadeUp`, `AcceptedNeverDangles`, `OpenRecordDrawn` (the requestor a
drawer shows is the bar its charts mark, whatever is left off the chart),
`AcceptedIsListed` (a push's accepted services can be found on a board, in
either mode; of two records of one id in an upsert, the later) and `FeedsAgree`
(a service survives the read API and a push, and the shipped mapping over the
example upstream, with the same verdict). Where the code makes an exception the
property names it: `MayChange` lists, control by control, every choice that is
lost besides the one picked, with the configuration under which it is;
`NarrowingCanBeUndone` excepts ids and the region of a board without a region
select; the properties about ranks say nothing of a snapshot that names a
service twice (`OneEach`).

Runs that find the code at odds with what it says (each is a finding in `PROJECT.json`):

| Run | The text | What happens |
|---|---|---|
| `push_ack` | `main.go:292`, `persist.go:273`: durable before the collector is told | the run loop has marked the snapshot as seen and not yet saved it; the handler skips it and answers |
| `push_upsert` | `ingest.go:154`: anything not mentioned keeps its last known state | the upsert is laid over a merged snapshot that trails the sink |
| `pull_order` | `pull.go:374`, `385`: merged, not replaced; not by who finishes last | the poll that merged first stores last |
| `pull_shutdown` | `persist.go:152`: a graceful shutdown does not discard the reading | the signal cancels the tick's `Save`, and the final `SyncOnce` thinks it succeeded |
| `empty_reports` | `sqlstore.go:232`, `277`: what disappeared upstream should disappear here | a report whose list of incidents or of errors is empty returns before the delete; the next restart loads and shows what an earlier one stored |
| `load_events` | `sqlstore.go:355`: `Load` reconstructs the last known state | it keeps the address of each incident while the slice still grows, so with two incidents the first one's events go to a copy nobody reads |
| `history_race` | `sqlstore.go:652`: a day already recorded is left alone | a push records the day between the rollup's reads and its write |

### Bounds

`MaxClock` bounds requests or successful polls, `MaxHalts` restarts, `MaxDay`
the horizon, `Lag` how late an observation may be; each is a guard of the
action it bounds. In `push` a handler and the run loop are two callers of
`SyncOnce`, enough to have a check, a mark, a save and a publish of two
different snapshots in any order; the theorems are for any number of handlers.
Two requests give one push over another, in each mode, with each subset
of two services. One restart covers every step at which the process can go
down, and all of a second life. In `history` day 0 expires, day 1 is sealed and
pruned in the middle, day 2 is filling; the store's loops treat each service
alone, so one service is enough for TLC, and the theorems are for any number.
In `store` two processes are a deploy of two replicas; a third adds no new
order of two transactions, since one writer excludes the others. The first file
has repeatable statements, the second the two columns and the index of
`0002_role.sql`, and one kill can fall between any two statements. Two saves
give one report over another, with every pair of lists, including the same
incident id under two services, which the key refuses.

In `page` the estate is five issuers (one silent, one service with an instance
in each of two states) and up to four requestors, one record without an id, one
document, and one REPLACE request with a service under maintenance, one without
figures, a new one and one of an undeclared category; `AcceptedIsListed` takes
that batch in both modes. Two of the four configurations are refused, each for
a reference that would dangle. The accepted two differ in the evaluation order,
the roles, the findings about demand, the default period and the header: the
second has a header with one select and a filter bar without the region select,
both of which validation accepts.
`ChartRows` is 1 so that a chart of two has one left off. One bookmark opens a
requestor over a narrowed board, with a region that the default scope ignores;
the other names a service that is gone, in a state and another language, with
every other parameter.
Two clicks from a bookmark give every control after every control, with an
arrival before, between or after, and two fragments under way overlap in either
order. Figures and configuration are properties of every state, so more clicks
only add narrowings of narrowings.

`CHECK_DEADLOCK` is off because a bounded clock, and a process that has gone
down for the last time, stop for good.

### Fairness

Every goroutine keeps running (weak fairness of boot, run loop, syncing, handler
steps and polls: a fetch has a timeout, so it ends). A ticker keeps one tick
pending and Go's `select` chooses at random among ready cases, so a pending
rollup tick (push) or sync tick (pull) is taken eventually even if the other
is always ready: strong fairness. Where the store may fail, strong fairness of
the operation says it does not fail for ever; without it nothing is promised.
A restart, a signal and a request are never forced to happen.

In `Database` each process's migration steps are weakly fair: kills are bounded,
a supervisor starts a process that is down again, and a transaction that waits
gets its turn when the writer's ends. `EventuallyReady` then says that a process
outrun by another, or killed half way, serves in the end. With `ImplicitCommit`
TRUE it fails (a kill between the ALTER and the ledger's row is repeated at
every start and refused), as `migrate.go:70` leads one to expect of MySQL; the
configuration checked is the transactional one. Nothing in `Page` is live: a
reader need not click and an answer may never come.

`EventuallyServed` holds in a push deployment only thanks to the rollup: a
stale publish leaves `lastSeen` at the newest generation, so no sync tick
repairs it, and the `Restore` at the end of `RollupOnce` does.

## 4. What is proved

For every number of handlers, endpoints, services, requests, restarts and every
length of day, from the assumptions the modules name:

- `PushProofs`: type correctness, `AckedAccountedFor`, `RestartServesStored`,
  `FirstUpsertKeepsStored`. The first needs that an upsert's result carries the
  request's own number, that `lastSeen` is always the generation of a snapshot
  some goroutine is about to save or has, and that a handler past its `SyncOnce`
  found its snapshot saved, in flight or replaced (`AckInv`). The other two need
  that until the first push nobody carries a snapshot of the sink and `Restore`
  carries the rows (`Unpushed`).
- `PullProofs`: type correctness, `SavedOnce`, `NeverBlanks`,
  `BackoffMatchesHealth` (a poll about to swap its snapshot in has cleared its
  error; the cap on the count is at least one, as the code's ten is). Saved
  generations never exceed the clock, and the only caller has `lastSeen` equal
  to what it saved last; as the driver may bring an older snapshot back, the invariant is
  about generations in the driver's hands, not about their order.
- `HistoryProofs`: type correctness; `SealedDayIsStable` with or without
  concurrent savers (only a rollup seals, and only one runs); and for a single
  caller `UpstreamKept`, `PruneKeepsUnrolled` for every retention, and
  that `SqlStore` implements `HistoryStore`. Where samples are kept for less
  than a day, `PruneKeepsUnrolled` says what may be lost: samples of the day on
  which the rollup began, and no others. The invariant `ReadIsCurrent` says
  that what a rollup has read is still what the tables hold, and that after the
  write every day up to yesterday that has a sample has a bucket.
- `DatabaseProofs`, migrations: `RecordedIsApplied`, `InOrder` and
  `ReadyHasSchema` for any processes, builds, files and kills, with either kind
  of commit (the first promises something only without implicit commit). The
  inductive invariant `LedgerInv` says of each process that what it takes for
  applied is recorded, that every file before the one it is at is among that,
  and that what it has run of its file is in the schema or in its own
  transaction, which holds nothing of another file. So a second process that
  began the same file, and finds its columns there, records it only if all of
  it is there.
- `DatabaseProofs`, rows: type correctness, `LastListStored`, `FirstSeenOrder`
  and `LoadedIsReported` for any services, incidents and reports. They speak of
  what the last report named; of what it left empty `StoredIsLastReport` speaks,
  and the code does not keep it (`empty_reports`). The inductive
  invariant `RowsInv` says of the tables what the transaction keeps true after
  each service it writes: places are distinct and positive (`Placed`), no
  incident is in two services' lists, and an incident's events are those of the
  save that last wrote its service's list (`Holds`). That a `Save` keeps it is a
  lemma about the transaction after k services, for every k.
- `PageProofs`: `DrawerMatchesAddress` for every configuration, estate, bookmark
  and number of clicks. The property is not inductive: one must know that
  without overlap at most one fragment is under way, that it was asked for with
  the drawer as it still is, and that a findings or board fragment leaves the
  drawer shut (`Tidy == Shaped /\ (~overlapped => OneAtATime /\ DrawerNamed)`).
  Where each control leads is a lemma per group of controls.
  `SilenceIsNotAnOutage` holds for every accepted configuration and either mode
  of a push: the first rule that holds exists and holds, validation keeps the
  partial bound on errors below the major one, and no snapshot is served with a
  service that was not finalised (`RuleAbiding`). `AcceptedNeverDangles` follows
  from `Problems(config) = {}` reference by reference. One theorem about pure
  functions: in the default scope no address puts a region into effect.
- `ControlProofs`: `TypeOK`, by the invariant `Requests`: every address, every
  fragment under way and every region's request is one the dashboard wrote,
  with no empty value in it, because every link and every form goes through
  `ParamsWith`, `HiddenExcept` and `ReadParams`. On top of it `SwapMatchesAddress`
  (the address a fragment pushes differs from its request only in what a
  region's bands do not read), `NarrowingCanBeUndone` and `ChipsKeepPromise`
  (a chip counts what its own filter, alone, lets through).
  `ControlsDoOnlyWhatTheySay` is proved for every control of a settled page. What
  a control writes it reads back (`LinkSays`, `FormSays`), what it does not write
  it carries (`LinkCarries`, `FormCarries`), and the parameters it touches are
  read for no other field than those it names (`Spares`); `OnlyTouched` joins the
  three, and there is a lemma per control. A fourth fact is an invariant of its
  own, `OpenIsServed`: the service a region was drawn for is in the snapshot it
  was drawn from, so that the bar's form, which names the open record, names the
  one in the address. It is a theorem too (`DrawnForWhatIsServed`), and rests on
  the handlers' not-found branches. The theorem has no hypothesis about the
  configuration: what a one-select header, a bar without a region select or a
  bar whose first region is a part of the scope loses is named in `MayChange`,
  and the proof shows that nothing else is (`Losable`, `UntouchedRegion`).
- `BoardProofs`: the sort is proved to be one. It inserts places one after the
  other, and for every list and comparison the result is a permutation
  (`SortPlaces`), for a total and transitive comparison it is in order
  (`SortSorts`), and whatever a comparison puts before everything outside a set
  comes first even if it is not transitive within (`SortSeparates`). From these:
  `OpenRecordDrawn`, `RanksSurviveFiltering` and `AbsentNeverLeads`. The last two,
  and the "once" of the first, except a snapshot that names a service twice.
  The exception is needed. A REPLACE push is served as it was sent, and of two
  records with one id `Ranks` keeps the place of the last: two rows would show
  one rank, and a chart would mark two bars.
  `AcceptedIsListed` goes the whole way of a service, for every configuration,
  snapshot, batch and mode: what the check of the vocabulary let through keeps
  its board and category when it is finalised (`FinalisedKeepsPlace`); the last
  of an id is on the list whatever is laid over it afterwards (`MergeHolds`); a
  reader asking for its scope and role is given the population it is in
  (`AskedBoard`, `PlacedOnBoard`), which offers its category (`CategoryHasChip`);
  and what the filter leaves, the board lists, in whatever order (`ListedHasRow`).
  `NothingIsMadeUp` goes the whole way of a figure, backwards: a cell that shows
  one belongs to a service that stands with a reading (`CellStands`); a mean is
  of days that have one (`StandingSaid`), a day has one only if its point has
  (`HistorySaid`, through the sort of the points), and no transform but `default`
  makes a number of what was none, however long the chain (`AfterSilence`,
  `RunSilence`). The invariant under it is `AsPolled`: a snapshot that names a
  document is what the mapping makes of that document. The hypothesis is
  `Undefaulted`: neither chain of availability holds a `default`, which is there
  to fill in what was not reported. `config/sources.yaml` uses it for the region
  and the scope alone.
  Of `FeedsAgree` the two parts about the API are theorems, of every snapshot and
  not the latest alone. `ApiTellsWhatIsServed` (`ReadsBack`): a served service
  decodes to what was encoded. It does only because no service is served with a
  value under an absent reading, a status outside the enum or a movement
  without a direction, which is the invariant `AsJudged`: everything served was
  `Observed`, through a mapping or a message, and its verdict and trends are the
  rules' of that observation (`Judged`). `ServedCanBePushedBack` (`PushesBack`):
  the verdict and trends, which are not sent, are derived again and are the same.
  It has the hypothesis that the services are ones a push accepts (`AllValid`),
  since a poll validates nothing; those of the run are.

What the page's theorems assume of the constants, and why the code justifies it:
`ReportsAssumption` and `ConfigsAssumption` (readings and thresholds are numbers
and what is sent, polled or configured comes in lists, as protobuf, JSON and
YAML decode it: records, a record's daily points and a chain of transforms too), `BoundsAssumption`, `BookmarksAssumption` (a reader arrives
with an address the dashboard wrote; §5 has one that it did not) and
`WordsAssumption` (an empty search box is no search: the form sends an empty
value, which `readParams` drops).

Induction here is over numbers, never over data. `Kept`, `Overlaid`, `Run`,
`Transaction` and `InOrderOf` are recursive functions of a count; what holds of
the first k is proved by the least k at which it fails (`Induction`'s `HasLeast`
and `UpTo`), which needs no theorem with an operator for a parameter.

Only model-checked:

- Liveness (`EventuallyServed`, `EventuallyDurable`, `EveryDaySealed`,
  `EventuallyReady`), which is out of the proof system's reach.
- `CardsKeepPromise`, whose findings are computed with `FoldLeft` and `SelectSeq`,
  which the prover cannot look into when they are handed an operator; and the
  third part of `FeedsAgree`, the poll of the example upstream, whose paths are
  followed with `FoldLeft` and whose documents are built with `@@`, which the
  prover does not expand.

## 5. Observations

Met while modelling, and not made into runs: either no text says otherwise, or
the effect is small.

- A page can show what no address reproduces (`leaderboard.html:9`). The filter
  form redraws the board alone, but its region also narrows the verdict and the
  findings; and links drawn elsewhere before a change still carry the old
  filters. TLC refutes "opening the address shows this page" in one change of
  the board's region select, or without it in two clicks: narrow the board, then
  switch the findings' tab.
- Switching the role drops status, category and search but keeps ids
  (`handlers.go:215`), so a board a finding narrowed by id turns up empty. The
  bar's own `query.Filter` leaves ids out (`builders.go:883`): the board then says
  that no filter is in effect and offers no link to clear it.
- `handlers.go:279` says the tab is carried in the form action's path; `Here`
  names only the service, so a change of period or language drops the tab.
- The bar's form leaves period and language out of its hidden fields whatever
  selects the header has (`handlers.go:287`). The comment above calls them "the
  two the bar renders as selects of its own"; `chrome.yaml` may list one, and
  then choosing it resets the other.
- With `showRegions` false no region select is built (`builders.go:858`) and the
  filter form's hidden fields leave the region out (`builders.go:894`): a region
  that came with the address narrows the board with nothing to show it, and is
  dropped by the next change of a filter.
- Raw samples may be kept for under a day (`validate.go:154`). Each prune then
  discards samples of the day that is still filling, where `store.go:47` promises
  that it discards samples already rolled up.
- Sorted ascending by downtime or availability, a board lists the services
  without a reading first: an absent reading sorts as -1 (`query.go:461`), where
  the comment above it says that ascending order puts "not reported" at the
  bottom (`query.go:458`).
- The hidden fields of the page's bar are not redrawn with a fragment
  (`handlers.go:249`): a period chosen after filtering undoes the filters.
- A volume that stays at zero is a trend "down" by nothing (`rules.go`).
- A mapping keeps two records of one id, and an id that contains a comma cannot
  be filtered for.
- A push accepts a service without a scope, or of a role nobody declared
  (`ingest.go:175`): no board lists it. `AcceptedIsListed` excepts both.
- The example upstream's documents carry neither roles nor calls, so requestors
  polled through the shipped mapping count as issuers; `FeedsAgree` compares
  what is measured. `config/sources.yaml` says an unmapped category surfaces as a
  validation error; a poll validates nothing.
- `readParams` drops the empty values of a repeated parameter and `readState`
  takes the first as it is: an address written by hand, `?scope=&scope=state`,
  is served in the default scope while its links carry `state` on. The dashboard
  writes no such address.
- A REPLACE push that names an id twice is served with both records. They share
  one rank and one record page; an upsert keeps the later one.
- The board's region select, with nothing chosen, sends its first option. It is
  the whole's in every shipped configuration; `validate.go:259` accepts another
  order, and then the first change of a filter narrows the board to a state.
- Validation accepts a layout with no page at "/", repeat sources that expansion
  ignores, and an evaluation order that starts with "operational"
  (`validate.go:381`), under which every service is operational.
- A message that falls back to the base locale is worded with the plural rule of
  the reader's locale (`i18n.go`).

## 6. Not modelled, and why

- Served history spliced in by `publish`, and upserts that echo it
  (`MergeHistory`): the recorder's and the store's models are checked
  separately; composed, the product of two goroutines' steps and a rollup's
  queries is past what a run can visit. The weights of a bucket
  (`RollupSamples`) are arithmetic on lists. Both are hazards with a note.
- `Truncate`, a test helper; dialect texts and drivers: statements, no state.
- The browser's Back and Forward, focus, announcements, scrolling, tooltips and
  the disclosure's toggle: the browser's and htmx's state, which the script
  hands over rather than keeps.
- Rendering, prose, number and plural formatting, chart geometry, theme colours
  and headers: wording and layout that nothing else reads.
- YAML parsing, flags, generated schemas, retention settings' ranges: syntax.
- The seed source: demonstration data; a recorder over it is a push deployment
  without pushes, and its figures are an estate like any other.
- The API console and description, health checks, accessibility tools, generated
  protobuf and the vendored htmx.

## 7. Running

```
tlc -workers 2 -config push.cfg MCPushDashboard.tla
tlc -workers 2 -config page.cfg MCPage.tla
tlapm PushProofs.tla
```

`PROJECT.json` pairs every run with its module and configuration, and every
checked property with a mutation of the model that breaks it (the `Mutant...`
definitions beside the originals).
