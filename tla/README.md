# CardForge in TLA+

CardForge is a self-hosted collection manager for Magic cards. These modules model its backend: the
background syncs and jobs, list refreshes and imports, the local mirror of card data, the dashboard cache,
the records that concurrent requests change, and the computations that tell the user what he owns, lacks
and has to pay. TLC checks the models on small instances, and TLAPS proves the central theorems for all
instances.

Paths are relative to `src/backend/app/` unless they start with `src/`.

## The system

| Process | What runs in it |
|---|---|
| API | one uvicorn process; endpoints are plain functions, each call in a thread of the pool with a database session of its own, but for the previews and the comparison, which are `async def` and run on the event loop beside the pool (`api/imports.py`, `api/list_imports.py`, `api/comparisons.py`) |
| worker | one RQ `SimpleWorker` that polls three queues in a fixed order and runs one job at a time, and a daemon thread that triggers syncs periodically (`workers/run_worker.py`) |
| Postgres | all durable state, READ COMMITTED; nothing in the code locks a row (`core/database.py`) |
| Redis | the RQ queues |

Processes share state only through Postgres and Redis. A request or job reads rows, decides in Python and
commits later; what it read can have changed by then. Sessions have `autoflush=False` and expire their
objects on commit, so an `UPDATE` of a row that is gone raises, a `DELETE` of one does not.

### Inventory

| Component | State | Operations | What is hard, and what must hold |
|---|---|---|---|
| Data syncs: Scryfall cards, MTGJSON prices, popular decks, EDHREC decks, precons, popular cubes | one status row each, the mirror rows, the queue | `trigger_sync`, `maybe_auto_trigger_sync`, `run_*` | triggers read, enqueue and mark in three steps; failures and kills at any of them. Rows change only by a finished fetch; CURRENT and FAILED are earned; a sync is not stuck without a cause |
| Worker and periodic thread | queues, the running job | dequeue, tick, restart | a kill loses the job; queue priority; the mirror stays fresh |
| Card lists: imports and refresh | list row, items, import records | preview, confirm, abort, `trigger_refresh`, `run_refresh`, sweep, delete | requests interleave with a refresh; hash comparison; confirmed rows are not lost, a refresh is all or nothing, stale lists are refreshed |
| Scryfall mirror, prices, resolution | `scryfall_cards`, `price_observations`, resolved printings | bulk sync, MTGJSON sync, set and clear manual price, resolve | the sync deletes what others point to; cascades; what the user set stays |
| Popular cubes: tracking | `popular_cubes` with the list each was imported to | `import_popular_cube`, discovery sync, scrape | the import reads a cache that two jobs change; identical names; a list is never shared, wrong or left behind |
| Popular cubes: scrape and bulk import | two rows with a cursor, counters and filters | triggers, `run_full_cube_scrape`, `run_full_cube_import` | cursors survive failures and restarts while the ids they point to are replaced; nothing is skipped or counted twice |
| Popular decks | `popular_decks`, `moxfield_commander_cache` | lookups of commander names, replacement of the rows, `price_popular_deck` | hours of paced lookups in a job that may die; a price computed for a row that is replaced meanwhile |
| Comparison, leverage, shopping list | none | `compare`, `compute_leverage`, the pages that ask | lines and lists share owned copies; what buying a card completes |
| Prices and budgets | `price_observations`, profiles | single and batch resolution, `apply_budget` | two implementations of one price; zero, negative and missing amounts |
| Price profiles | `price_profiles` | bootstrap, create, update, delete | one default, kept by separate statements of concurrent requests |
| Collections and their imports | collections, items, import records | default collection, create, preview, confirm, abort | one default; a double confirm, an abort beside a confirm |
| Dashboard | none | SQL aggregates, summary, exporter | the same figures as the engine, computed another way |
| Dashboard cache | module globals under a lock, an event | `get_dashboard_summary_cached`, `_refresh` | a minutes-long computation runs once; every waiter is woken |
| Parsers, adapters, SSRF guard, exports, settings, display names | none, or one row | pure or single-request | sequential |
| Frontend, scripts, migrations, deployment | | | outside the models |

Interactions: requests and the periodic thread enqueue jobs for the worker; jobs write the mirrors that
imports, resolution, comparisons and the dashboard read; deleting a mirror row or a list cascades to the
rows that point to it; a popular deck is priced with the profile the request names and a collection, the default
one unless it names another.

## Modules

    SyncContract  <== implements ==  SyncJob  <-- MCSync (with SyncKinds)
                                        ^-- SyncJob_proofs
    ListRefresh     <-- MCListRefresh
                    ^-- ListRefresh_proofs
    CardMirror      <-- MCCardMirror
                    ^-- CardMirror_proofs
    CubeImport      <-- MCCubeImport
                    ^-- CubeImport_proofs
    CubeJobs        <-- MCCubeJobs
                    ^-- CubeJobs_proofs
    DashboardCache  <-- MCDashboard
                    ^-- DashboardCache_proofs
    Comparison <- Pricing <- DashboardQueries <- Catalogue <-- MCCatalogue
                                                           ^-- Catalogue_proofs
    Requests <- PriceProfiles, Collections, PopularDecks <- UserRecords <-- MCUserRecords
                                                                ^-- UserRecords_proofs

An operator whose comment says *broken variant* is what a plausible mistake would make of the definition
after it. No specification uses them; each shows, put in its place, that a property notices.

### SyncContract, SyncJob, SyncKinds

`SyncContract` is what a reader of a mirror and of its status row may rely on, with no queue, worker or
caller in it: rows are replaced only while the sync is published as FETCHING, CURRENT comes with a
replacement, FAILED with none ("no fake success", `source_adapters/scryfall.py`).

`SyncJob` is the protocol the six syncs share. `status` and `rows` are the committed tables, `queue` the
three Redis lists, `caller[c]` an execution of `trigger_sync` between its three steps (`Check`, `Enqueue`,
`MarkFetching`), and `worker` the job with its uncommitted work. `CommitAll` is the single commit of five of
the syncs; `run_discovery_sync` commits source by source and has no catch-all (`CommitSource`,
`EndPerSource`, `RunEscapes`). `stranded` is history: which syncs have lost a job or were marked too late.
`SyncKinds` says what tells the six apart: sources, queue, whether an empty answer is an error, who triggers
them.

### ListRefresh

One list, the imports of it, the requests and the worker's refresh. `items[i]` counts how often the rows of
import `i` are in the list. The items a refresh's `DELETE` matched are kept apart from those at its commit
(`seen`), which is what READ COMMITTED makes of it. The sweep job goes through the same
`trigger_refresh` as a request. A preview the worker makes is there for the user too, who can confirm or abort it
while the refresh goes on. The worker is `elsewhere` while it runs jobs of the queue it polls first. `stranded`
and `last` are history.

### CardMirror

`scryfall_cards` and the rows that point to it: prices (`ON DELETE CASCADE`) and resolved printings
(`ON DELETE SET NULL`). The bulk sync is five steps: download, snapshot, delete, commit (or rollback).
Requests read in one step and write in another; they wait while the sync holds its locks. Currencies,
foils and how a name is matched are left out. A request that sets a manual price remembers the one it `read`:
if the two are equal the session has nothing to write (`KeepManual`), whatever another request has stored
meanwhile. `wish` and `raced` are history: what the user was last told, and whether it was in the gap between
snapshot and deletion, or acknowledged without being stored.

### CubeImport, CubeJobs

`CubeImport` is the import of a cube. `rows` is `popular_cubes` with the list each cube was imported to;
`lists` the lists, each with its name and the cube whose cards are in it. An import (`importer[a]`) decides
from what it reads (`Begin`), then adopts, or discards an empty list and creates its own, fills it and
tracks it, or cleans up and records the error, one commit each. A sync gives every cube a new row id, so a
running import loses its row (`lost`); the assertions in the code that say this cannot happen then raise. A list
that is already gone when it is to be discarded is only a warning. `left` and `dropped` are history: which lists were abandoned, which cubes a sync removed.

`CubeJobs` is what lies around it: the scrape with its page cursor (`pageKey`), the bulk import with its id
cursor, counter and filters (`tally`), their RUNNING rows, the queue, failures, kills, new triggers, and the
discovery sync that replaces the ids the import's cursor points to. `fact` is the data of the cached cubes: the
upsert of a page and the sync store what the site reports by then, one of `Catalogues`, and the upsert leaves a
cube that was there its id. Candidates are ranked and filtered by it. One cube's import is one step there.
`visited`, `unscoped`, `dropped` and `orphaned` are history.

### DashboardCache

Threads around `_lock` and `_first_computed_event` in `metrics/dashboard_cache.py`. Each action is one
stretch under the lock, or a step outside it; in particular storing the result and setting the event are
two steps. A summary is the version of the data it shows.

### Comparison, Pricing, DashboardQueries, Catalogue

The first three are operators: a row is a name with the oracle id and the printing it was resolved to, a
query is a function of the tables. `Comparison` follows `comparison/engine.py` and `leverage.py` and the
service that feeds them; `Pricing` the two ways of finding a price, `pricing/budget.py`, the pages of a list
and of the shopping list, and the price of a popular deck; `DashboardQueries` the SQL of
`metrics/dashboard_service.py` with every `GROUP BY` as a bag, and the exporter's choice of lists. Percentages are
exact fractions rounded to hundredths, ties to even; the code rounds floats, which can differ by a hundredth where
a float misses a tie. Both sides of every comparison here round alike.

`Catalogue` is the state machine under them: the tables fill row by row, by imports and price syncs, and in
every state all pages may be asked. Its properties compare what the implementations answer with each other
and with declarative definitions (`Serves`, `Exact`, `Delivers`, `WellSpent`).

### Requests, PriceProfiles, Collections, PopularDecks, UserRecords

`Requests` is the transaction discipline: what a request has read stays as it was, its writes appear with
one commit, a vanished row or a taken unique key fails it. `PriceProfiles` and `Collections` have one action
per statement that others can get in between. `PopularDecks` is the part of the deck sync that `SyncJob`
leaves out: names looked up one by one, `pending` in the session and committed in batches, rows replaced in
one commit with new ids, and prices written on rows that may be gone; `answers` counts lookups. `UserRecords` composes
the three over one set of requests.

## Runs

| Run | Instance | Shows |
|---|---|---|
| `sync` | 2 requests; the EDHREC and the popular-deck sync (both commit styles), queue length 2, 1 fault | type invariant; a running job is published; FETCHING without a job only after a lost job or a late trigger; the refinement of `SyncContract` |
| `sync_periodic` | API start-up and the periodic thread; the Scryfall and MTGJSON syncs, 1 fault | stale rows are refreshed in the end, or the sync is stranded |
| `list_refresh` | 1 request and the worker, 2 remote contents, 1 upload, 3 imports, 1 fault | a refresh is all or nothing; the rows confirmed last are shown; stuck FETCHING has a cause; an import enters at most once for each request and the worker; a stale list is refreshed in the end, unless the first queue keeps the worker |
| `mirror` | 1 printing, 2 prices, 2 items that name it, 2 requests | keys hold, manual prices survive, MTGJSON prices survive |
| `mirror_null` | the same | *violated*: a null resolution means that nothing matched |
| `cube` | 2 cubes of one name, 1 request and the bulk import, 3 lists | an imported cube leads to a filled list of its own; no list is deleted under another cube; lists are left behind only by a crash, an uncaught exception, a sync or a double import |
| `cube_jobs` | 3 cubes on 3 pages, 2 catalogues (a cube grows, gets a description and is overtaken), 2 filters, 5 row ids, 1 fault | each candidate is counted once, unless its data made it one behind the cursor; pages behind the cursor are cached; RUNNING without a job has a cause; runs end |
| `cube_resume` | the same | *violated*: an import that was killed resumes |
| `cache` | a scrape, 2 page loads, 2 refresh threads, 2 changes of the data | one computation at a time, a woken request finds a result, never an older summary, every request answered, stale summaries replaced |
| `algorithms` | 2 lists, 5 kinds of owned and 6 of required rows (two printings of a card, a card without a printing, a basic land, two spellings of an unknown card), 6 prices, 3 profiles, budgets -1, 0 and 5; up to 4 rows in all tables | the comparison is exact; a purchase delivers what the ranking promises; the dashboard, precons and exporter agree with the engine; all prices of a card agree; a budget buys the most |
| `records` | 2 requests; 3 profile names and 4 profiles ever; 2 collections, a file with and one without bad rows, 2 imports; 2 decks, 2 commanders, batches of 2, 2 syncs, 1 fault | defaults stay few and are repaired; an import enters once per request that races; a commander is paid for once; decks show their own prices and keep their names |
| `profile_default` | 2 requests, 2 profiles | *violated*: whoever needs a default profile gets one |

**Why the bounds are enough.** The races are between two parties: two callers, a caller and the worker, two
imports of the same or of a same-named cube, two requests that each make another profile the default. Two
requests, or one and the worker, give every pairing; a queue of two gives a duplicate job behind the running
one; one fault is enough to hit any step, and the invariants that survive it were proved for any number
where there is a proof (see below). Three imports of a list let a confirmed import, a preview and a refresh
meet; the third list in `cube` lets a stray list, the list of one cube and that of its namesake exist
together; three pages and three cubes give a cursor a place before, at and behind a cube, and five ids let
a sync replace them once. The mirror needs one printing because no operation relates two. Four rows let two
lists compete for one owned card and still leave room for a price or a second printing; with
`LeverageSize` and `SeriesLimit` at 1 the cut-off is reached. Four profiles are two defaults made by a race
and the two that follow.

`MCUserRecords` keeps the three parts of `UserRecords` apart (`Apart`, `MCSpec`): they share nothing but the
profile and the collection a price is asked with, so a behaviour is long in one part only, imports come
after at most one profile, and the decks after the default profile and collection and beside nothing else.
Symmetry is used in runs without liveness only, over values the modules never tell apart.

Deadlock checking is on where the system cannot stop. It is off in the sync, list and cube-job runs (a row
left FETCHING or RUNNING, or a deleted list, leaves nothing to do) and where the bound on the tables ends a
behaviour (`algorithms`, `records`).

### Where the code departs from what it says

* `mirror_null`: every bulk sync sets every resolved printing to null, although the same printings come
  back, and nothing resolves them again but a user's request.
* `cube_resume`: the docstrings promise that a restart resumes the bulk import. RQ does not run a killed job
  again, nothing resets RUNNING, and every trigger is refused while it is there.
* `profile_default`: the default profile is created under the name "Default", which is unique; if another
  profile carries that name, everything that needs the default profile fails.

### Known behaviour without a run of its own

* `trigger_sync`'s claim that FETCHING "closes the race where two requests both enqueue a job"
  (`services/scryfall_service.py`) does not hold: two callers at `checked` both enqueue. `RunningIsFetching` and
  the refinement hold all the same, so the duplicate does no harm beyond the work.
* A sync left FETCHING by a kill refuses the periodic thread too, so "keep the mirror fresh" ends there;
  `StaleIsRefreshed` excepts stranded syncs.
* `run_refresh` compares a source with *every* confirmed import, not with the last one, as its comment has it: a
  source that goes from A to B and back to A leaves the list with B, published CURRENT.
* Two confirms of one import, of a list or of a collection, that both read it as previewed both enter its
  rows; so does the confirm of a list's import that a refresh has just made. `ImportEntersOnce`, of either module,
  bounds it by the requests (and the worker) that can be at it together.
* A manual price that equals the one the request read is acknowledged without a write; if another request has
  replaced it in between, the other price stays (`raced`).
* A scrape rewrites the data of cubes that keep their ids. One whose id is behind the bulk import's cursor can
  become a candidate that way, by its own new data or because it overtakes another, and is not imported until
  the filter begins anew (`unscoped` in `EachCandidateOnce`).
* A sync that drops a cube makes its filled list available to a cube of the same name (`dropped` in
  `TrackedIsItsOwn`). An import recorded between the snapshot and the deletion of a sync is forgotten by it. A
  list left behind under a disambiguated name blocks every later import of its cube, because `create_list` runs
  into the unique name.
* A deck sync whose lookups raise shows no commander at all, not even those in its cache, until the next sync.
  A database error in the lookups is treated as a warning too, but without a rollback: the next statement of
  the session raises outside every handler and the sync is stranded in FETCHING (`RunEscapes`).
* Two default collections, once a race has made them, stay: no operation unsets one.
* In printing mode `compute_leverage` names candidates without a known printing too, and counts lists as
  completed by their purchase. No purchase completes them, because the comparison matches such a row with nothing
  that is owned; `PurchaseDelivers` is about the candidates that have a printing. The comment that the pooled shortfall is a "sum of per-list
  shortfalls" is inexact: lists share the owned copies.
* The price of a popular deck counts its sideboard and maybeboard, that of a saved list does not.

## Fairness

* `SyncJob.FairSpec`: weak fairness of the worker (RQ's loop takes a job when there is one, and Docker
  restarts the process: `restart: unless-stopped`), weak fairness of a tick that has begun, and strong
  fairness of the periodic thread's check of each of its syncs, since it comes back every interval for as
  long as the process lives and a check can be refused in between. Nothing is assumed of requests or of
  the environment. `StaleIsRefreshed` is about the queue polled first: jobs on it can starve the others.
* `ListRefresh.FairSpec`: weak fairness of the steps of a job the worker has taken and of the sweep tick, and
  strong fairness of `Dequeue`. `run_worker.py` polls "default" before "refresh", so the worker looks at the second
  queue only when it finds the first one empty, again and again perhaps, and leaves it in between (`ServeDefault`).
  That it ever finds it empty is not assumed: `StaleIsSwept` excepts a worker that is kept `elsewhere` for ever.
  Requests promise nothing.
* `CubeJobs.FairSpec`: weak fairness of the worker's steps. No trigger is promised.
* `DashboardCache.FairSpec`: weak fairness of every thread that has begun (the computation ends with a
  result or an exception) and of the Prometheus scrape's next request, which its scrape interval provides.
  It is what keeps the summary warm.

## Proofs

TLAPS checks these for every value of the constants; assumptions are the named `ASSUME`s of the modules
(disjoint actors, finitely many of them, sources of different syncs are disjoint, bounds are naturals, an id for
every cube, some catalogue to report).

`SyncJob_proofs`
* `TypeCorrect`, `RunningCorrect`, `CallerCorrect`, `FetchingCorrect`: the type invariant, and that FETCHING
  is published and owned. `FetchingIsOwned` is not inductive: when a trigger writes FETCHING, something must
  say that its job still exists. That is `CallerIsOwned`, which in turn needs to know that a run that ends
  marks every enqueued caller of its sync as overtaken. Their conjunction is inductive. Each part has a
  lemma of its own with one step per action.
* `Implements`: `Spec => Contract!Spec`. The refinement mapping computes the contract's `replaced` from the
  worker's progress: the sources of a running per-source sync that are neither to do nor failed. Every
  action maps to one contract action or to a stutter; that a run publishes under FETCHING comes from
  `RunningIsFetching`, and that a fetch belongs to the sync that runs from the type invariant.

`DashboardCache_proofs`
* `TypeCorrect`, `OneRefreshCorrect`, `WakeupCorrect`, `WokenCorrect`, `NeverOlderCorrect`. The inductive
  invariant adds `Ordered` (what is cached is no newer than what is being computed, nor than the data) and
  `Outcomes` (a thread that stored has left a summary, a thread that raised has recorded a failure). The action
  property `NeverOlder` follows from `Ordered` at the one step that stores.

`ListRefresh_proofs`
* `TypeCorrect`, `FetchingOwned`, `LastConfirmedShown`, `ImportsEnterOnce`, `RefreshWhole`. The invariant says what of
  the things read before is still true when they are used: the import a request or the worker holds is there
  (`HoldsImport`), the items a deletion has matched are still in the list when it commits (`SeenIsThere`, hence
  the commit adds its rows to a natural number), and a trigger about to write FETCHING has a refresh behind it
  unless one has ended since (`CallerIsOwned`). Steps of one kind share a lemma: ends of a refresh
  (`EndingInv`), steps on the imports (`ImportStepsInv`), moves of the worker (`WorkerMovesInv`).
* For `ImportsEnterOnce`, `HaveRoom`: the times the rows of an import are in the list and the actors that may still
  enter them are together at most the actors there are. Who enters gives up his place (`EnteredRoom`), who takes an
  import up finds it previewed and so not entered by anyone who is done (`TakenUpRoom`), and other steps leave both
  alone (`RoomKept`). `StepsWhole` goes through every step of a refresh: none but the commit that publishes it
  changes the items.

`CardMirror_proofs`
* `TypeCorrect`, `KeysAlwaysHold`, `ManualPricesStay`, `MtgjsonPricesStay`. What a bulk sync will insert again
  must stay true of the tables while requests write. `Preserved` says so of the snapshot: MTGJSON's rows are
  those of the table, and for a printing that was not `raced` the manual price is the one last acknowledged. `RowsRead` says that the row a request is about to update is there while it is believed to be.

`CubeImport_proofs`
* `TypeCorrect`, `TrackedStaysItsOwn`, `NoneLeftBehind`, `OnlyOwnDeleted`. The argument goes through the names.
  Two importers that have not lost their row and go by the same name import the same cube (`NamesApart`), for
  the second one would have found the first one's cube in the cache and taken a disambiguated name. What an
  importer holds goes by its name (`HeldRight`), a list by the name of the cube whose cards are in it
  (`ListsRight`), and the lists of a sync's snapshot stay right as long as they exist (`KeptRight`), since an id is
  not reused and only the importer that made a list fills it (`MakersApart`).

`CubeJobs_proofs`
* `TypeCorrect`, `CandidatesOnce`, `PagesCached`, `RunningOwned`. For the import, `WalkIsCurrent`: what is left of the
  walk is what the query would answer now from the cursor on, since no row is inserted, replaced or rewritten while
  an import runs; taking the first id off it and moving the cursor there gives the same set (`WalkGoesOn`). Between
  runs, rows that come have ids above every cursor and can only lower the rank of a cube already there: a candidate
  behind the cursor was one before, or was reappraised, its own data rewritten or another one's that had been liked
  more (`CandidatesShrink`). Both reasons are needed, and those cubes are the ones `unscoped` records. For the scrape, `Walked`: the pages before
  the one at work are cached or recorded as dropped. `IdsSuffice` keeps an id for every cube that has none.

`UserRecords_proofs`
* `DefaultsFew`. That there are at most as many default profiles as requests is not inductive: what a request
  will clear was read earlier. `RoomForDefaults` is: for every set of requests about to make a profile the
  default, the defaults that none of them will clear, plus the requests of the set, are at most the requests
  there are. When such a request writes, apply it to the set with that request added. The same idea, simpler,
  for collections is `RoomForFounders`.
* `DecksShown`. `NamesAreKept`: a name is only shown for a commander that the cache keeps.
* `NamesPaidOnce`. The answers the lookup service has given are at most the names cached or pending, plus one
  batch for each fault: a fault loses what is pending, which is less than a batch, and nothing else loses a name.
* `TypeCorrect`, with `NamesUnique` and the well-founded argument that the last confirmed import exists
  (`MaxIsOne`).
* `ImportsEnterOnce`. `RowsHaveRoom`: the times a row has entered and the requests still confirming its import
  are together at most the requests there are, and no row has entered of an import that is still a preview.

The module needs that requests are finitely many and that None is no number, no truth value and no name.

`Catalogue_proofs`
* `ComparisonExact`, `PurchasesDeliver`, `BudgetWorks`, `DashboardAgreement`, `CostsAgreement`. Four are facts about
  folds over the rows, true in every state of the right type (`TypeCorrect`). The last needs one more invariant:
  two observations of a card, provider and market would leave it open which price a query meets first, and
  `OneQuoteAlways` says that a price recorded again replaces the one before.
* Induction. The library's induction theorems take an operator as a parameter and cannot be instantiated with a
  formula. They can when hypothesis and conclusion are operators too: `SequenceInduction` is `Extending(P, T) =>
  OfAll(P, T)`, and `FoldSteps` says of any step function what its fold does on `<<>>` and on `Append(s, x)`. Both
  rest on `Folding`: the community module's fold picks the largest index first, and its recursive function exists
  because the index sets are finite intervals. `SubsetInduction` and `FoldSetDef` do the same for finite sets, so
  that a sum over keys is independent of their order (`SumAnyOrder`) and changes with one term (`SumChange`).
* The comparison: after any prefix of the lines, what a key has lost to them is the smaller of its demand so far
  and its supply (`TakesInOrder`), whatever lines share it. Hence the shortfall reported for a key is its demand
  less its supply (`LackingIsExact`, `ShortIsExact`) and nothing is missing exactly when no demand exceeds the
  supply (`NothingMissing`). `PoolServes` ties keys to the declarative `Serves`.
* Purchases: buying n copies of a key that no list wants more of than is owned plus n takes exactly that key out
  of every shortfall (`PurchaseCompletes`) and covers as many copies as were short (`PurchaseGains`). The quantity a
  candidate names is the shortfall of all lists together, at least that of each (`EachWantsLess`).
* Budgets: `CheapestFirst` is sorted and holds the same lines (`Bought`, by `InOrderSorts`: insertion sorts whatever
  order it is given); while the lines are bought in that order, the first line that is not bought whole leaves
  less than its price, and so than every later price.
* The dashboard: a bag of required keys is the pool of the rows (`RequiredIsPool`), and what keys lack and have adds
  up to what lines lack and have (`KeysAddUp`); so coverage and buildability agree (`BuiltAgrees`), and so do the
  candidates with their quantities, unlocks and gains (`FiguresAgree`). `BetterOrders` and `TopIsBest` say that the
  candidates shown and the lists exported are the best ones, ties included.
* Costs: in a batch and alone, the first provider of the profile that quotes a printing settles its price, and a
  card costs what the cheapest of its printings costs (`SettledIsResolved`, `BatchPriceIsPrice`). Lines of one key
  have one price (`KeyPriceIsPrice`), so the cost by keys is the cost by lines (`CostByKey`, `CostOfList`).

These need what `CatalogueAssumption` says of the inputs: lists are finitely many; quantities are positive and
prices natural; names have a rank in the collation; a row with a printing has an oracle id, and a price is of a
printing in the mirror; the priorities of a profile are a sequence; the limits are naturals; None is no row,
budget or profile.

Model-checked only: liveness (fairness and ENABLED are beyond TLAPS). Every invariant and action property of a
passing run is a theorem.

## Not modelled

* File parsers, source adapters, exports, SSRF guard, settings and display names: sequential text and HTTP code
  without shared state. The models start from a parsed result or a failed fetch.
* The frontend is taken as requests in any order. Scripts, migrations and deployment are configuration,
  or run once by hand; the constraints and cascades in force are part of the models of the tables.
* Of the modelled parts: name matching in the resolution, renaming of lists, lists a user makes under the name of a
  cube, cubes a scrape renames, the filters of the deck and
  cube listings and the live Archidekt search, the plain counters of the dashboard, RQ's worker registry.

