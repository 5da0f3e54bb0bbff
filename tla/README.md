# Verification of zakupki-search

TLA+ models of zakupki-search, TLC configurations that check them on small instances, and TLAPS
proofs for every instance. Paths below are relative to the repository root; `src` in `PROJECT.json`
stands for that root.

zakupki-search stores named search configurations ("searchers") for zakupki.gov.ru (EIS), and on
request walks the EIS result pages of one of them in the background, handing each page to
zakupki-core, where the catalogue of found notices lives.

## 1. The system

| Part | Code | State | Operations |
|---|---|---|---|
| Profile store | `internal/db/search_profiles.go`, `migrations/` | table `search_profiles` | create, get, list, update, set auto_ai, touch last_run_at, delete; one SQL statement each |
| Searcher and profile handlers | `internal/httpapi/searchers.go`, `profiles.go` | none between requests; a PUT holds the row it read | POST, PUT, DELETE, PUT auto-ai, GETs |
| Run handler and crawl | `internal/httpapi/searchers.go` | `Server.runs` (a `sync.Map`), one goroutine per crawl with a snapshot of the searcher | `POST .../run`, `crawlSearcher` |
| EIS fetcher | `internal/eissearch/fetch.go` | `seen`, `page`, `pages`, `total` of one call | `FetchPages`, `getRetry`, `parseHits` |
| Core client | `internal/coreclient/client.go` | none | `EnsureCategory`, `SyncSearchConfig`, reads |
| Core catalogue | `deploy/core/0001-search-config-sync.patch` | table `categories`, links to tenders | ensure category, sync |
| Users and sessions | `internal/httpapi/auth.go`, `internal/db/sessions.go`, `users.go` | tables `users`, `sessions` | login, logout, authentication, clean-up at start |
| Start-up, migrations | `cmd/search/main.go`, `internal/db/db.go` | table `schema_migrations` | connect, migrate, serve, stop |
| Configuration codec | `internal/models/*.go` | none | decode (legacy keys too), encode, EIS query |

How they interact. Every HTTP request runs in a goroutine of its own; they meet in PostgreSQL, in
`Server.runs` and in the core. A PUT is SELECT, decode the body, merge, UPDATE of every column. A
run is SELECT, UPDATE of last_run_at, EnsureCategory, `LoadOrStore`, `go crawlSearcher`. The crawl
outlives its request; each page it reads goes to the core in a call that may fail, be cut short,
or succeed without the caller learning of it. Stopping the process loses requests, crawls and
`Server.runs` and nothing else.

What is hard, and what makes each part correct:

* **Profile store, handlers.** Overlapping requests act on stale copies. Correct: names of one
  user's searchers stay distinct; `config_version` names one configuration for ever, because the
  core compares versions instead of filters; a deleted row is never written again.
* **Run handler, crawl.** Claim, crawl, release race with other runs, PUT, DELETE, failures and
  restarts. Correct: at most one crawl of a searcher at a time, `Server.runs` says which, every
  entry goes away again; what is synced under a version belongs to that version's filters.
* **Fetcher.** The listing moves while it is read; pages fail. Correct: each notice is handed over
  once, the walk ends, and what was listed at the start has been seen if nothing was withdrawn or
  moved.
* **Core client and catalogue.** Calls take partial or unknown effect; inside the core, no
  transaction spans two statements, and a call the service has given up on goes on next to the
  following ones. Correct: a crawl has a category, a sync that answers ok left all its hits, a
  version is recorded only with them, and none the searcher has not reached.
* **Users and sessions.** The expiry is computed with one clock and compared with another; expired
  rows stay until the next start; a statement that fails may have taken effect. Correct: whoever
  gets past `requireAuth` has a session that is good at that moment, and a session lasts until its
  limit or its own logout.
* **Start-up, migrations.** Processes that start together decide file by file on what they saw a
  while ago, and stop or lose the database anywhere. Correct: `schema_migrations` tells the truth,
  nobody serves over a schema that lacks one of its files, and no state left behind keeps a process
  from starting.
* **Codec.** Every PUT decodes the row and encodes it again, and `config_version` compares JSON.
  Correct: the query to the EIS is what the document said, for ever, and PUTs that do not touch the
  configuration settle on one JSON and so on one version.

`PROJECT.json` lists, under `hazards`, each place in the code where one of these bites, with the
properties that are about it.

## 2. Modules

| Module | Models | Remarks |
|---|---|---|
| `ProfileStore` | the table and its statements | one action per statement; row = name, description, configuration, auto_ai, last_run_at (a flag), config_version |
| `CoreCatalog` | the two core calls that change state | `ok` is what the caller sees; a failed call may have had none, part or all of its effect |
| `ProfileApi` | handlers of both APIs | EXTENDS `ProfileStore`, instantiates `CoreCatalog`; `req[q]` is what a request holds between its statements |
| `CrawlRuns` | run handler, crawl, `Server.runs`, restart | EXTENDS `ProfileApi`; `job[r]` is a run handler and then its goroutine, `runs` the `sync.Map` |
| `CrawlLock` | abstract: one crawl per searcher, each ends | refined by `CrawlRuns` |
| `FetchPages` | one call of `FetchPages` over a moving listing | `seen`, `page`, `pages`, `total` as in the function |
| `PageFeed` | abstract: new numbers in pieces, none twice, then a return | refined by `FetchPages`; the way `CrawlRuns!CrawlPage` sees the fetcher |
| `CoreSync` | the same two calls inside the core, one action per SQL statement | any number of calls at a time, each statement failing with or without its effect; refines `CoreCatalog` |
| `Sessions` | login, `requireAuth`, logout, the clean-up at start | table `sessions`, a request between its statements, the database clock and the service's distance from it |
| `SessionBook` | abstract: a login opens one session, its time or its own logout ends it | refined by `Sessions`; what those who hold tokens see |
| `Migrations` | `Store.Migrate` by several processes and images | one action per statement; what two transactions do to each other is PostgreSQL's part, marked external |
| `Schema` | abstract: files take effect once each and in order, and a process serves over all its own | refined by `Migrations` |
| `SearcherConfig` | decode, encode and query of a configuration | operators only; a JSON object is a function on its keys |
| `ConfigRow` | `eis_config` of one row as JSON under PUTs | EXTENDS `SearcherConfig`; refines the UPDATE of `ProfileStore` |
| `MC...` (seven modules) | constants for TLC | no definitions of behaviour |
| `CrawlRunsProofs`, `VersionProofs`, `ServiceProofs`, `FetchProofs`, `CoreSyncProofs`, `SessionsProofs`, `MigrationsProofs`, `ConfigRowProofs` | theorems | section 5 |

The composition has two levels. `CrawlRuns` is the running service: handlers, crawls and restarts
over `ProfileStore` and `CoreCatalog`. What it takes from its surroundings is stated by three
abstract modules, and a detailed one implements each: `PageFeed` (`FetchPages`), `CoreCatalog`
(`CoreSync`), the UPDATE of `ProfileStore` (`ConfigRow`). What it promises is `CrawlLock`. The parts
beside it promise `SessionBook` to those who log in (`Sessions`) and `Schema` to the process that
serves (`Migrations`).

State and code, the choices that matter:

* **Configurations** are values of `Filters`. The column holds JSON, and `config_version` is raised
  by comparing JSON, so a stored configuration is a value and a *form*: `canonical`, as
  `json.Marshal` writes it, or `legacy`, as the row of `001_init.sql` is written. Reading gives the
  value; writing always gives the canonical form.
* **A PUT** is `BeginUpdate` (the SELECT) and `CommitUpdate` or `AbandonUpdate`. Handlers read the
  row before they decode the body, so the two can be arbitrarily far apart.
* **A run** is `ReadProfile`, `TouchRun`, `EnsureRun` or `RefuseRun`, then `ClaimRun` or `JoinRun`.
  `LoadOrStore` is one step. `Runs` are slots that are used again, so "two runs" means two at a
  time, any number in sequence.
* **The path's spelling of an id.** `Paths` are spellings and `IdOf` is what PostgreSQL reads in
  them. The code stores into `Server.runs` under the spelling and deletes under the id; the model
  keeps that difference.
* **Sync.** The core handles a sync statement by statement with no transaction, hence `SyncCut`
  (any part of the hits) and `SyncApplied` with or without the version, the answer arriving or not.
* **Restart** may happen at any time and wipes `req`, `job` and `runs`. Whether CORE_URL is set
  (`coreEnabled`) is a matter of the process and may change with it.
* **The listing** changes between pages by `Publish`, `Update` (an entry moves to the top) and
  `Withdraw`; it is sorted newest first, as the default sort is. A page without entries that comes
  with status 200 is `ReadBlockedPage`. The history variable `quiet` says that so far the site only
  published, fewer notices between two pages than a page holds.
* **A failing statement** of the core or of the table `sessions` may have taken effect: the
  connection can be lost between the commit and the reply.
* **Calls of the core** come from anywhere: `CoreSync` does not rely on the service's sending one
  sync of a searcher at a time. `Leave` is the caller that is gone, the lost answer and the stop of
  the core. The two UPDATEs whose error the patch drops (`Rename`, `RecordVersion`) go on either
  way. A slug is a value `SlugOf` gives to each id, so that two ids may share one.
* **Sessions.** A token stands for itself and its hash. `Drifts` is how far the service's clock may
  be from the database's, and `TTLs` contains what `SESSION_TTL_HOURS` may hold, zero and below
  included. Whether a request is a logout is decided when it passes `requireAuth`. The history
  variables `issued`, `handed` and `out` remember what logins promised and logouts deleted.
* **Migrations.** A file is of one of three kinds, by how its statements behave when another
  process has run them or is running them; `Images` says how many files the image of a process
  has. The history variable `times` counts effects.
* **Configuration keys.** One field of each kind stands for the others like it: a flag on by
  default, a flag off by default, a text, a text that may be null, the fields with older spellings
  or a default of their own. `records_per_page` may be a number or a string, a negative one too.

A definition that directly precedes one of the code's definitions and whose comment calls it a
*mutant* is the same definition with a plausible mistake in it. No specification uses mutants;
each property is known to fail when one of them takes the place of the original, and `PROJECT.json`
says which for which.

## 3. Runs that pass

| Configuration | Question | Properties |
|---|---|---|
| `ProfileApi.cfg` | two overlapping POST/PUT requests, DELETE, auto-ai; two users, two ids, two names | `NamesUnique`, `VersionPinsFilters`, `DeletedStaysDeleted` |
| `CrawlRuns.cfg` | two runs and two PUTs of one searcher, DELETE, core calls that fail or are cut, restarts with and without a core | `TypeOK`, `OneCrawlPerSearcher`, `RunsMapMatchesCrawls`, `CrawlHasCategory`, `AcceptedRunRecorded`, `VersionPinsCrawls`, `SyncedNotAhead` |
| `CrawlEnds.cfg` | does this implement `CrawlLock`, and does everything end, whatever PUT, DELETE and restarts do? | `ImplementsCrawlLock`, `KeysReleased`, `RunsAnswered`, `DeletedGoesQuiet`, `DeletedRunsDown` |
| `CoreSync.cfg` | three calls at a time, ensure or sync, of one searcher, each statement failing or not | `TypeOK`, `EnsuredHasCategory`, `AnsweredSyncIsComplete`, `ImplementsCatalog` |
| `Sessions.cfg` | two requests at a time, logins, logouts and others, of two users, with expiry, restarts and failing statements | `TypeOK`, `IssuedStaysValid`, `LoggedOutStaysOut`, `OnlyLiveSessionsAct`, `ImplementsSessionBook` |
| `Migrations.cfg` | three processes, of this image or the one before, start over an empty database | `TypeOK`, `RecordedExactlyOnce`, `ServesMigrated`, `RestartsLeadToServing`, `ImplementsSchema`, `StartsConverge` |
| `ConfigRow.cfg` | PUTs with and without a configuration, over the row of `001_init.sql` | `TypeOK`, `AsksAsTold`, `ReadsAsWritten`, `RewriteSettles`, `ImplementsStore` |
| `FetchDrift.cfg` | one walk over a moving, failing, blocking site | `TypeOK`, `FoundCountIsDistinct`, `DoneCoversListing`, `ImplementsPageFeed`, `GetsRunOut` |

Bounds, and why they are enough:

* `MaxVersion = 2`: no write raises `config_version` further. A violation of a version property
  needs two different configurations under one version, hence one change and a stale copy from
  before it. TLC explores it in both directions because the table starts with a legacy row.
* Two request slots (one in `CrawlEnds.cfg`, where PUTs only have to be in the way): every hazard
  of overlapping requests found in the code is about a pair. Two run slots: one that crawls and one
  that joins, or that arrives while the first ends. A third adds nothing the theorems of section 5
  do not cover, which hold for any number.
* Two ids and two users in `ProfileApi.cfg`: uniqueness is a property of pairs. It has one
  description, since none of its properties is about descriptions (`PutIsPartial.cfg` has two), and
  always a core, so that a request also waits in EnsureCategory. The crawl runs use
  one searcher, because crawls of different searchers share no state but the map's distinct keys;
  the proofs have any number.
* Two notices, one per configuration: enough to tell the hits of one configuration from another's.
  In `CrawlEnds.cfg`, which asks nothing about hits, one.
* Fetching: pages of two entries, four notices listed at the start and three to come, a limit of
  three pages, two moves between two pages (`MaxDrift = PageSize`). So an entry can cross a page
  boundary, a whole page can be pushed down and repeat (then `quiet` is false, and without it
  `DoneCoversListing` fails), and the listing can outgrow the page limit.
* The core: three calls at a time, so that two of them can be between SELECT and INSERT and a third
  in the middle of a page; two notices, so that a page can be half done; versions 1 and 2, so that
  a late sync can take the recorded version back. One searcher, because searchers with slugs of
  their own share no row; any number of them, and slugs, is the theorems' part.
* Sessions: three tokens, so that a user can have two sessions and another user one; limits of zero
  and two hours, clocks one hour apart either way, and time up to 3, past the end of every session
  issued at the start.
* Migrations: the four files of the repository; three processes, so that one can be blocked by one
  and overtaken by another; `MaxFaults = 3`, enough for each process to be stopped once in the
  middle or for one to fail three times in a row.
* Configurations: bodies of at most two keys, since no rule of the decoder or the query looks at
  more than two (a key and its older spelling, the search string and `morphology`); `MaxVersion = 4`,
  three changes after the start.
* Symmetry is used in the runs without liveness properties: for request and run slots, and for
  users, tokens, notices and calls where the model does not tell them apart.

`CHECK_DEADLOCK FALSE` stands in `FetchDrift.cfg` (`FetchPages` returns once), in
`Migrations.cfg` (all processes serve and no faults are left) and in the runs of `MCProfileApi`,
where every id of the bound may have been used and deleted.

Fairness. `CrawlRuns!Fairness` is weak fairness of a run handler's steps and of the end of a
crawl. A run handler reads no body, its statements act on one row, its core calls end within the
client's 120 s. A crawl's context expires after 4 h, and each wait of `FetchPages`, the EIS
requests and the syncs watch that context. A PUT gets no fairness: the server sets only
`ReadHeaderTimeout`, so nothing bounds the reading of a body. Page steps of a crawl get none
either: they need not happen. `FetchPages!Spec` is weakly fair in the function's own steps: pauses
are timed and requests carry the context. `Migrations!Fairness` is weak fairness of a process's own
steps, as each statement returns or fails: a transaction that blocks another one ends, with its
process if need be. `Start` gets none: `main` ends with `log.Fatal`, and no file of the repository
starts it again (the service has no restart policy in `docker-compose.yml`). So
`RestartsLeadToServing` has the restarts as its condition: a process that is started again whenever
it has died comes to serve, also when the others stay down. Faults get no fairness and are bounded,
so it speaks of the time after they cease.
`CoreSync`, `Sessions` and `ConfigRow` have no liveness properties and state no fairness.

## 4. Runs that end in a violation

Each shows that the code does something else than a document or comment says; `findings` in
`PROJECT.json` quotes both.

| Configuration | What the counterexample shows |
|---|---|
| `PutKeepsVersion.cfg` | renaming the searcher the migration created raises its `config_version` |
| `PutIsPartial.cfg` | a PUT to `/search-profiles` with a name only empties the description |
| `CrawlAlias.cfg` | a run under another spelling of the UUID leaves its entry in `Server.runs` for good |
| `CrawlStaleList.cfg` | tenders of former filters stay in the list recorded as synced |

More disagreements were seen in the code and have no run of their own:

* a run requested after a change of filters joins the crawl of the old ones, and nothing starts
  another when that one ends (`searchers.go:286`), where `README.md:103-104` says that the worker
  walks the EIS again;
* a PUT that does not mention auto_ai writes back the value it read and so undoes a PUT
  `.../auto-ai` in between;
* without CORE_URL nothing is crawled (`searchers.go:261-272`), where `docs/openapi.yaml:60` says
  that a run still walks the EIS and only does not write to the core;
* a page without entries ends the walk without an error (`fetch.go:223-225`), where
  `docs/openapi.yaml:297-298` says that it goes on until the listing runs out;
* after a rename the category keeps its title until the next sync, because `EnsureCategory` is
  content with a category that exists (`client.go:150`), and the core's "Keep title in sync with
  searcher name" is not reached;
* logout answers ok although its DELETE has failed (`auth.go:66`), where `docs/openapi.yaml:146`
  says that the session is deleted;
* `regions` in an `eis_config` (`docs/openapi.yaml:820`, `README.md:153`) is dropped: the struct
  `SearcherConfig` has no such field, and only `EISSearchConfig`, which has no caller, does.

## 5. Proofs

TLAPS checks the following for all values of the constants that satisfy the assumptions named in the
modules (membership and distinctness of the model's values and ranges of numbers, nothing about the
code).

| Theorem | Statement |
|---|---|
| `CrawlRunsProofs!TypeCorrect` | `Spec => []TypeOK` |
| `CrawlRunsProofs!MapMatchesCrawls` | `OneSpelling => (Spec => []RunsMapMatchesCrawls)` |
| `CrawlRunsProofs!OneCrawl` | `OneSpelling => (Spec => []OneCrawlPerSearcher)` |
| `CrawlRunsProofs!RunsImplementLock` | `OneSpelling => (Spec => Lock!Init /\ [][Lock!Next]_CrawlersNow)` |
| `VersionProofs!VersionsPinFilters` | `Spec => []VersionPinsCrawls` |
| `VersionProofs!SyncedNeverAhead` | `Spec => []SyncedNotAhead` |
| `ServiceProofs!NamesStayUnique` | `Spec => []NamesUnique` |
| `ServiceProofs!RunsAreRecorded` | `Spec => []AcceptedRunRecorded` |
| `ServiceProofs!CrawlsHaveCategory` | `Spec => []CrawlHasCategory` |
| `ServiceProofs!DeletedIsFinal` | `Spec => DeletedStaysDeleted` |
| `ServiceProofs!EditorsAgree` | `Spec => []VersionPinsFilters` |
| `ServiceProofs!DeletedRunsEnd` | `Spec => DeletedRunsDown` |
| `ServiceProofs!HandlersTyped` | `ApiSpec => []ApiTypeOK` |
| `ServiceProofs!HandlersKeepNames` | `ApiSpec => []NamesUnique` |
| `ServiceProofs!HandlersAgree` | `ApiSpec => []VersionPinsFilters` |
| `ServiceProofs!HandlersSpareDeleted` | `ApiSpec => DeletedStaysDeleted` |
| `FetchProofs!TypeCorrect` | `Spec => []TypeOK` |
| `FetchProofs!CountIsDistinct` | `Spec => []FoundCountIsDistinct` |
| `FetchProofs!DoneIsCovered` | `ListedOnce /\ Spec => []DoneCoversListing` |
| `FetchProofs!FeedImplemented` | `Spec => Feed!Init /\ [][Feed!Next]_(Feed!feedVars)` |
| `FetchProofs!GetsAreBounded` | `Spec => GetsRunOut` |
| `CoreSyncProofs!TypeCorrect` | `Spec => []TypeOK` |
| `CoreSyncProofs!SyncIsComplete` | `Spec => []AnsweredSyncIsComplete` |
| `CoreSyncProofs!EnsuredIsThere` | `SlugsDistinct => (Spec => []EnsuredHasCategory)` |
| `CoreSyncProofs!CatalogImplemented` | `SlugsDistinct => (Spec => ImplementsCatalog)` |
| `SessionsProofs!TypeCorrect` | `Spec => []TypeOK` |
| `SessionsProofs!IssuedStays` | `Spec => []IssuedStaysValid` |
| `SessionsProofs!LogoutIsFinal` | `Spec => []LoggedOutStaysOut` |
| `SessionsProofs!OnlyLiveAct` | `Spec => OnlyLiveSessionsAct` |
| `SessionsProofs!BookImplemented` | `Spec => ImplementsSessionBook` |
| `MigrationsProofs!TypeCorrect` | `Spec => []TypeOK` |
| `MigrationsProofs!LedgerTellsTruth` | `Spec => []RecordedExactlyOnce` |
| `MigrationsProofs!OrderKept` | `Spec => []AppliedInOrder` |
| `MigrationsProofs!ServingIsMigrated` | `Spec => []ServesMigrated` |
| `MigrationsProofs!SchemaImplemented` | `Spec => ImplementsSchema` |
| `MigrationsProofs!StartsAreConverging` | `Spec => StartsConverge` |
| `ConfigRowProofs!TypeCorrect` | `Spec => []TypeOK` |
| `ConfigRowProofs!QueryIsKept` | `Spec => []AsksAsTold` |
| `ConfigRowProofs!ReadBack` | `Spec => []ReadsAsWritten` |
| `ConfigRowProofs!RewritingSettles` | `Spec => RewriteSettles` |
| `ConfigRowProofs!StoreImplemented` | `Spec => ImplementsStore` |

In `ServiceProofs`, `Spec` is the specification of `CrawlRuns`, with crawls and restarts next to the
handlers, and `ApiSpec` that of `ProfileApi`, the handlers alone, which is what `ProfileApi.cfg`
checks. The properties of `ProfileApi` are proved for both.

Three theorems have a hypothesis about the world outside, stated next to the specification:

* `OneSpelling`: each id reaches the service in one spelling. `CrawlAlias.cfg` shows that the lock
  needs it.
* `SlugsDistinct`: no two searchers share the first twelve digits of their ids, which
  `gen_random_uuid()` fills with 48 random bits. For two that do, the INSERT meets the other's row,
  renames it, and the second searcher has no category.
* `ListedOnce`: the EIS does not list a notice twice.

The arguments:

* *The lock.* `RunsMapMatchesCrawls` is not inductive: the end of a crawl deletes the entry of
  `held.id`, which is the entry of the run's path only if the snapshot was read under that path.
  The invariant `LockInv` adds that (`HeldIsPath`), which holds under `OneSpelling`. `OneCrawl`
  follows: two crawls of one searcher would be two values of one entry. So does
  `RunsImplementLock`: by the invariant, who crawls which searcher can be read off `Server.runs`,
  and the only steps that touch it are claims, ends of crawls and restarts.
* *The versions.* `VersionPinsCrawls` compares pairs of copies, and a step that changes the row must
  be compared with all of them at once. `PinInv` is about each copy and the row instead: a copy's
  version is at most the row's, with equality only if the filters are the row's; copies of ids not
  yet used do not exist; and two copies of one version agree. `SyncInv` adds the recorded version:
  a sync carries the version of a copy.
  The steps of both specifications are statements on the table (`Statement`) by somebody whose
  copy came from the row (`ReadSince`), and `CopiesStayPinned` says that such a step keeps the
  copies in agreement: it carries `PinInv` for `CrawlRuns` and `EditInv` for `ProfileApi`.
* *The service.* `ServiceInv` adds to `PinInv` the names, and for every run that it has a snapshot
  of the row its path names, that the row is marked as run, and that the category is there.
  `DeletedRunsEnd` rests on the first of these: each step of a run but the SELECT either keeps its
  snapshot and goes on (`GoesOn`) or leaves its slot idle, the SELECT finds only live rows, and the
  UPDATE of last_run_at fails on a row that is gone.
* *The walk.* `CountInv` adds that `seen` is finite, without which its cardinality says nothing.
  `CoverInv` is the picture behind the stop: while the site only publishes, the listing is new
  entries followed by the first listing (`Pushed`), and what has been read is all that stands in the
  first `(page - 1) * PageSize + drift` places and nothing below (`ReadAbove`). With less than a page
  of drift, the next page then reaches below that line unless the listing ends above it.
* *The core.* `ProgressInv` says how far the hits of a call under way have got: linked unless still
  `left`, queued once answered. No statement of another call takes a link back. `OwnInv` adds that
  the row of a slug belongs to the searcher of that slug, so that ON CONFLICT can only hit a row of
  the same searcher. `CatalogImplemented` maps each statement to what `CoreCatalog` lets the call
  do, a version with its page's hits all in the list.
* *Sessions.* `SessionInv` says of each token what the table, the promises and the histories
  have in common (`TokenOK`), and that a login that is still to INSERT is alone with its token. A token
  drawn twice, a DELETE by user, or a lookup that leaves expiry to the clean-up would each break it.
  It also carries the refinement: an INSERT whose answer is lost is of a token nobody has, and the
  clean-up takes only rows that are worth nothing, so the book shows neither.
* *Migrations.* `MigrationInv` says what a process may rely on at each statement: files before its
  own are recorded, what it is about to commit is not, and of the open transactions that have
  inserted one file name there is only one (`RecordedByOne`). With it a commit is the next step of
  `Schema` (`CommitApplies`): the files applied are exactly those up to the one before.
* *The codec.* `RoundTrip` (a canonical configuration decodes to itself), `QuerySurvives` (and asks
  the same) and `DecodeType` carry `RowInv`. A negative page size is the exception the first one
  has and `ReadsAsWritten` names; the query does not notice it, and what is read back is above 0
  again, which is why `RewriteSettles` needs no exception.

* *Why things end.* Three action properties say what liveness adds fairness to, and are proved.
  `GetsRunOut`: each step of a walk lowers `GetsLeft`, which starts at the page limit times the
  attempts per page. `DeletedRunsDown`: the runs of a deleted searcher only go forward through five
  stages. `StartsConverge`: a step without a fault adds the table, adds a file (each happens a bounded
  number of times) or lowers the `Distance` of one process and of no other. A process that has lost a
  race is `Doomed` and far away, so that its death brings it nearer; it is doomed anew only by a file
  or the table coming into being, never by another process's dying or starting.

Two of the theorems state what no run lists: `ApiTypeOK` is a conjunct of the `TypeOK` that
`CrawlRuns.cfg` checks, and `AppliedInOrder` follows from `RecordedExactlyOnce` and
`ImplementsSchema`.

TLC checks the properties on small instances. Only model-checked is liveness, which is out of the
prover's reach: `KeysReleased`, `RunsAnswered`, `DeletedGoesQuiet`, `RestartsLeadToServing` and the
liveness halves of `ImplementsCrawlLock` and `ImplementsPageFeed`. Every other property of a run that
passes is proved.

## 6. Not modelled

* Of the core: a sync with `enqueue` off or with blank numbers, which this service never sends;
  the ingest worker; whatever else touches its tables. It never deletes a category.
  `synced_config_version` may go back when a late sync of an older crawl ends last;
  `docs/openapi.yaml:994-995` calls the comparison optional, and `SyncedNotAhead` is what remains.
* `source`, `enabled`, timestamps: stored and returned, no decision depends on them.
* Requests of a user who does not own the row: each statement finds nothing and the answer is 404.
* GET handlers: they change nothing. What they can show is among `ApiObservations`.
* Code without a caller: `models/eis_config.go`, `ToEISSearchConfig`, `SearcherConfigFromEIS`,
  `CreateUser`, `GetUserByID`, `HashPassword`, `FetchFirstPages`, and the nil-EIS branch of the run
  handler, which `main` makes unreachable. `SEED_DEMO_USER` is read and used by nothing.
* That the table `sessions` grows as long as a process runs: no bounded model shows it.
* More than one replica of the running service: `Server.runs` belongs to one process, and the
  deployment has one. (`Migrations` has several, since a new process starts while the old one runs.)
* Reading the environment: `CORE_URL` and `SESSION_TTL_HOURS` appear as parameters that each start
  may change.
* Wording, HTTP status codes, the HTML patterns of the EIS, TLS and CA files, Swagger, packaging.

## 7. Plan

Everything planned at the beginning is written: the service core, the fetcher, the inside of the
core's calls, sessions, migrations, the codec, and proofs of every safety property that the passing
runs check, action properties and refinements included. What could follow:

1. `ConfigRow` with overlapping PUTs, in place of one after the other; today `ProfileApi` has the
   overlap and `ConfigRow` the JSON, and the refinement joins them.
2. Two searchers that share a slug as a run of its own, if the core ever gets shorter slugs.
3. The fetcher's patterns, should a change of the EIS's markup become a matter of this model.
